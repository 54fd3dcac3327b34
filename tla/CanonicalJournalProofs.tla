----------------------- MODULE CanonicalJournalProofs -----------------------
(***************************************************************************)
(* Proofs about CanonicalJournal, for every set of processes, records and  *)
(* dates: the type invariant; that what an append acknowledged stays       *)
(* synced, linked and readable; that the marker names whatever is not      *)
(* synced, what a crash or a power loss leaves can be recovered, damage is *)
(* never rewritten, no process overlooks what another one wrote; and that  *)
(* the family implements the log of EvidenceLog.  Each theorem names the   *)
(* failures it is proved for.                                              *)
(***************************************************************************)
EXTENDS CanonicalJournal, SequenceTheorems, TLAPS

\* Record r is among the first n lines of its shard.
Within(r, n) ==
  \E i \in 1 .. n : i <= Len(lines[DateOf[r]]) /\ lines[DateOf[r]][i] = r

OnDisk(r) == Within(r, Len(lines[DateOf[r]]))
Synced(r) == Within(r, stable[DateOf[r]])

\* A record is filed under its date, in a shard that has a file.
Filed ==
  \A d \in Dates :
    /\ lines[d] # <<>> => d \in exists
    /\ stable[d] <= Len(lines[d])
    /\ \A i \in 1 .. Len(lines[d]) : lines[d][i] # Fragment => DateOf[lines[d][i]] = d

\* What an index knows is on disk.
KnownOnDisk ==
  \A p \in Procs : \A r \in known[p] : OnDisk(r)

\* An append writes to a shard that exists; past its write it knows its record,
\* and past its sync it has synced it.
AppendProgress ==
  \A p \in Procs :
    /\ pc[p] \in {"mark", "write", "sync", "link", "publish"} => DateOf[op[p]] \in exists
    /\ pc[p] \in {"sync", "link", "publish"} => op[p] \in known[p]
    /\ pc[p] \in {"link", "publish"} => Synced(op[p])

\* An append has created its shard and not written the marker yet.
Creating(p) == pc[p] = "mark" /\ created[p]

\* A shard whose directory entry is not synced is an orphan, or the one the marker names,
\* or one that an append has just created; and an operation settles the marker before it
\* decides.
MarkerNamesUnlinked ==
  /\ linked \subseteq exists /\ orphans \subseteq exists
  /\ \A d \in exists \ linked :
       \/ d \in orphans \/ pending.shard = d
       \/ \E p \in Procs : Creating(p) /\ DateOf[op[p]] = d
  /\ \A p \in Procs :
       /\ pc[p] \in {"target", "choose", "mark"} => pending = NoMarker
       /\ pc[p] \in {"write", "sync", "link", "publish"} => pending.shard = DateOf[op[p]]
       /\ Creating(p) => DateOf[op[p]] \notin linked \cup orphans
       /\ pc[p] \in {"mark", "write", "sync"} => created[p] \/ DateOf[op[p]] \in linked \cup orphans
       /\ pc[p] = "publish" => DateOf[op[p]] \in linked \cup orphans

\* Acknowledged evidence is synced and its shard is linked or an orphan: the
\* strengthening that every step preserves, whatever fails.
SyncedInv ==
  /\ Typed /\ LockHeld /\ Filed /\ KnownOnDisk /\ AppendProgress
  /\ MarkerNamesUnlinked /\ AckedSynced /\ AckedLinked

-----------------------------------------------------------------------------
(* Lemmas about the lines of a shard                                        *)

\* What a scan returns are records.
LEMMA ReadableType == \A s \in Seq(Lines) : Readable(s) \subseteq Records
  BY DEF Readable, Lines

LEMMA AppendLine ==
  \A s \in Seq(Lines), r \in Records :
    /\ Append(s, r) \in Seq(Lines) /\ Len(Append(s, r)) = Len(s) + 1
    /\ \A i \in 1 .. Len(s) : Append(s, r)[i] = s[i]
    /\ Append(s, r)[Len(s) + 1] = r
  BY DEF Lines

\* A function stays typed when one of its values changes.
LEMMA SetAt ==
  ASSUME NEW S, NEW f \in [Procs -> S], NEW p, NEW v \in S
  PROVE  [f EXCEPT ![p] = v] \in [Procs -> S]
  OBVIOUS

\* Cutting a partial tail leaves a prefix that holds every complete line.
LEMMA CompletePrefix ==
  \A s \in Seq(Lines) :
    /\ Complete(s) \in Seq(Lines)
    /\ Len(Complete(s)) <= Len(s)
    /\ \A i \in 1 .. Len(Complete(s)) : Complete(s)[i] = s[i]
    /\ \A i \in 1 .. Len(s) : s[i] # Fragment => i <= Len(Complete(s))
<1> TAKE s \in Seq(Lines)
<1>1. CASE PartialTail(s)
  <2>1. Len(s) \in Nat \ {0} /\ s[Len(s)] = Fragment
    BY <1>1 DEF PartialTail
  <2>2. Complete(s) = SubSeq(s, 1, Len(s) - 1)
    BY <1>1 DEF Complete
  <2> QED BY <2>1, <2>2
<1>2. CASE ~ PartialTail(s)
  BY <1>2 DEF Complete
<1> QED BY <1>1, <1>2

\* A write that stops half way adds at most a fragment.
LEMMA WithFragmentAppends ==
  \A s \in Seq(Lines) :
    /\ WithFragment(s) \in Seq(Lines)
    /\ Len(WithFragment(s)) >= Len(s)
    /\ \A i \in 1 .. Len(s) : WithFragment(s)[i] = s[i]
    /\ \A i \in 1 .. Len(WithFragment(s)) : i > Len(s) => WithFragment(s)[i] = Fragment
<1> TAKE s \in Seq(Lines)
<1>1. CASE PartialTail(s)
  BY <1>1 DEF WithFragment
<1>2. CASE ~ PartialTail(s)
  BY <1>2 DEF WithFragment, Lines
<1> QED BY <1>1, <1>2

-----------------------------------------------------------------------------
(* Type correctness                                                         *)

LEMMA VisibleType == Typed => Visible \subseteq Records
  BY ReadableType DEF Typed, Visible

LEMMA ReleaseType ==
  ASSUME Typed, NEW p \in Procs, Release(p)
  PROVE  /\ writer' \in Procs \cup {NoProc} /\ pc' \in [Procs -> Control]
         /\ op' \in [Procs -> Records \cup {NoRecord}] /\ created' \in [Procs -> BOOLEAN]
  BY DEF Typed, Release, Goto, Control

LEMMA ForgetType ==
  ASSUME Typed, NEW P \in SUBSET Procs, Forget(P)
  PROVE  /\ writer' \in Procs \cup {NoProc} /\ pc' \in [Procs -> Control]
         /\ op' \in [Procs -> Records \cup {NoRecord}] /\ created' \in [Procs -> BOOLEAN]
         /\ loaded' \in [Procs -> BOOLEAN] /\ fresh' \in [Procs -> BOOLEAN]
         /\ known' \in [Procs -> SUBSET Records] /\ manifested' \in [Procs -> SUBSET Records]
         /\ seen' \in [Procs -> SUBSET Lines]
<1>1. pc' \in [Procs -> Control] /\ op' \in [Procs -> Records \cup {NoRecord}]
  BY DEF Typed, Forget, Control
<1>2. writer' \in Procs \cup {NoProc}
  BY DEF Typed, Forget
<1>3. known' \in [Procs -> SUBSET Records] /\ manifested' \in [Procs -> SUBSET Records]
      /\ seen' \in [Procs -> SUBSET Lines]
  BY DEF Typed, Forget
<1>4. created' \in [Procs -> BOOLEAN] /\ loaded' \in [Procs -> BOOLEAN] /\ fresh' \in [Procs -> BOOLEAN]
  BY DEF Typed, Forget
<1> QED BY <1>1, <1>2, <1>3, <1>4

\* What a full scan leaves in the index and in the manifest.
LEMMA ScanType ==
  ASSUME Typed, NEW p \in Procs, NEW ln \in [Dates -> Seq(Lines)], ScanInto(p, ln)
  PROVE  /\ manifest' \subseteq Lines /\ faults' \in Nat
         /\ loaded' \in [Procs -> BOOLEAN] /\ fresh' \in [Procs -> BOOLEAN]
         /\ known' \in [Procs -> SUBSET Records] /\ manifested' \in [Procs -> SUBSET Records]
         /\ current' \in [Procs -> SUBSET Dates] /\ seen' \in [Procs -> SUBSET Lines]
<1> DEFINE all == UNION {Readable(ln[d]) : d \in Dates}
<1>1. all \subseteq Records
  BY ReadableType
<1>2. /\ loaded' = [loaded EXCEPT ![p] = TRUE]
      /\ known'  = [known EXCEPT ![p] = all]
      /\ current' = [q \in Procs |-> IF q = p THEN exists
                                     ELSE current[q] \ {d \in Dates : ln[d] # lines[d]}]
  BY DEF ScanInto
<1>3. loaded' \in [Procs -> BOOLEAN] /\ known' \in [Procs -> SUBSET Records]
      /\ current' \in [Procs -> SUBSET Dates]
  <2> HIDE DEF all
  <2> QED BY <1>1, <1>2 DEF Typed
<1>4. \/ /\ manifest' = all /\ manifested' = [manifested EXCEPT ![p] = all]
         /\ seen' = [seen EXCEPT ![p] = all] /\ faults' = faults
      \/ Fault("rewrite") /\ UNCHANGED <<manifest, manifested, seen>>
  BY DEF ScanInto
<1>5. manifest' \subseteq Lines
  <2> HIDE DEF all
  <2> QED BY <1>1, <1>4 DEF Typed, Lines
<1>6. faults' \in Nat
  BY <1>4 DEF Typed, Fault
<1>7. manifested' \in [Procs -> SUBSET Records]
  <2> HIDE DEF all
  <2>1. Records \subseteq Lines /\ all \in SUBSET Records
    BY <1>1 DEF Lines
  <2>2. manifested' = [manifested EXCEPT ![p] = all] \/ manifested' = manifested
    BY <1>4
  <2> HIDE DEF all
  <2> QED BY <2>1, <2>2 DEF Typed
<1>8. seen' \in [Procs -> SUBSET Lines]
  <2> HIDE DEF all
  <2>1. all \in SUBSET Lines
    BY <1>1 DEF Lines
  <2>2. seen' = [seen EXCEPT ![p] = all] \/ seen' = seen
    BY <1>4
  <2> HIDE DEF all
  <2> QED BY <2>1, <2>2 DEF Typed
<1>9. fresh' \in [Procs -> BOOLEAN]
  <2>1. fresh' = fresh \/ \E kept \in [Procs -> BOOLEAN] : fresh' = kept
    <3>1. ASSUME NEW replaced PROVE [q \in Procs |-> q = p \/ (fresh[q] /\ ~ replaced)] \in [Procs -> BOOLEAN]
      OBVIOUS
    <3> HIDE DEF all
    <3> QED BY <3>1 DEF ScanInto
  <2> QED BY <2>1 DEF Typed
<1> QED BY <1>3, <1>5, <1>6, <1>7, <1>8, <1>9

\* What the settling of the marker after a scan syncs.
LEMMA ScanSettlesType ==
  ASSUME Typed, NEW ln \in [Dates -> Seq(Lines)], NEW cut \in SUBSET Dates, ScanSettles(ln, cut)
  PROVE  /\ stable' \in [Dates -> Nat] /\ pending' \in Marker
         /\ linked' \subseteq Dates /\ orphans' \subseteq Dates
  BY DEF Typed, ScanSettles, SyncDirectory, NoMarker, Marker

\* What reading one shard again leaves in the index and in the manifest.
LEMMA RefreshShardType ==
  ASSUME Typed, NEW p \in Procs, NEW d \in Dates, RefreshShard(p, d)
  PROVE  /\ manifest' \subseteq Lines
         /\ known' \in [Procs -> SUBSET Records] /\ manifested' \in [Procs -> SUBSET Records]
         /\ current' \in [Procs -> SUBSET Dates]
         /\ seen' \in [Procs -> SUBSET Lines] /\ fresh' \in [Procs -> BOOLEAN]
<1> DEFINE content == Readable(lines[d])
           new == content \ manifested[p]
<1>1. content \subseteq Records
  BY ReadableType DEF Typed
<1>2. /\ known' = [known EXCEPT ![p] = {r \in @ : DateOf[r] # d} \cup content]
      /\ current' = [current EXCEPT ![p] = @ \cup {d}]
      /\ manifested' = [manifested EXCEPT ![p] = @ \cup new]
      /\ manifest' = manifest \cup new
      /\ seen'  = [seen EXCEPT ![p] = IF new = {} THEN @ ELSE manifest']
      /\ fresh' = [fresh EXCEPT ![p] = @ \/ new # {}]
  BY DEF RefreshShard
<1> HIDE DEF content
<1>3. /\ manifest' \subseteq Lines /\ known' \in [Procs -> SUBSET Records]
      /\ manifested' \in [Procs -> SUBSET Records] /\ current' \in [Procs -> SUBSET Dates]
  BY <1>1, <1>2 DEF Typed, Lines
<1>4. seen' \in [Procs -> SUBSET Lines]
  BY <1>2, <1>3 DEF Typed
<1>5. fresh' \in [Procs -> BOOLEAN]
  BY <1>2 DEF Typed
<1> QED BY <1>3, <1>4, <1>5

LEMMA RefreshShardFailsType ==
  ASSUME Typed, NEW p \in Procs, NEW d \in Dates, RefreshShardFails(p, d)
  PROVE  /\ manifest' \subseteq Lines /\ faults' \in Nat
         /\ known' \in [Procs -> SUBSET Records] /\ manifested' \in [Procs -> SUBSET Records]
         /\ seen' \in [Procs -> SUBSET Lines] /\ fresh' \in [Procs -> BOOLEAN]
<1>1. PICK i \in 1 .. Len(lines[d]) :
        LET before == {lines[d][j] : j \in 1 .. i-1}
            new == before \ manifested[p]
        IN /\ known' = [known EXCEPT ![p] = {r \in @ : DateOf[r] # d} \cup before \cup {lines[d][i]}]
           /\ manifested' = [manifested EXCEPT ![p] = @ \cup new]
           /\ \E torn \in SUBSET {Fragment} : manifest' = manifest \cup new \cup torn
           /\ seen'  = [seen EXCEPT ![p] = IF new = {} THEN @ ELSE manifest \cup new]
           /\ fresh' = [fresh EXCEPT ![p] = @ \/ new # {}]
  BY DEF RefreshShardFails
<1> DEFINE before == {lines[d][j] : j \in 1 .. i-1}
           new == before \ manifested[p]
<1>2. before \subseteq Records /\ lines[d][i] \in Records
  BY DEF Typed, RefreshShardFails, Intact, Lines
<1>3. /\ known' = [known EXCEPT ![p] = {r \in @ : DateOf[r] # d} \cup before \cup {lines[d][i]}]
      /\ manifested' = [manifested EXCEPT ![p] = @ \cup new]
      /\ \E torn \in SUBSET {Fragment} : manifest' = manifest \cup new \cup torn
      /\ seen'  = [seen EXCEPT ![p] = IF new = {} THEN @ ELSE manifest \cup new]
      /\ fresh' = [fresh EXCEPT ![p] = @ \/ new # {}]
  BY <1>1
<1>4. faults' \in Nat
  BY DEF RefreshShardFails, Fault, Typed
<1> HIDE DEF before
<1>5. known' \in [Procs -> SUBSET Records] /\ manifested' \in [Procs -> SUBSET Records]
  BY <1>2, <1>3 DEF Typed
<1>6. manifest' \subseteq Lines /\ seen' \in [Procs -> SUBSET Lines]
  BY <1>2, <1>3 DEF Typed, Lines
<1>7. fresh' \in [Procs -> BOOLEAN]
  BY <1>3 DEF Typed
<1> QED BY <1>4, <1>5, <1>6, <1>7

\* A sync of any shard.
LEMMA SyncShardType ==
  ASSUME Typed, NEW d, SyncShard(d)
  PROVE  stable' \in [Dates -> Nat]
<1>1. CASE d \in Dates
  BY <1>1 DEF Typed, SyncShard
<1>2. CASE d \notin Dates
  BY <1>2 DEF Typed, SyncShard
<1> QED BY <1>1, <1>2

\* What a power loss leaves: nothing of a shard whose file is gone; the synced
\* lines of any other, and of the ones after them a prefix and a fragment.
LEMMA PowerLossLines ==
  ASSUME Typed, PowerLoss
  PROVE  /\ lines' \in [Dates -> Seq(Lines)]
         /\ linked' = linked /\ (linked \subseteq exists => linked \subseteq exists')
         /\ \A d \in Dates :
              \/ d \in exists \ linked /\ d \notin exists' /\ lines'[d] = <<>> /\ stable'[d] = 0
              \/ /\ d \in exists <=> d \in exists'
                 /\ stable'[d] = stable[d]
                 /\ stable[d] <= Len(lines[d]) => Len(lines'[d]) >= stable[d]
                 /\ lines[d] = <<>> => lines'[d] = <<>>
                 /\ \A i \in 1 .. Len(lines'[d]) :
                      \/ i <= Len(lines[d]) /\ lines'[d][i] = lines[d][i]
                      \/ "torn" \in Faults /\ i > stable[d] /\ lines'[d][i] = Fragment
<1>1. PICK gone \in SUBSET (exists \ linked) :
        /\ exists' = exists \ gone
        /\ \E left \in [Dates -> UNION {AfterPowerLoss(d) : d \in Dates} \cup {<<>>}] :
             /\ \A d \in Dates : IF d \in gone THEN left[d] = <<>> ELSE left[d] \in AfterPowerLoss(d)
             /\ lines' = left
        /\ stable' = [d \in Dates |-> IF d \in gone THEN 0 ELSE stable[d]]
  BY DEF PowerLoss
<1>2. PICK left \in [Dates -> UNION {AfterPowerLoss(d) : d \in Dates} \cup {<<>>}] :
        /\ \A d \in Dates : IF d \in gone THEN left[d] = <<>> ELSE left[d] \in AfterPowerLoss(d)
        /\ lines' = left
  BY <1>1
<1>3. ASSUME NEW d \in Dates, NEW s \in AfterPowerLoss(d)
      PROVE  /\ s \in Seq(Lines)
             /\ stable[d] <= Len(lines[d]) => Len(s) >= stable[d]
             /\ lines[d] = <<>> => s = <<>>
             /\ \A i \in 1 .. Len(s) :
                  \/ i <= Len(lines[d]) /\ s[i] = lines[d][i]
                  \/ "torn" \in Faults /\ i > stable[d] /\ s[i] = Fragment
  <2> DEFINE kept == {SubSeq(lines[d], 1, n) : n \in stable[d] .. Len(lines[d])}
  <2>1. ASSUME NEW t \in kept
        PROVE  /\ t \in Seq(Lines)
               /\ Len(t) >= stable[d] /\ Len(t) <= Len(lines[d])
               /\ \A i \in 1 .. Len(t) : t[i] = lines[d][i]
    <3>1. PICK n \in stable[d] .. Len(lines[d]) : t = SubSeq(lines[d], 1, n)
      BY <2>1
    <3>2. stable[d] \in Nat /\ lines[d] \in Seq(Lines)
      BY DEF Typed
    <3> QED BY <3>1, <3>2
  <2>2. CASE s \in kept
    BY <2>1, <2>2
  <2>3. CASE s \notin kept
    <3>1. PICK t \in kept : "torn" \in Faults /\ s = WithFragment(t) /\ Len(t) < Len(lines[d])
      BY <2>3 DEF AfterPowerLoss
    <3>2. stable[d] \in Nat /\ lines[d] \in Seq(Lines)
      BY DEF Typed
    <3>3. /\ t \in Seq(Lines) /\ Len(t) >= stable[d] /\ Len(t) <= Len(lines[d])
          /\ \A i \in 1 .. Len(t) : t[i] = lines[d][i]
      BY <2>1
    <3>4. /\ s \in Seq(Lines) /\ Len(s) >= Len(t)
          /\ \A i \in 1 .. Len(t) : s[i] = t[i]
          /\ \A i \in 1 .. Len(s) : i > Len(t) => s[i] = Fragment
      BY <3>1, <3>3, WithFragmentAppends
    <3>5. /\ stable[d] <= Len(lines[d]) => Len(s) >= stable[d]
          /\ lines[d] = <<>> => s = <<>>
      BY <3>1, <3>2, <3>3, <3>4
    <3>6. ASSUME NEW i \in 1 .. Len(s)
          PROVE  \/ i <= Len(lines[d]) /\ s[i] = lines[d][i]
                 \/ "torn" \in Faults /\ i > stable[d] /\ s[i] = Fragment
      <4>1. CASE i <= Len(t)
        BY <3>2, <3>3, <3>4, <4>1
      <4>2. CASE i > Len(t)
        BY <3>1, <3>2, <3>3, <3>4, <4>2
      <4> QED BY <3>3, <4>1, <4>2
    <3> QED BY <3>4, <3>5, <3>6
  <2> QED BY <2>2, <2>3
<1>4. lines' \in [Dates -> Seq(Lines)]
  <2>1. ASSUME NEW d \in Dates PROVE left[d] \in Seq(Lines)
    <3>1. CASE d \in gone
      <4>1. left[d] = <<>>
        BY <1>2, <3>1
      <4> QED BY <4>1
    <3>2. CASE d \notin gone
      BY <1>2, <1>3, <3>2
    <3> QED BY <3>1, <3>2
  <2> QED BY <1>2, <2>1
<1>5. linked' = linked /\ (linked \subseteq exists => linked \subseteq exists')
  BY <1>1 DEF PowerLoss
<1>6. ASSUME NEW d \in Dates
      PROVE  \/ d \in exists \ linked /\ d \notin exists' /\ lines'[d] = <<>> /\ stable'[d] = 0
             \/ /\ d \in exists <=> d \in exists'
                /\ stable'[d] = stable[d]
                /\ stable[d] <= Len(lines[d]) => Len(lines'[d]) >= stable[d]
                /\ lines[d] = <<>> => lines'[d] = <<>>
                /\ \A i \in 1 .. Len(lines'[d]) :
                     \/ i <= Len(lines[d]) /\ lines'[d][i] = lines[d][i]
                     \/ "torn" \in Faults /\ i > stable[d] /\ lines'[d][i] = Fragment
  <2>1. CASE d \in gone
    BY <1>1, <1>2, <2>1
  <2>2. CASE d \notin gone
    BY <1>1, <1>2, <1>3, <2>2
  <2> QED BY <2>1, <2>2
<1> QED BY <1>4, <1>5, <1>6

LEMMA TypeInit == Init => Typed /\ LockHeld
<1> SUFFICES ASSUME Init PROVE Typed /\ LockHeld
  OBVIOUS
<1>1. NoMarker \in Marker
  BY DEF NoMarker, Marker
<1> QED BY <1>1 DEF Init, Typed, Control, LockHeld, Busy

\* A shard that an append has created is a date.
LEMMA UnmarkedType ==
  ASSUME Typed, LockHeld, NEW P \in SUBSET Procs
  PROVE  Unmarked(P) \subseteq Dates
<1> USE ConstantsAssumption
<1>1. ASSUME NEW p \in P, At(p, "mark") PROVE DateOf[op[p]] \in Dates
  BY <1>1 DEF LockHeld, Busy, At, Typed
<1> QED BY <1>1 DEF Unmarked

LEMMA TypeStep == Typed /\ LockHeld /\ [Next]_vars => Typed'
<1> SUFFICES ASSUME Typed, LockHeld, [Next]_vars PROVE Typed'
  OBVIOUS
<1> USE ConstantsAssumption
<1>1. ASSUME NEW p \in Procs, Recover(p) PROVE Typed'
  <2> DEFINE whole == [d \in Dates |-> Complete(lines[d])]
             cut == {d \in Dates : PartialTail(lines[d])}
  <2>1. whole \in [Dates -> Seq(Lines)] /\ cut \in SUBSET Dates
    BY CompletePrefix DEF Typed
  <2>2. ScanInto(p, whole) /\ ScanSettles(whole, cut) /\ lines' = whole
    BY <1>1 DEF Recover
  <2> HIDE DEF whole, cut
  <2>3. UNCHANGED <<exists, writer, op, created, acked, lost>> /\ pc' = [pc EXCEPT ![p] = "idle"]
    BY <1>1 DEF Recover, Goto
  <2>4. pc' \in [Procs -> Control]
    BY <2>3 DEF Typed, Control
  <2> QED BY <2>1, <2>2, <2>3, <2>4, ScanType, ScanSettlesType DEF Typed
<1>2. ASSUME NEW p \in Procs, Open(p) PROVE Typed'
  BY <1>2 DEF Open, Typed, Goto, Control, disk, index
<1>3. ASSUME NEW p \in Procs, Inventory(p) PROVE Typed'
  <2>1. ScanInto(p, lines) /\ ScanSettles(lines, {}) /\ lines \in [Dates -> Seq(Lines)]
    BY <1>3 DEF Inventory, ScanAll, Typed
  <2>2. UNCHANGED <<lines, exists, writer, pc, op, created, acked, lost>>
    BY <1>3 DEF Inventory, ScanAll
  <2> QED BY <2>1, <2>2, ScanType, ScanSettlesType DEF Typed
<1>4. ASSUME NEW p \in Procs, Request(p) PROVE Typed'
  BY <1>4 DEF Request, Typed, Goto, Control, disk, index
<1>5. ASSUME NEW p \in Procs, IntegrateManifest(p) PROVE Typed'
  <2>1. manifest \ seen[p] \subseteq Records
    BY <1>5, VisibleType DEF IntegrateManifest, NeedsScan
  <2> DEFINE tail == manifest \ seen[p]
  <2>2. known' = [known EXCEPT ![p] = @ \cup tail] /\ manifested' = [manifested EXCEPT ![p] = @ \cup tail]
    BY <1>5 DEF IntegrateManifest
  <2>3. known' \in [Procs -> SUBSET Records] /\ manifested' \in [Procs -> SUBSET Records]
    BY <2>1, <2>2 DEF Typed
  <2>4. seen' \in [Procs -> SUBSET Lines] /\ current' \in [Procs -> SUBSET Dates]
    BY <1>5 DEF IntegrateManifest, Typed
  <2>5. pc' \in [Procs -> Control]
    BY <1>5 DEF IntegrateManifest, Typed, Goto, Control
  <2> QED BY <1>5, <2>3, <2>4, <2>5 DEF IntegrateManifest, Typed, disk
<1>6. ASSUME NEW p \in Procs, Rescan(p) PROVE Typed'
  <2>1. ScanInto(p, lines) /\ ScanSettles(lines, {}) /\ lines \in [Dates -> Seq(Lines)]
    BY <1>6 DEF Rescan, ScanAll, Typed
  <2>2. UNCHANGED <<lines, exists, writer, op, created, acked, lost>> /\ pc' = [pc EXCEPT ![p] = "pending"]
    BY <1>6 DEF Rescan, ScanAll, Continue, Goto
  <2>3. pc' \in [Procs -> Control]
    BY <2>2 DEF Typed, Control
  <2> QED BY <2>1, <2>2, <2>3, ScanType, ScanSettlesType DEF Typed
<1>7. ASSUME NEW p \in Procs, RescanFails(p) PROVE Typed'
  <2>1. CASE UNCHANGED <<manifest, index, faults>>
    BY <1>7, <2>1, ReleaseType DEF RescanFails, Typed, disk, index
  <2>2. CASE ScanInto(p, lines)
    <3>1. lines \in [Dates -> Seq(Lines)]
      BY DEF Typed
    <3> QED BY <1>7, <2>2, <3>1, ScanType, ReleaseType DEF RescanFails, Typed, disk
  <2> QED BY <1>7, <2>1, <2>2 DEF RescanFails
<1>8. ASSUME NEW p \in Procs, SettlePending(p) PROVE Typed'
  <2>1. pending.shard \in exists => pending.shard \in Dates
    BY DEF Typed
  <2>2. CASE pending = NoMarker /\ Goto(p, "target") /\ UNCHANGED <<manifest, index, faults>> /\ Continue
    BY <1>8, <2>2 DEF SettlePending, Typed, Goto, Control, disk, index, Continue
  <2>3. CASE pending.shard \in exists /\ RefreshShard(p, pending.shard) /\ Goto(p, "settle")
             /\ UNCHANGED <<loaded, faults>> /\ Continue
    <3>1. pc' \in [Procs -> Control]
      BY <2>3 DEF Typed, Goto, Control
    <3> QED BY <1>8, <2>1, <2>3, <3>1, RefreshShardType DEF SettlePending, Typed, disk, Continue
  <2>4. CASE /\ pending.shard \in exists /\ RefreshShardFails(p, pending.shard)
             /\ current' = [current EXCEPT ![p] = @ \ {pending.shard}]
             /\ Release(p) /\ UNCHANGED loaded
    <3>1. current' \in [Procs -> SUBSET Dates]
      BY <2>4 DEF Typed
    <3> QED BY <1>8, <2>1, <2>4, <3>1, RefreshShardFailsType, ReleaseType DEF SettlePending, Typed, disk
  <2>5. CASE /\ current' = [current EXCEPT ![p] = @ \ {pending.shard}]
             /\ Release(p) /\ UNCHANGED <<manifest, loaded, known, manifested, fresh, seen, faults>>
    <3>1. current' \in [Procs -> SUBSET Dates]
      BY <2>5 DEF Typed
    <3> QED BY <1>8, <2>5, <3>1, ReleaseType DEF SettlePending, Typed, disk
  <2> QED BY <1>8, <2>2, <2>3, <2>4, <2>5 DEF SettlePending
<1>9. ASSUME NEW p \in Procs, FinishSettling(p) PROVE Typed'
  <2>1. stable' \in [Dates -> Nat]
    BY <1>9, SyncShardType DEF FinishSettling
  <2>2. linked' \subseteq Dates /\ orphans' \subseteq Dates /\ pending' \in Marker
    BY <1>9 DEF FinishSettling, SyncDirectory, Typed, NoMarker, Marker
  <2>3. /\ writer' \in Procs \cup {NoProc} /\ pc' \in [Procs -> Control]
        /\ op' \in [Procs -> Records \cup {NoRecord}] /\ created' \in [Procs -> BOOLEAN]
    BY <1>9, ReleaseType DEF FinishSettling, Continue, Goto, Typed, Control
  <2> QED BY <1>9, <2>1, <2>2, <2>3 DEF FinishSettling, Typed, index
<1>10. ASSUME NEW p \in Procs, RefreshTarget(p) PROVE Typed'
  <2> DEFINE d == DateOf[op[p]]
  <2>1. CASE Goto(p, "choose") /\ UNCHANGED <<manifest, index, faults>> /\ Continue
    BY <1>10, <2>1 DEF RefreshTarget, Typed, Goto, Control, disk, index, Continue
  <2>2. CASE d \in exists /\ RefreshShard(p, d) /\ Goto(p, "choose") /\ UNCHANGED <<loaded, faults>> /\ Continue
    <3>1. pc' \in [Procs -> Control] /\ d \in Dates
      BY <2>2 DEF Typed, Goto, Control
    <3> QED BY <1>10, <2>2, <3>1, RefreshShardType DEF RefreshTarget, Typed, disk, Continue
  <2>3. CASE d \in exists /\ RefreshShardFails(p, d) /\ Release(p) /\ UNCHANGED <<loaded, current>>
    <3>1. d \in Dates
      BY <2>3 DEF Typed
    <3> QED BY <1>10, <2>3, <3>1, RefreshShardFailsType, ReleaseType DEF RefreshTarget, Typed, disk
  <2>4. CASE Release(p) /\ UNCHANGED <<manifest, index, faults>>
    BY <1>10, <2>4, ReleaseType DEF RefreshTarget, Typed, disk, index
  <2> QED BY <1>10, <2>1, <2>2, <2>3, <2>4 DEF RefreshTarget
<1>11. ASSUME NEW p \in Procs, Reject(p) PROVE Typed'
  BY <1>11, ReleaseType DEF Reject, Typed, disk, index
<1>12. ASSUME NEW p \in Procs, Resync(p) PROVE Typed'
  <2>1. stable' \in [Dates -> Nat] /\ linked' \subseteq Dates /\ orphans' \subseteq Dates
    BY <1>12, SyncShardType DEF Resync, SyncDirectory, Typed
  <2>2. acked' \subseteq Records /\ lost' \subseteq acked' /\ faults' \in Nat
    BY <1>12 DEF Resync, Typed, Fault
  <2> QED BY <1>12, <2>1, <2>2, ReleaseType DEF Resync, Typed, index
<1>13. ASSUME NEW p \in Procs, Prepare(p) PROVE Typed'
  <2>1. DateOf[op[p]] \in Dates /\ Unmarked({p}) \subseteq Dates
    BY <1>13, UnmarkedType DEF Prepare, LockHeld, Busy, At, Typed
  <2>2. CASE /\ pending' = [shard |-> DateOf[op[p]], prior |-> Len(lines[DateOf[op[p]]])]
             /\ Goto(p, "write") /\ UNCHANGED <<orphans, faults>> /\ Continue
    <3>1. pending' \in Marker
      BY <2>1, <2>2 DEF Marker, Typed
    <3>2. pc' \in [Procs -> Control]
      BY <2>2 DEF Typed, Goto, Control
    <3> QED BY <1>13, <2>1, <2>2, <3>1, <3>2 DEF Prepare, Continue, Typed, index
  <2>3. CASE Fault("create") /\ orphans' = orphans \cup Unmarked({p}) /\ Release(p) /\ UNCHANGED pending
    <3>1. faults' \in Nat
      BY <2>3 DEF Fault, Typed
    <3>2. orphans' \subseteq Dates
      BY <2>1, <2>3 DEF Typed
    <3> QED BY <1>13, <2>3, <3>1, <3>2, ReleaseType DEF Prepare, Typed, index
  <2> QED BY <1>13, <2>2, <2>3 DEF Prepare
<1>14. ASSUME NEW p \in Procs, Write(p) PROVE Typed'
  <2> DEFINE d == DateOf[op[p]]
  <2>1. op[p] \in Records /\ d \in Dates /\ lines[d] \in Seq(Lines)
    BY <1>14 DEF Write, LockHeld, Busy, At, Typed
  <2>2. lines' \in [Dates -> Seq(Lines)]
    <3>1. CASE lines' = [lines EXCEPT ![d] = Append(@, op[p])]
      BY <2>1, <3>1 DEF Typed, Lines
    <3>2. CASE lines' = [lines EXCEPT ![d] = WithFragment(@)]
      BY <2>1, <3>2, WithFragmentAppends DEF Typed
    <3> QED BY <1>14, <3>1, <3>2 DEF Write
  <2>3. /\ known' \in [Procs -> SUBSET Records]
        /\ current' \in [Procs -> SUBSET Dates]
        /\ faults' \in Nat
    <3>1. known' \in [Procs -> SUBSET Records]
      <4>1. known' = [known EXCEPT ![p] = @ \cup {op[p]}] \/ known' = known
        BY <1>14 DEF Write
      <4>2. CASE known' = known
        BY <4>2 DEF Typed
      <4>3. CASE known' = [known EXCEPT ![p] = @ \cup {op[p]}]
        <5>1. known[p] \cup {op[p]} \in SUBSET Records
          BY <2>1 DEF Typed
        <5> QED BY <4>3, <5>1 DEF Typed
      <4> QED BY <4>1, <4>2, <4>3
    <3>2. current' \in [Procs -> SUBSET Dates]
      <4>1. Changed(p, d, TRUE) \/ Changed(p, d, FALSE)
        BY <1>14 DEF Write
      <4>2. \A q \in Procs : {current[q] \cup {d}, current[q] \ {d}} \subseteq SUBSET Dates
        BY <2>1 DEF Typed
      <4> HIDE DEF d
      <4> QED BY <4>1, <4>2 DEF Changed
    <3>3. faults' \in Nat
      <4>1. faults' = faults \/ faults' = faults + 1
        BY <1>14 DEF Write, Fault
      <4> QED BY <4>1 DEF Typed
    <3> QED BY <3>1, <3>2, <3>3
  <2>4. /\ writer' \in Procs \cup {NoProc} /\ pc' \in [Procs -> Control]
        /\ op' \in [Procs -> Records \cup {NoRecord}] /\ created' \in [Procs -> BOOLEAN]
    BY <1>14, ReleaseType DEF Write, Continue, Goto, Typed, Control
  <2> QED BY <1>14, <2>2, <2>3, <2>4 DEF Write, Typed
<1>15. ASSUME NEW p \in Procs, Sync(p) PROVE Typed'
  <2>1. stable' \in [Dates -> Nat] /\ faults' \in Nat
    BY <1>15, SyncShardType DEF Sync, Typed, Fault
  <2>2. /\ writer' \in Procs \cup {NoProc} /\ pc' \in [Procs -> Control]
        /\ op' \in [Procs -> Records \cup {NoRecord}] /\ created' \in [Procs -> BOOLEAN]
    BY <1>15, ReleaseType DEF Sync, Continue, Goto, Typed, Control
  <2> QED BY <1>15, <2>1, <2>2 DEF Sync, Typed, index
<1>16. ASSUME NEW p \in Procs, Link(p) PROVE Typed'
  <2>1. linked' \subseteq Dates /\ orphans' \subseteq Dates /\ faults' \in Nat
    BY <1>16 DEF Link, SyncDirectory, Typed, Fault
  <2>2. /\ writer' \in Procs \cup {NoProc} /\ pc' \in [Procs -> Control]
        /\ op' \in [Procs -> Records \cup {NoRecord}] /\ created' \in [Procs -> BOOLEAN]
    BY <1>16, ReleaseType DEF Link, Continue, Goto, Typed, Control
  <2> QED BY <1>16, <2>1, <2>2 DEF Link, Typed, index
<1>17. ASSUME NEW p \in Procs, Publish(p) PROVE Typed'
  <2>1. op[p] \in Records /\ acked' \subseteq Records /\ lost' \subseteq acked'
    BY <1>17 DEF Publish, LockHeld, Busy, At, Typed
  <2>2. manifest' \subseteq Lines
    BY <1>17, <2>1 DEF Publish, Typed, Lines
  <2>3. manifested' \in [Procs -> SUBSET Records]
    <3>1. manifested' = [manifested EXCEPT ![p] = @ \cup {op[p]}] \/ manifested' = manifested
      BY <1>17 DEF Publish
    <3>2. manifested[p] \cup {op[p]} \in SUBSET Records
      BY <2>1 DEF Typed
    <3> QED BY <3>1, <3>2, SetAt DEF Typed
  <2>4. seen' \in [Procs -> SUBSET Lines]
    <3>1. seen' = [seen EXCEPT ![p] = manifest'] \/ seen' = seen
      BY <1>17 DEF Publish
    <3> QED BY <2>2, <3>1, SetAt DEF Typed
  <2>5. fresh' \in [Procs -> BOOLEAN]
    BY <1>17 DEF Publish, Typed
  <2>6. faults' \in Nat
    BY <1>17 DEF Publish, Typed, Fault
  <2>7. pending' \in Marker
    BY <1>17 DEF Publish, Typed, NoMarker, Marker
  <2> QED BY <1>17, <2>1, <2>2, <2>3, <2>4, <2>5, <2>6, <2>7, ReleaseType DEF Publish, Typed, disk
<1>18. ASSUME NEW p \in Procs, Crash(p) PROVE Typed'
  <2>1. lines' \in [Dates -> Seq(Lines)]
    <3>1. CASE UNCHANGED lines
      BY <3>1 DEF Typed
    <3>2. CASE lines' = [lines EXCEPT ![DateOf[op[p]]] = WithFragment(@)]
      BY <3>2, WithFragmentAppends DEF Typed
    <3> QED BY <1>18, <3>1, <3>2 DEF Crash
  <2>2. current' \in [Procs -> SUBSET Dates]
    <3>1. CASE current' = [current EXCEPT ![p] = {}]
      BY <3>1 DEF Typed
    <3>2. CASE current' = [q \in Procs |-> IF q = p THEN {} ELSE current[q] \ {DateOf[op[p]]}]
      BY <3>2 DEF Typed
    <3> QED BY <1>18, <3>1, <3>2 DEF Crash
  <2>3. faults' \in Nat
    BY <1>18 DEF Crash, Typed, Fault
  <2>4. Forget({p})
    BY <1>18 DEF Crash
  <2>5. orphans' \subseteq Dates
    <3>1. Unmarked({p}) \subseteq Dates
      BY UnmarkedType
    <3> QED BY <1>18, <3>1 DEF Crash, Typed
  <2>6. UNCHANGED <<exists, stable, linked, pending, manifest, acked, lost>>
    BY <1>18 DEF Crash
  <2>7. /\ writer' \in Procs \cup {NoProc} /\ pc' \in [Procs -> Control]
        /\ op' \in [Procs -> Records \cup {NoRecord}] /\ created' \in [Procs -> BOOLEAN]
        /\ loaded' \in [Procs -> BOOLEAN] /\ fresh' \in [Procs -> BOOLEAN]
        /\ known' \in [Procs -> SUBSET Records] /\ manifested' \in [Procs -> SUBSET Records]
        /\ seen' \in [Procs -> SUBSET Lines]
    BY <2>4, ForgetType
  <2> QED BY <2>1, <2>2, <2>3, <2>5, <2>6, <2>7 DEF Typed
<1>19. CASE PowerLoss
  <2>1. lines' \in [Dates -> Seq(Lines)]
    BY <1>19, PowerLossLines DEF Typed
  <2>2. exists' \subseteq Dates /\ linked' \subseteq Dates /\ stable' \in [Dates -> Nat]
    BY <1>19 DEF PowerLoss, Typed
  <2>3. current' \in [Procs -> SUBSET Dates] /\ faults' \in Nat
    BY <1>19 DEF PowerLoss, Typed, Fault
  <2>4. Forget(Procs)
    BY <1>19 DEF PowerLoss
  <2>5. orphans' \subseteq Dates /\ lost' \subseteq acked'
    BY <1>19, UnmarkedType DEF PowerLoss, Typed
  <2> QED BY <1>19, <2>1, <2>2, <2>3, <2>4, <2>5, ForgetType DEF PowerLoss, Typed
<1>20. CASE UNCHANGED vars
  BY <1>20 DEF vars, disk, index, Typed
<1>21. ASSUME NEW p \in Procs, Create(p) PROVE Typed'
  <2>1. DateOf[op[p]] \in Dates
    BY <1>21 DEF Create, LockHeld, Busy, At, Typed
  <2>2. pc' \in [Procs -> Control] /\ created' \in [Procs -> BOOLEAN]
    BY <1>21 DEF Create, Typed, Goto, Control
  <2> QED BY <1>21, <2>1, <2>2 DEF Create, Typed, index
<1> QED BY <1>1, <1>2, <1>3, <1>4, <1>5, <1>6, <1>7, <1>8, <1>9, <1>10, <1>11, <1>12,
           <1>13, <1>14, <1>15, <1>16, <1>17, <1>18, <1>19, <1>20, <1>21 DEF Next, Step

\* A step of an operation releases its lock or goes on holding it.
LEMMA StepControl ==
  ASSUME NEW p \in Procs, Step(p)
  PROVE  /\ Busy(p)
         /\ Release(p) \/ ((\E s \in Control : Goto(p, s)) /\ UNCHANGED <<writer, op>>)
<1>1. CASE IntegrateManifest(p)
  BY <1>1 DEF IntegrateManifest, Busy, At, Control
<1>2. CASE Rescan(p)
  BY <1>2 DEF Rescan, Busy, At, Continue, Control
<1>3. CASE RescanFails(p)
  BY <1>3 DEF RescanFails, Busy, At
<1>4. CASE SettlePending(p)
  BY <1>4 DEF SettlePending, Busy, At, Continue, Control
<1>5. CASE FinishSettling(p)
  BY <1>5 DEF FinishSettling, Busy, At, Continue, Control
<1>6. CASE RefreshTarget(p)
  BY <1>6 DEF RefreshTarget, Busy, At, Continue, Control
<1>7. CASE Reject(p)
  BY <1>7 DEF Reject, Busy, At
<1>8. CASE Resync(p)
  BY <1>8 DEF Resync, Busy, At
<1>9. CASE Prepare(p)
  BY <1>9 DEF Prepare, Busy, At, Continue, Control
<1>10. CASE Write(p)
  BY <1>10 DEF Write, Busy, At, Continue, Control
<1>11. CASE Sync(p)
  BY <1>11 DEF Sync, Busy, At, Continue, Control
<1>12. CASE Link(p)
  BY <1>12 DEF Link, Busy, At, Continue, Control
<1>13. CASE Publish(p)
  BY <1>13 DEF Publish, Busy, At
<1>14. CASE Create(p)
  BY <1>14 DEF Create, Busy, At, Control
<1> QED BY <1>1, <1>2, <1>3, <1>4, <1>5, <1>6, <1>7, <1>8, <1>9, <1>10, <1>11, <1>12, <1>13, <1>14 DEF Step

LEMMA LockStep == Typed /\ LockHeld /\ [Next]_vars => LockHeld'
<1> SUFFICES ASSUME Typed, LockHeld, [Next]_vars PROVE LockHeld'
  OBVIOUS
<1> USE ConstantsAssumption
<1>1. ASSUME NEW p \in Procs, Step(p) PROVE LockHeld'
  <2>1. Busy(p) /\ writer = p /\ op[p] \in Records /\ \A q \in Procs \ {p} : ~ Busy(q)
    BY <1>1, StepControl DEF LockHeld
  <2>2. CASE Release(p)
    BY <2>1, <2>2 DEF Release, Goto, LockHeld, Busy, Typed
  <2>3. CASE (\E s \in Control : Goto(p, s)) /\ UNCHANGED <<writer, op>>
    BY <2>1, <2>3 DEF Goto, LockHeld, Busy, Typed
  <2> QED BY <1>1, <2>2, <2>3, StepControl
<1>2. ASSUME NEW p \in Procs, Recover(p) PROVE LockHeld'
  BY <1>2 DEF Recover, Goto, LockHeld, Busy, Typed
<1>3. ASSUME NEW p \in Procs, Open(p) PROVE LockHeld'
  BY <1>3 DEF Open, At, Goto, LockHeld, Busy, Typed
<1>4. ASSUME NEW p \in Procs, Inventory(p) PROVE LockHeld'
  BY <1>4 DEF Inventory, LockHeld, Busy
<1>5. ASSUME NEW p \in Procs, Request(p) PROVE LockHeld'
  BY <1>5 DEF Request, Goto, LockHeld, Busy, Typed
<1>6. ASSUME NEW p \in Procs, Crash(p) PROVE LockHeld'
  BY <1>6 DEF Crash, Forget, LockHeld, Busy, Typed
<1>7. CASE PowerLoss
  BY <1>7 DEF PowerLoss, Forget, LockHeld, Busy, Typed
<1>8. CASE UNCHANGED vars
  BY <1>8 DEF vars, LockHeld, Busy
<1> QED BY <1>1, <1>2, <1>3, <1>4, <1>5, <1>6, <1>7, <1>8 DEF Next

\* The variables always have their types, and an operation holds the lock.
THEOREM TypeCorrect == Spec => []TypeOK
<1>1. Init => TypeOK
  BY TypeInit DEF TypeOK
<1>2. TypeOK /\ [Next]_vars => TypeOK'
  BY TypeStep, LockStep DEF TypeOK
<1> QED BY <1>1, <1>2, PTL DEF Spec

-----------------------------------------------------------------------------
(* What is synced stays                                                     *)

\* A step keeps every whole line of every shard, synced if it was; what it adds
\* is a fragment or a record filed under its date.
Keeps ==
  /\ exists \subseteq exists'
  /\ \A d \in Dates :
       /\ lines'[d] # <<>> => d \in exists'
       /\ stable'[d] <= Len(lines'[d])
       /\ \A i \in 1 .. Len(lines[d]) : lines[d][i] # Fragment =>
            /\ i <= Len(lines'[d]) /\ lines'[d][i] = lines[d][i]
            /\ i <= stable[d] => i <= stable'[d]
       /\ \A i \in 1 .. Len(lines'[d]) :
            \/ lines'[d][i] = Fragment
            \/ i <= Len(lines[d]) /\ lines'[d][i] = lines[d][i]
            \/ DateOf[lines'[d][i]] = d

\* Nothing is written and no sync is undone.
LEMMA QuietKeeps ==
  ASSUME Typed, Filed, UNCHANGED lines, exists \subseteq exists',
         \A d \in Dates : stable'[d] = stable[d] \/ stable'[d] = Len(lines[d])
  PROVE  Keeps
<1>1. ASSUME NEW d \in Dates
      PROVE  /\ lines[d] # <<>> => d \in exists'
             /\ stable'[d] <= Len(lines[d])
             /\ \A i \in 1 .. Len(lines[d]) : i <= stable[d] => i <= stable'[d]
  <2>1. stable[d] \in Nat /\ Len(lines[d]) \in Nat /\ stable[d] <= Len(lines[d])
    BY DEF Typed, Filed
  <2> QED BY <2>1 DEF Filed
<1> QED BY <1>1 DEF Keeps

LEMMA SyncShardKeeps ==
  ASSUME Typed, Filed, UNCHANGED <<lines, exists>>, NEW d, SyncShard(d)
  PROVE  Keeps
<1>1. \A e \in Dates : stable'[e] = stable[e] \/ stable'[e] = Len(lines[e])
  BY DEF SyncShard, Typed
<1> QED BY <1>1, QuietKeeps

LEMMA StepKeeps ==
  ASSUME Typed, LockHeld, Filed, AppendProgress, NEW p \in Procs,
         Step(p) \/ Recover(p) \/ Open(p) \/ Inventory(p) \/ Request(p) \/ Crash(p)
  PROVE  Keeps
<1> USE ConstantsAssumption
<1>1. ASSUME UNCHANGED disk PROVE Keeps
  BY <1>1, QuietKeeps DEF disk
<1>2. CASE IntegrateManifest(p) \/ RescanFails(p) \/ SettlePending(p) \/ RefreshTarget(p)
           \/ Reject(p) \/ Publish(p) \/ Open(p) \/ Request(p)
  BY <1>1, <1>2 DEF IntegrateManifest, RescanFails, SettlePending, RefreshTarget, Reject, Publish,
                    Open, Request
<1>3. CASE Rescan(p) \/ Inventory(p)
  <2>1. UNCHANGED <<lines, exists>> /\ ScanSettles(lines, {})
    BY <1>3 DEF Rescan, Inventory, ScanAll
  <2> QED BY <2>1, QuietKeeps DEF ScanSettles
<1>4. CASE FinishSettling(p)
  BY <1>4, SyncShardKeeps DEF FinishSettling
<1>5. CASE Resync(p)
  <2>1. UNCHANGED <<lines, exists>> /\ (SyncShard(DateOf[op[p]]) \/ UNCHANGED stable)
    BY <1>5 DEF Resync
  <2> QED BY <2>1, SyncShardKeeps, QuietKeeps
<1>6. CASE Create(p) \/ Prepare(p)
  <2>1. UNCHANGED <<lines, stable>> /\ exists \subseteq exists'
    BY <1>6 DEF Create, Prepare
  <2> QED BY <2>1, QuietKeeps
<1>7. CASE Sync(p)
  <2>1. UNCHANGED <<lines, exists>> /\ (SyncShard(DateOf[op[p]]) \/ UNCHANGED stable)
    BY <1>7 DEF Sync
  <2> QED BY <2>1, SyncShardKeeps, QuietKeeps
<1>8. CASE Link(p)
  <2>1. UNCHANGED <<lines, exists, stable>>
    BY <1>8 DEF Link
  <2> QED BY <2>1, QuietKeeps
<1>9. ASSUME op[p] \in Records, DateOf[op[p]] \in exists, UNCHANGED <<exists, stable>>,
             \/ lines' = [lines EXCEPT ![DateOf[op[p]]] = Append(@, op[p])]
             \/ lines' = [lines EXCEPT ![DateOf[op[p]]] = WithFragment(@)]
      PROVE  Keeps
  <2> DEFINE d == DateOf[op[p]]
  <2>1. d \in Dates /\ lines[d] \in Seq(Lines) /\ stable[d] <= Len(lines[d]) /\ stable[d] \in Nat
    BY <1>9 DEF Typed, Filed
  <2>2. \A e \in Dates \ {d} : lines'[e] = lines[e]
    BY <1>9 DEF Typed
  <2>3. /\ Len(lines'[d]) >= Len(lines[d])
        /\ \A i \in 1 .. Len(lines[d]) : lines'[d][i] = lines[d][i]
        /\ \A i \in 1 .. Len(lines'[d]) : i > Len(lines[d]) => lines'[d][i] \in {op[p], Fragment}
    <3>1. CASE lines' = [lines EXCEPT ![d] = Append(@, op[p])]
      <4>1. lines'[d] = Append(lines[d], op[p])
        BY <2>1, <3>1 DEF Typed
      <4>2. Len(lines'[d]) = Len(lines[d]) + 1 /\ lines'[d][Len(lines[d]) + 1] = op[p]
        BY <1>9, <2>1, <4>1, AppendLine
      <4>3. \A i \in 1 .. Len(lines[d]) : lines'[d][i] = lines[d][i]
        BY <1>9, <2>1, <4>1, AppendLine
      <4>4. \A i \in 1 .. Len(lines'[d]) : i > Len(lines[d]) => i = Len(lines[d]) + 1
        BY <2>1, <4>2
      <4> HIDE DEF d
      <4> QED BY <2>1, <4>2, <4>3, <4>4
    <3>2. CASE lines' = [lines EXCEPT ![d] = WithFragment(@)]
      <4>1. lines'[d] = WithFragment(lines[d])
        BY <2>1, <3>2 DEF Typed
      <4> QED BY <2>1, <4>1, WithFragmentAppends
    <3> QED BY <1>9, <3>1, <3>2
  <2>4. \A e \in Dates : lines'[e] # <<>> => e \in exists'
    BY <1>9, <2>2 DEF Filed
  <2>5. \A e \in Dates : stable'[e] <= Len(lines'[e]) /\ stable'[e] = stable[e]
    <3>1. ASSUME NEW e \in Dates PROVE stable[e] <= Len(lines'[e])
      <4>1. CASE e = d
        <5>1. lines'[d] = Append(lines[d], op[p]) \/ lines'[d] = WithFragment(lines[d])
          BY <1>9, <2>1 DEF Typed
        <5>2. Len(lines'[d]) \in Nat
          BY <1>9, <2>1, <5>1, WithFragmentAppends, AppendLine
        <5> QED BY <2>1, <2>3, <4>1, <5>2
      <4>2. CASE e # d
        BY <2>2, <4>2 DEF Filed
      <4> QED BY <4>1, <4>2
    <3> QED BY <1>9, <3>1
  <2> HIDE DEF d
  <2> QED BY <1>9, <2>1, <2>2, <2>3, <2>4, <2>5 DEF Keeps, d
<1>10. CASE Write(p)
  <2>1. op[p] \in Records /\ DateOf[op[p]] \in exists
    BY <1>10 DEF Write, At, LockHeld, Busy, AppendProgress
  <2>2. /\ UNCHANGED <<exists, stable>>
        /\ \/ lines' = [lines EXCEPT ![DateOf[op[p]]] = Append(@, op[p])]
           \/ lines' = [lines EXCEPT ![DateOf[op[p]]] = WithFragment(@)]
    BY <1>10 DEF Write
  <2> QED BY <1>9, <2>1, <2>2
<1>11. CASE Crash(p)
  <2>1. CASE UNCHANGED lines
    <3>1. UNCHANGED <<exists, stable>>
      BY <1>11 DEF Crash
    <3> QED BY <2>1, <3>1, QuietKeeps
  <2>2. CASE At(p, "write") /\ lines' = [lines EXCEPT ![DateOf[op[p]]] = WithFragment(@)]
    <3>1. op[p] \in Records /\ DateOf[op[p]] \in exists
      BY <2>2 DEF At, LockHeld, Busy, AppendProgress
    <3> QED BY <1>9, <1>11, <2>2, <3>1 DEF Crash
  <2> QED BY <1>11, <2>1, <2>2 DEF Crash
<1>12. CASE Recover(p)
  <2> DEFINE whole == [d \in Dates |-> Complete(lines[d])]
             cut == {d \in Dates : PartialTail(lines[d])}
  <2>1. lines' = whole /\ ScanSettles(whole, cut) /\ UNCHANGED exists
    BY <1>12 DEF Recover
  <2>2. ASSUME NEW d \in Dates
        PROVE  /\ lines'[d] # <<>> => d \in exists'
               /\ stable'[d] <= Len(lines'[d])
               /\ \A i \in 1 .. Len(lines[d]) : lines[d][i] # Fragment =>
                    /\ i <= Len(lines'[d]) /\ lines'[d][i] = lines[d][i]
                    /\ i <= stable[d] => i <= stable'[d]
               /\ \A i \in 1 .. Len(lines'[d]) : i <= Len(lines[d]) /\ lines'[d][i] = lines[d][i]
    <3>1. lines[d] \in Seq(Lines) /\ stable[d] \in Nat /\ stable[d] <= Len(lines[d])
      BY DEF Typed, Filed
    <3>2. lines'[d] = Complete(lines[d])
      BY <2>1
    <3>3. /\ Len(lines'[d]) \in Nat /\ Len(lines'[d]) <= Len(lines[d])
          /\ \A i \in 1 .. Len(lines'[d]) : lines'[d][i] = lines[d][i]
          /\ \A i \in 1 .. Len(lines[d]) : lines[d][i] # Fragment => i <= Len(lines'[d])
      BY <3>1, <3>2, CompletePrefix
    <3>4. stable'[d] = Len(lines'[d]) \/ (stable'[d] = stable[d] /\ d \notin cut)
      BY <2>1 DEF ScanSettles
    <3>5. d \notin cut => lines'[d] = lines[d]
      BY <3>2 DEF Complete
    <3>6. lines'[d] # <<>> => d \in exists'
      <4>1. lines'[d] # <<>> => lines[d] # <<>>
        BY <3>1, <3>2, <3>3 DEF Complete, PartialTail
      <4> QED BY <2>1, <4>1 DEF Filed
    <3> HIDE DEF cut
    <3> QED BY <3>1, <3>3, <3>4, <3>5, <3>6
  <2> QED BY <2>1, <2>2 DEF Keeps
<1> QED BY <1>2, <1>3, <1>4, <1>5, <1>6, <1>7, <1>8, <1>10, <1>11, <1>12 DEF Step

LEMMA KeepsFiled == Typed /\ Filed /\ Keeps => Filed'
  BY DEF Filed, Keeps

LEMMA KeepsWithin ==
  ASSUME Typed, Typed', Filed, Keeps, NEW r \in Records
  PROVE  (OnDisk(r) => OnDisk(r)') /\ (Synced(r) => Synced(r)')
<1> USE ConstantsAssumption
<1> DEFINE d == DateOf[r]
<1>1. d \in Dates /\ r # Fragment
  OBVIOUS
<1>2. lines[d] \in Seq(Lines) /\ lines'[d] \in Seq(Lines) /\ stable[d] \in Nat /\ stable'[d] \in Nat
  BY <1>1 DEF Typed
<1>3. \A i \in 1 .. Len(lines[d]) : lines[d][i] = r =>
        /\ i <= Len(lines'[d]) /\ lines'[d][i] = r
        /\ i <= stable[d] => i <= stable'[d]
  BY <1>1 DEF Keeps
<1> HIDE DEF d
<1>4. OnDisk(r) => OnDisk(r)'
  BY <1>2, <1>3 DEF OnDisk, Within, d
<1>5. Synced(r) => Synced(r)'
  BY <1>2, <1>3 DEF Synced, Within, d
<1> QED BY <1>4, <1>5

\* A record on disk is the i-th line of its shard.
LEMMA ReadableOnDisk ==
  ASSUME Typed, Filed, NEW d \in Dates, NEW r \in Readable(lines[d])
  PROVE  OnDisk(r) /\ DateOf[r] = d
  BY DEF Typed, Filed, Readable, OnDisk, Within

\* What an index learns in a step is on disk.
LEMMA KnownStep ==
  ASSUME Typed, Typed', LockHeld, Filed, Filed', Keeps, NEW p \in Procs,
         Step(p) \/ Recover(p) \/ Open(p) \/ Inventory(p) \/ Request(p) \/ Crash(p)
  PROVE  \A q \in Procs : \A r \in known'[q] : r \in known[q] \/ OnDisk(r)'
<1> USE ConstantsAssumption
<1> SUFFICES ASSUME NEW q \in Procs, NEW r \in known'[q], r \notin known[q]
             PROVE  OnDisk(r)'
  OBVIOUS
<1>1. r \in Records
  BY DEF Typed
<1>2. known' # known
  OBVIOUS
<1>3. ASSUME NEW d \in Dates, r \in Readable(lines'[d]) PROVE OnDisk(r)'
  BY <1>3 DEF Typed, Filed, Readable, OnDisk, Within
<1>4. ASSUME NEW d \in Dates, NEW i \in 1 .. Len(lines[d]), r = lines[d][i] PROVE OnDisk(r)'
  <2>1. DateOf[r] = d
    BY <1>1, <1>4 DEF Filed
  <2>2. OnDisk(r)
    BY <1>4, <2>1 DEF OnDisk, Within
  <2> QED BY <1>1, <2>2, KeepsWithin
<1>5. ASSUME NEW d \in Dates, r \in Readable(lines[d]) PROVE OnDisk(r)'
  BY <1>1, <1>5, ReadableOnDisk, KeepsWithin
<1>6. ASSUME NEW ln, lines' = ln, ScanInto(p, ln) PROVE OnDisk(r)'
  <2>1. known' = [known EXCEPT ![p] = UNION {Readable(ln[d]) : d \in Dates}]
    BY <1>6 DEF ScanInto
  <2>2. PICK d \in Dates : r \in Readable(lines'[d])
    BY <1>6, <2>1 DEF Typed
  <2> QED BY <1>3, <2>2
<1>7. CASE Recover(p)
  <2>1. ScanInto(p, lines')
    BY <1>7 DEF Recover
  <2> QED BY <1>6, <2>1
<1>8. CASE Inventory(p) \/ Rescan(p) \/ RescanFails(p)
  <2>1. ScanInto(p, lines')
    BY <1>2, <1>8 DEF Inventory, Rescan, RescanFails, ScanAll, index, disk
  <2> QED BY <1>6, <2>1
<1>9. CASE IntegrateManifest(p)
  <2>1. r \in manifest \ seen[p] /\ manifest \ seen[p] \subseteq Visible
    BY <1>9 DEF IntegrateManifest, NeedsScan, Typed
  <2>2. PICK d \in Dates : r \in Readable(lines[d])
    BY <2>1 DEF Visible
  <2> QED BY <1>5, <2>2
<1>10. ASSUME NEW d \in Dates, RefreshShard(p, d) PROVE OnDisk(r)'
  <2>1. known' = [known EXCEPT ![p] = {k \in @ : DateOf[k] # d} \cup Readable(lines[d])]
    BY <1>10 DEF RefreshShard
  <2>2. r \in Readable(lines[d])
    BY <2>1 DEF Typed
  <2> QED BY <1>5, <2>2
<1>11. ASSUME NEW d \in Dates, RefreshShardFails(p, d) PROVE OnDisk(r)'
  <2>1. PICK i \in 1 .. Len(lines[d]) :
          known' = [known EXCEPT ![p] = {k \in @ : DateOf[k] # d}
                                        \cup {lines[d][j] : j \in 1 .. i-1} \cup {lines[d][i]}]
    BY <1>11 DEF RefreshShardFails
  <2>2. r \in {lines[d][j] : j \in 1 .. i-1} \/ r = lines[d][i]
    BY <2>1 DEF Typed
  <2>3. Len(lines[d]) \in Nat
    BY DEF Typed
  <2>4. \E j \in 1 .. Len(lines[d]) : r = lines[d][j]
    BY <2>2, <2>3
  <2> QED BY <1>4, <2>4
<1>12. CASE SettlePending(p)
  <2>1. pending.shard \in exists /\ (RefreshShard(p, pending.shard) \/ RefreshShardFails(p, pending.shard))
    BY <1>2, <1>12 DEF SettlePending, index
  <2>2. pending.shard \in Dates
    BY <2>1 DEF Typed
  <2> QED BY <1>10, <1>11, <2>1, <2>2
<1>13. CASE RefreshTarget(p)
  <2>1. DateOf[op[p]] \in exists /\ (RefreshShard(p, DateOf[op[p]]) \/ RefreshShardFails(p, DateOf[op[p]]))
    BY <1>2, <1>13 DEF RefreshTarget, index
  <2>2. DateOf[op[p]] \in Dates
    BY <2>1 DEF Typed
  <2> QED BY <1>10, <1>11, <2>1, <2>2
<1>14. CASE Write(p)
  <2>1. op[p] \in Records
    BY <1>14 DEF Write, At, LockHeld, Busy
  <2>2. lines' = [lines EXCEPT ![DateOf[op[p]]] = Append(@, op[p])]
        /\ known' = [known EXCEPT ![p] = @ \cup {op[p]}]
    BY <1>2, <1>14 DEF Write
  <2>3. r = op[p]
    BY <2>2 DEF Typed
  <2>4. lines'[DateOf[r]] = Append(lines[DateOf[r]], r) /\ lines[DateOf[r]] \in Seq(Lines)
    BY <1>1, <2>2, <2>3 DEF Typed
  <2>5. Len(lines'[DateOf[r]]) \in Nat \ {0} /\ lines'[DateOf[r]][Len(lines'[DateOf[r]])] = r
    BY <1>1, <2>4, AppendLine
  <2> QED BY <2>5 DEF OnDisk, Within
<1>15. CASE Crash(p)
  <2>1. known' = [k \in Procs |-> IF k \in {p} THEN {} ELSE known[k]]
    BY <1>15 DEF Crash, Forget
  <2> QED BY <2>1
<1>16. CASE FinishSettling(p) \/ Reject(p) \/ Resync(p) \/ Create(p) \/ Prepare(p) \/ Sync(p)
            \/ Link(p) \/ Publish(p) \/ Open(p) \/ Request(p)
  BY <1>2, <1>16 DEF FinishSettling, Reject, Resync, Create, Prepare, Sync, Link, Publish,
                     Open, Request, index
<1> QED BY <1>7, <1>8, <1>9, <1>12, <1>13, <1>14, <1>15, <1>16 DEF Step

\* A step of one process does not disturb what the others are doing, and only
\* opening the store or dying lets another one be in the middle of an append.
LEMMA OthersFrame ==
  ASSUME Typed, LockHeld, NEW p \in Procs,
         Step(p) \/ Recover(p) \/ Open(p) \/ Inventory(p) \/ Request(p) \/ Crash(p),
         NEW q \in Procs, pc'[q] \notin {"down", "idle"}
  PROVE  /\ q = p => Step(p) \/ Request(p)
         /\ q # p => /\ ~ (Step(p) \/ Recover(p) \/ Inventory(p) \/ Request(p))
                     /\ pc'[q] = pc[q] /\ op'[q] = op[q] /\ created'[q] = created[q]
                     /\ known'[q] = known[q]
<1> USE ConstantsAssumption
<1>1. ASSUME Step(p) PROVE q = p
  <2>1. Busy(p) /\ \E s \in Control : Goto(p, s)
    BY <1>1, StepControl DEF Release, Control
  <2>2. \A k \in Procs \ {p} : pc[k] \in {"down", "idle"}
    BY <2>1 DEF LockHeld, Busy
  <2> QED BY <2>1, <2>2 DEF Goto, Typed
<1>2. ASSUME Recover(p) PROVE FALSE
  BY <1>2 DEF Recover, Goto, Typed
<1>3. ASSUME Inventory(p) PROVE FALSE
  BY <1>3 DEF Inventory, LockHeld, Busy
<1>4. ASSUME Request(p) PROVE q = p
  BY <1>4 DEF Request, Goto, LockHeld, Busy, Typed
<1>5. CASE Open(p)
  <2>1. pc[p] = "down" /\ pc' = [pc EXCEPT ![p] = "idle"] /\ UNCHANGED <<op, created, known>>
    BY <1>5 DEF Open, At, Goto, index
  <2>2. q # p /\ pc'[q] = pc[q] /\ op'[q] = op[q] /\ created'[q] = created[q] /\ known'[q] = known[q]
    BY <2>1 DEF Typed
  <2> QED BY <1>1, <1>2, <1>3, <1>4, <2>2
<1>6. CASE Crash(p)
  <2>1. q # p /\ pc'[q] = pc[q] /\ op'[q] = op[q] /\ created'[q] = created[q] /\ known'[q] = known[q]
    BY <1>6 DEF Crash, Forget, Typed
  <2> QED BY <1>1, <1>2, <1>3, <1>4, <2>1
<1> QED BY <1>1, <1>2, <1>3, <1>4, <1>5, <1>6

LEMMA ProgressStep ==
  ASSUME Typed, Typed', LockHeld, Filed, KnownOnDisk, AppendProgress, Keeps, NEW p \in Procs,
         Step(p) \/ Recover(p) \/ Open(p) \/ Inventory(p) \/ Request(p) \/ Crash(p)
  PROVE  AppendProgress'
<1> USE ConstantsAssumption
<1> DEFINE Progress(q) ==
      /\ pc[q] \in {"mark", "write", "sync", "link", "publish"} => DateOf[op[q]] \in exists
      /\ pc[q] \in {"sync", "link", "publish"} => op[q] \in known[q]
      /\ pc[q] \in {"link", "publish"} => Synced(op[q])
<1> SUFFICES ASSUME NEW q \in Procs, pc'[q] \in {"mark", "write", "sync", "link", "publish"}
             PROVE  Progress(q)'
  BY DEF AppendProgress
<1>1. exists \subseteq exists' /\ \A r \in Records : Synced(r) => Synced(r)'
  BY KeepsWithin DEF Keeps
<1>2. CASE q # p
  <2>1. pc'[q] = pc[q] /\ op'[q] = op[q] /\ known'[q] = known[q]
    BY <1>2, OthersFrame
  <2>2. PICK r \in Records : r = op[q] /\ r = op'[q]
    BY <2>1 DEF LockHeld, Busy
  <2>3. Progress(q)
    BY DEF AppendProgress
  <2> QED BY <1>1, <2>1, <2>2, <2>3
<1>3. CASE q = p
  <2>1. CASE Request(p)
    BY <1>3, <2>1 DEF Request, Goto, Typed
  <2>2. CASE Step(p) /\ Release(p)
    BY <1>3, <2>2 DEF Release, Goto, Typed
  <2>3. CASE Step(p) /\ op' = op
    <3>1. PICK r \in Records : r = op[p] /\ r = op'[p]
      BY <2>3, StepControl DEF LockHeld
    <3>2. \/ pc'[p] = "mark" /\ Create(p)
          \/ pc'[p] = "write" /\ Prepare(p)
          \/ pc'[p] = "sync" /\ Write(p)
          \/ pc'[p] \in {"link", "publish"} /\ Sync(p)
          \/ pc'[p] = "publish" /\ Link(p)
      <4>1. ASSUME NEW s, Goto(p, s) PROVE pc'[p] = s
        BY <4>1 DEF Goto, Typed
      <4>2. CASE IntegrateManifest(p) \/ Rescan(p) \/ SettlePending(p) \/ FinishSettling(p)
                 \/ RefreshTarget(p) \/ RescanFails(p) \/ Reject(p) \/ Resync(p) \/ Publish(p)
        BY <1>3, <4>1, <4>2 DEF IntegrateManifest, Rescan, SettlePending, FinishSettling, RefreshTarget,
             RescanFails, Reject, Resync, Publish, Release
      <4>3. Create(p) => pc'[p] = "mark"
        BY <4>1 DEF Create
      <4>4. Prepare(p) => pc'[p] = "write"
        BY <1>3, <4>1 DEF Prepare, Release
      <4>5. Write(p) => pc'[p] = "sync"
        BY <1>3, <4>1 DEF Write, Release
      <4>6. Sync(p) => pc'[p] \in {"link", "publish"}
        BY <1>3, <4>1 DEF Sync, Release
      <4>7. Link(p) => pc'[p] = "publish"
        BY <1>3, <4>1 DEF Link, Release
      <4> QED BY <2>3, <4>2, <4>3, <4>4, <4>5, <4>6, <4>7 DEF Step
    <3>3. CASE pc'[p] = "write" /\ Prepare(p)
      BY <1>3, <3>3, <3>1 DEF Prepare, At, AppendProgress
    <3>7. CASE pc'[p] = "mark" /\ Create(p)
      BY <1>3, <3>7, <3>1 DEF Create
    <3>4. CASE pc'[p] = "sync" /\ Write(p)
      <4>1. DateOf[r] \in exists /\ UNCHANGED exists
        BY <3>4, <3>1 DEF Write, At, AppendProgress
      <4>2. known' = [known EXCEPT ![p] = @ \cup {op[p]}]
        BY <3>4 DEF Write, Release, Goto, Typed
      <4> QED BY <1>3, <3>1, <3>4, <4>1, <4>2 DEF Typed
    <3>5. CASE pc'[p] \in {"link", "publish"} /\ Sync(p)
      <4>1. DateOf[r] \in exists /\ r \in known[p] /\ UNCHANGED <<exists, known, lines>>
        BY <3>5, <3>1 DEF Sync, At, AppendProgress, index
      <4>2. stable' = [stable EXCEPT ![DateOf[r]] = Len(lines[DateOf[r]])]
        BY <3>5, <3>1 DEF Sync, SyncShard, Release, Goto, Typed
      <4>3. OnDisk(r)
        BY <4>1 DEF KnownOnDisk
      <4>4. Synced(r)'
        BY <4>1, <4>2, <4>3 DEF OnDisk, Synced, Within, Typed
      <4> QED BY <1>3, <3>1, <4>1, <4>4
    <3>6. CASE pc'[p] = "publish" /\ Link(p)
      <4>1. DateOf[r] \in exists /\ r \in known[p] /\ Synced(r) /\ UNCHANGED <<exists, known>>
        BY <3>6, <3>1 DEF Link, At, AppendProgress, index
      <4> QED BY <1>1, <1>3, <3>1, <4>1
    <3> QED BY <3>2, <3>3, <3>4, <3>5, <3>6, <3>7
  <2> QED BY <1>3, <2>1, <2>2, <2>3, OthersFrame, StepControl
<1> QED BY <1>2, <1>3

\* The shards in the middle of being created are those that a crash makes orphans.
LEMMA UnmarkedCreating ==
  \A P \in SUBSET Procs : \A d :
    d \in Unmarked(P) <=> \E p \in P : Creating(p) /\ DateOf[op[p]] = d
  BY DEF Unmarked, Creating, At

\* Settling the marker after a scan leaves no shard unlinked but orphans.
LEMMA ScanLinks ==
  ASSUME Typed, MarkerNamesUnlinked, NEW ln, NEW cut, ScanSettles(ln, cut), UNCHANGED exists,
         \A p \in Procs : pc[p] # "mark"
  PROVE  /\ linked \cup orphans \subseteq linked' \cup orphans'
         /\ exists' = linked' \cup orphans' /\ pending' = NoMarker
<1> USE ConstantsAssumption
<1>1. CASE pending # NoMarker \/ cut # {}
  BY <1>1 DEF ScanSettles, SyncDirectory, MarkerNamesUnlinked
<1>2. CASE pending = NoMarker /\ cut = {}
  <2>1. exists \subseteq linked \cup orphans
    BY <1>2 DEF MarkerNamesUnlinked, Creating, NoMarker, Typed
  <2>2. linked' = linked /\ orphans' = orphans /\ pending' = NoMarker
    BY <1>2 DEF ScanSettles
  <2> QED BY <2>1, <2>2 DEF MarkerNamesUnlinked
<1> QED BY <1>1, <1>2

\* Only one operation is under way, and none while a scan that leads none.
LEMMA OneOperation ==
  ASSUME LockHeld, NEW p \in Procs, Step(p) \/ Recover(p) \/ Inventory(p) \/ Request(p)
  PROVE  \A q \in Procs : q # p => ~ Busy(q)
<1> USE ConstantsAssumption
<1>1. CASE Step(p)
  BY <1>1, StepControl DEF LockHeld
<1>2. CASE Recover(p)
  BY <1>2 DEF Recover, Busy
<1>3. CASE Inventory(p) \/ Request(p)
  BY <1>3 DEF Inventory, Request, LockHeld
<1> QED BY <1>1, <1>2, <1>3

LEMMA LinkedGrows ==
  ASSUME Typed, LockHeld, AppendProgress, MarkerNamesUnlinked, NEW p \in Procs,
         Step(p) \/ Recover(p) \/ Open(p) \/ Inventory(p) \/ Request(p) \/ Crash(p)
  PROVE  /\ linked \cup orphans \subseteq linked' \cup orphans'
         /\ linked' \subseteq exists' /\ orphans' \subseteq exists'
<1> USE DEF MarkerNamesUnlinked
<1>1. CASE Recover(p) \/ Inventory(p) \/ Rescan(p)
  <2>1. UNCHANGED exists /\ \E ln, cut : ScanSettles(ln, cut)
    BY <1>1 DEF Recover, Inventory, Rescan, ScanAll
  <2>2. pc[p] # "mark"
    BY <1>1 DEF Recover, Inventory, Rescan, At
  <2>3. \A q \in Procs : pc[q] # "mark"
    BY <1>1, <2>2, OneOperation DEF Step, Busy
  <2> QED BY <2>1, <2>3, ScanLinks
<1>2. CASE IntegrateManifest(p) \/ RescanFails(p) \/ SettlePending(p) \/ RefreshTarget(p)
           \/ Reject(p) \/ Publish(p) \/ Open(p) \/ Request(p)
  BY <1>2 DEF IntegrateManifest, RescanFails, SettlePending, RefreshTarget, Reject, Publish,
              Open, Request, disk
<1>3. CASE FinishSettling(p) \/ Resync(p) \/ Create(p) \/ Write(p) \/ Sync(p) \/ Link(p)
  BY <1>3 DEF FinishSettling, Resync, Create, Write, Sync, Link, SyncDirectory
<1>4. CASE Prepare(p) \/ Crash(p)
  <2>1. /\ UNCHANGED <<linked, exists>>
        /\ orphans' = orphans \/ orphans' = orphans \cup Unmarked({p})
    BY <1>4 DEF Prepare, Crash
  <2>2. Unmarked({p}) \subseteq exists
    BY UnmarkedCreating DEF Creating, AppendProgress
  <2> QED BY <2>1, <2>2
<1> QED BY <1>1, <1>2, <1>3, <1>4 DEF Step

LEMMA MarkerStep ==
  ASSUME Typed, Typed', LockHeld, AppendProgress, MarkerNamesUnlinked, NEW p \in Procs,
         Step(p) \/ Recover(p) \/ Open(p) \/ Inventory(p) \/ Request(p) \/ Crash(p)
  PROVE  MarkerNamesUnlinked'
<1> USE ConstantsAssumption
<1> DEFINE Anchored == linked \cup orphans
           Unlinked ==
             \A d \in exists \ linked :
               \/ d \in orphans \/ pending.shard = d
               \/ \E q \in Procs : Creating(q) /\ DateOf[op[q]] = d
           Settled(q) ==
             /\ pc[q] \in {"target", "choose", "mark"} => pending = NoMarker
             /\ pc[q] \in {"write", "sync", "link", "publish"} => pending.shard = DateOf[op[q]]
             /\ Creating(q) => DateOf[op[q]] \notin Anchored
             /\ pc[q] \in {"mark", "write", "sync"} => created[q] \/ DateOf[op[q]] \in Anchored
             /\ pc[q] = "publish" => DateOf[op[q]] \in Anchored
           Quiet(q) == pc'[q] \in {"down", "idle", "refresh", "pending", "settle"}
<1>1. Anchored \subseteq Anchored' /\ linked' \subseteq exists' /\ orphans' \subseteq exists'
  BY LinkedGrows
<1>2. Unlinked /\ \A q \in Procs : Settled(q)
  BY DEF MarkerNamesUnlinked
<1> SUFFICES Unlinked' /\ \A q \in Procs : Settled(q)'
  BY <1>1 DEF MarkerNamesUnlinked
<1>3. ASSUME NEW q \in Procs, Quiet(q) PROVE Settled(q)'
  BY <1>3 DEF Creating
<1>4. ASSUME NEW s, Goto(p, s) PROVE pc'[p] = s
  BY <1>4 DEF Goto, Typed
<1>5. ASSUME Release(p) PROVE Quiet(p)
  BY <1>4, <1>5 DEF Release
<1>6. ASSUME Step(p) \/ Recover(p) \/ Inventory(p) \/ Request(p), NEW q \in Procs, q # p
      PROVE  Quiet(q)
  BY <1>6, OthersFrame
<1>17. ASSUME Step(p) \/ Recover(p) \/ Inventory(p) \/ Request(p), pc[p] # "mark"
       PROVE  \A q \in Procs : ~ Creating(q)
  BY <1>17, OneOperation DEF Busy, Creating
<1>18. ASSUME Step(p) \/ Request(p), pc[p] # "mark", UNCHANGED <<exists, pending>>
       PROVE  Unlinked'
  BY <1>1, <1>2, <1>17, <1>18
<1>7. CASE Recover(p) \/ Inventory(p) \/ Rescan(p)
  <2>1. UNCHANGED exists /\ \E ln, cut : ScanSettles(ln, cut)
    BY <1>7 DEF Recover, Inventory, Rescan, ScanAll
  <2>4. pc[p] # "mark"
    BY <1>7 DEF Recover, Inventory, Rescan, At
  <2>5. \A q \in Procs : pc[q] # "mark"
    BY <1>7, <2>4, OneOperation DEF Step, Busy
  <2>2. Unlinked'
    BY <2>1, <2>5, ScanLinks
  <2>3. Quiet(p)
    BY <1>4, <1>7 DEF Recover, Inventory, Rescan, At
  <2> QED BY <1>3, <1>6, <1>7, <2>2, <2>3 DEF Step
<1>8. CASE Open(p)
  <2>1. UNCHANGED <<exists, linked, orphans, pending, op, created>> /\ Quiet(p) /\ pc[p] # "mark"
    BY <1>4, <1>8 DEF Open, At, disk
  <2>2. ASSUME NEW q \in Procs, q # p PROVE pc'[q] = pc[q]
    BY <1>8, <2>2 DEF Open, Goto, Typed
  <2>3. ASSUME NEW q \in Procs, q # p PROVE Settled(q)'
    BY <1>2, <2>1, <2>2, <2>3 DEF Creating
  <2>4. Unlinked'
    BY <1>2, <2>1, <2>2 DEF Creating
  <2> QED BY <1>3, <2>1, <2>3, <2>4
<1>19. CASE Crash(p)
  <2>1. UNCHANGED <<exists, linked, pending>> /\ Quiet(p) /\ orphans' = orphans \cup Unmarked({p})
    BY <1>19 DEF Crash, Forget
  <2>2. ASSUME NEW q \in Procs, q # p
        PROVE  pc'[q] = pc[q] /\ op'[q] = op[q] /\ created'[q] = created[q]
    BY <1>19, <2>2 DEF Crash, Forget, Typed
  <2>3. Unlinked'
    <3> SUFFICES ASSUME NEW d \in exists \ linked
                 PROVE  \/ d \in orphans' \/ pending.shard = d
                        \/ \E q \in Procs : Creating(q)' /\ DateOf[op'[q]] = d
      BY <2>1
    <3>1. CASE \E q \in Procs : Creating(q) /\ DateOf[op[q]] = d
      <4>1. PICK q \in Procs : Creating(q) /\ DateOf[op[q]] = d
        BY <3>1
      <4>2. CASE q = p
        BY <2>1, <4>1, <4>2, UnmarkedCreating
      <4>3. CASE q # p
        BY <2>2, <4>1, <4>3 DEF Creating
      <4> QED BY <4>2, <4>3
    <3> QED BY <1>2, <2>1, <3>1
  <2>4. ASSUME NEW q \in Procs, q # p, Busy(q) PROVE ~ Busy(p)
    BY <2>4 DEF LockHeld
  <2>5. ASSUME NEW q \in Procs, q # p PROVE Settled(q)'
    <3>1. CASE Busy(q)
      <4>1. Unmarked({p}) = {}
        BY <2>4, <2>5, <3>1, UnmarkedCreating DEF Busy, Creating
      <4>2. UNCHANGED <<linked, orphans, pending>>
        BY <2>1, <4>1
      <4>3. pc'[q] = pc[q] /\ op'[q] = op[q] /\ created'[q] = created[q]
        BY <2>2, <2>5
      <4>4. Settled(q) /\ (Creating(q)' <=> Creating(q))
        BY <1>2, <4>3 DEF Creating
      <4> QED BY <4>2, <4>3, <4>4
    <3>2. CASE ~ Busy(q)
      BY <1>3, <2>2, <2>5, <3>2 DEF Busy
    <3> QED BY <3>1, <3>2
  <2> QED BY <1>3, <2>1, <2>3, <2>5
<1>9. CASE IntegrateManifest(p) \/ RescanFails(p) \/ Reject(p) \/ Resync(p) \/ Request(p)
  <2>1. UNCHANGED <<exists, pending>> /\ Quiet(p) /\ pc[p] # "mark"
    BY <1>4, <1>5, <1>9 DEF IntegrateManifest, RescanFails, Reject, Resync, Request, disk, At
  <2>2. Unlinked'
    BY <1>9, <1>18, <2>1 DEF Step
  <2> QED BY <1>3, <1>6, <1>9, <2>1, <2>2 DEF Step
<1>10. CASE SettlePending(p)
  <2>1. /\ UNCHANGED <<exists, linked, pending>> /\ pc[p] # "mark"
        /\ Quiet(p) \/ (pc'[p] = "target" /\ pending = NoMarker)
    BY <1>4, <1>5, <1>10 DEF SettlePending, disk, At
  <2>2. Settled(p)'
    BY <2>1 DEF Creating
  <2> QED BY <1>3, <1>6, <1>10, <1>18, <2>1, <2>2 DEF Step
<1>11. CASE FinishSettling(p)
  <2>1. UNCHANGED exists /\ pc[p] # "mark"
    BY <1>11 DEF FinishSettling, At
  <2>2. CASE linked' = exists /\ pending' = NoMarker /\ pc'[p] = "target"
    <3>1. Settled(p)'
      BY <2>2 DEF Creating
    <3> QED BY <1>3, <1>6, <1>11, <2>1, <2>2, <3>1 DEF Step
  <2>3. CASE UNCHANGED <<linked, pending>> /\ Quiet(p)
    BY <1>3, <1>6, <1>11, <1>18, <2>1, <2>3 DEF Step
  <2> QED BY <1>4, <1>5, <1>11, <2>2, <2>3 DEF FinishSettling, SyncDirectory
<1>12. CASE RefreshTarget(p)
  <2>1. UNCHANGED <<exists, linked, pending>> /\ (Quiet(p) \/ pc'[p] = "choose") /\ pc[p] = "target"
    BY <1>4, <1>5, <1>12 DEF RefreshTarget, disk, At
  <2>2. Settled(p)'
    BY <1>2, <2>1 DEF Creating
  <2> QED BY <1>3, <1>6, <1>12, <1>18, <2>1, <2>2 DEF Step
<1>13. CASE Create(p)
  <2> DEFINE d == DateOf[op[p]]
  <2>1. /\ pending = NoMarker /\ exists' = exists \cup {d} /\ UNCHANGED <<linked, orphans, pending, op>>
        /\ pc[p] = "choose"
    BY <1>2, <1>13 DEF Create, At
  <2>2. pc'[p] = "mark" /\ created'[p] = (d \notin exists)
    BY <1>4, <1>13 DEF Create, Typed
  <2>3. exists \subseteq Anchored
    <3>1. \A q \in Procs : ~ Creating(q)
      BY <1>13, <1>17, <2>1 DEF Step
    <3>2. pending.shard \notin exists
      BY <2>1 DEF NoMarker, Typed
    <3> QED BY <1>2, <3>1, <3>2
  <2>4. Anchored \subseteq exists
    BY DEF MarkerNamesUnlinked
  <2>5. Unlinked'
    <3> SUFFICES ASSUME NEW e \in exists' \ linked', e \notin orphans' PROVE Creating(p)' /\ DateOf[op'[p]] = e
      OBVIOUS
    <3>1. e \notin exists
      BY <2>1, <2>3
    <3> QED BY <2>1, <2>2, <3>1 DEF Creating
  <2>6. Settled(p)'
    BY <2>1, <2>2, <2>3, <2>4 DEF Creating
  <2> QED BY <1>3, <1>6, <1>13, <2>5, <2>6 DEF Step
<1>20. CASE Prepare(p)
  <2> DEFINE d == DateOf[op[p]]
  <2>1. pc[p] = "mark" /\ pending = NoMarker /\ UNCHANGED <<exists, linked>>
    BY <1>2, <1>20 DEF Prepare, At
  <2>2. \A q \in Procs : Creating(q) => q = p
    BY <1>20, OneOperation DEF Step, Creating, Busy
  <2>3. \A e \in exists \ linked : e \in orphans \/ (e = d /\ Creating(p))
    <3>1. pending.shard \notin exists
      BY <2>1 DEF NoMarker, Typed
    <3> QED BY <1>2, <2>2, <3>1
  <2>4. CASE pending'.shard = d /\ pc'[p] = "write" /\ UNCHANGED <<orphans, op, created>>
    <3>1. Unlinked'
      BY <2>1, <2>3, <2>4
    <3>2. Settled(p)'
      BY <1>2, <2>1, <2>4 DEF Creating
    <3> QED BY <1>3, <1>6, <1>20, <3>1, <3>2 DEF Step
  <2>5. CASE orphans' = orphans \cup Unmarked({p}) /\ Quiet(p)
    <3>1. Creating(p) => d \in Unmarked({p})
      BY UnmarkedCreating
    <3>2. Unlinked'
      BY <2>1, <2>3, <2>5, <3>1
    <3> QED BY <1>3, <1>6, <1>20, <2>5, <3>2 DEF Step
  <2>6. \/ pending'.shard = d /\ pc'[p] = "write" /\ UNCHANGED <<orphans, op, created>>
        \/ orphans' = orphans \cup Unmarked({p}) /\ Quiet(p)
    <3>1. CASE /\ pending' = [shard |-> d, prior |-> Len(lines[d])]
               /\ Goto(p, "write") /\ UNCHANGED orphans /\ Continue
      <4>1. pending'.shard = d
        BY <3>1
      <4>2. pc'[p] = "write"
        BY <1>4, <3>1
      <4> QED BY <3>1, <4>1, <4>2 DEF Continue
    <3>2. CASE orphans' = orphans \cup Unmarked({p}) /\ Release(p)
      BY <1>5, <3>2
    <3> QED BY <1>20, <3>1, <3>2 DEF Prepare
  <2> QED BY <2>4, <2>5, <2>6
<1>14. CASE Write(p) \/ Sync(p)
  <2>1. /\ UNCHANGED <<exists, linked, orphans, pending>> /\ pc[p] # "mark"
        /\ \/ Quiet(p)
           \/ /\ UNCHANGED <<op, created>>
              /\ \/ pc[p] = "write" /\ pc'[p] = "sync"
                 \/ pc[p] = "sync" /\ pc'[p] = IF created[p] THEN "link" ELSE "publish"
    BY <1>4, <1>5, <1>14 DEF Write, Sync, At, Continue
  <2>2. Settled(p)'
    BY <1>2, <2>1 DEF Creating
  <2> QED BY <1>3, <1>6, <1>14, <1>18, <2>1, <2>2 DEF Step
<1>15. CASE Link(p)
  <2>1. UNCHANGED <<exists, pending>> /\ pc[p] = "link"
    BY <1>15 DEF Link, At
  <2>2. CASE linked' = exists /\ pc'[p] = "publish" /\ op' = op
    <3>1. DateOf[op[p]] \in exists
      BY <2>1 DEF AppendProgress
    <3>2. Settled(p)'
      BY <1>2, <2>1, <2>2, <3>1 DEF Creating
    <3> QED BY <1>3, <1>6, <1>15, <2>1, <2>2, <3>2 DEF Step
  <2>3. CASE linked' = linked /\ Quiet(p)
    BY <1>3, <1>6, <1>15, <1>18, <2>1, <2>3 DEF Step
  <2> QED BY <1>4, <1>5, <1>15, <2>2, <2>3 DEF Link, SyncDirectory, Continue
<1>16. CASE Publish(p)
  <2>1. UNCHANGED <<exists, linked, orphans>> /\ Quiet(p) /\ pc[p] = "publish" /\ pending' \in {NoMarker, pending}
    BY <1>5, <1>16 DEF Publish, At, disk
  <2>2. pending.shard = DateOf[op[p]] /\ DateOf[op[p]] \in Anchored
    BY <1>2, <2>1
  <2>3. exists \subseteq Anchored
    <3>1. \A q \in Procs : ~ Creating(q)
      BY <1>16, <1>17, <2>1 DEF Step
    <3> QED BY <1>2, <2>2, <3>1
  <2>4. Unlinked'
    BY <2>1, <2>3
  <2> QED BY <1>3, <1>6, <1>16, <2>1, <2>4 DEF Step
<1> QED BY <1>7, <1>8, <1>9, <1>10, <1>11, <1>12, <1>13, <1>14, <1>15, <1>16, <1>19, <1>20 DEF Step

LEMMA AckedStep ==
  ASSUME Typed, Typed', LockHeld, Filed, KnownOnDisk, AppendProgress, MarkerNamesUnlinked,
         AckedSynced, AckedLinked, Keeps, NEW p \in Procs,
         Step(p) \/ Recover(p) \/ Open(p) \/ Inventory(p) \/ Request(p) \/ Crash(p)
  PROVE  AckedSynced' /\ AckedLinked'
<1> USE ConstantsAssumption
<1> DEFINE Anchored == linked \cup orphans
<1>1. \A r \in Kept : Synced(r) /\ DateOf[r] \in Anchored
  BY DEF AckedSynced, AckedLinked, Synced, Within
<1>2. \A r \in Records : (Synced(r) => Synced(r)') /\ (DateOf[r] \in Anchored => DateOf[r] \in Anchored')
  BY KeepsWithin, LinkedGrows
<1>3. \A r \in Kept' \ Kept : Synced(r)' /\ DateOf[r] \in Anchored'
  <2> SUFFICES ASSUME NEW r \in Kept' \ Kept PROVE Synced(r)' /\ DateOf[r] \in Anchored'
    OBVIOUS
  <2>1. r \in Records
    BY DEF Typed, Kept
  <2>2. CASE Publish(p)
    <3>1. r = op[p] /\ pc[p] = "publish"
      BY <2>2 DEF Publish, At, Kept
    <3>2. Synced(r) /\ DateOf[r] \in Anchored
      BY <3>1 DEF AppendProgress, MarkerNamesUnlinked
    <3> QED BY <1>2, <2>1, <3>2
  <2>3. CASE Resync(p)
    <3>1. /\ r = op[p] /\ r \in known[p] /\ UNCHANGED <<lines, exists>>
          /\ stable' = [stable EXCEPT ![DateOf[r]] = Len(lines[DateOf[r]])] /\ linked' = exists
      BY <2>3 DEF Resync, SyncShard, SyncDirectory, Kept
    <3>2. OnDisk(r)
      BY <3>1 DEF KnownOnDisk
    <3>3. Synced(r)'
      BY <2>1, <3>1, <3>2 DEF OnDisk, Synced, Within, Typed
    <3>4. lines[DateOf[r]] # <<>>
      BY <2>1, <3>2 DEF OnDisk, Within, Typed
    <3> QED BY <2>1, <3>1, <3>3, <3>4 DEF Filed
  <2>4. ~ Publish(p) /\ ~ Resync(p) => UNCHANGED <<acked, lost>>
    BY DEF Step, IntegrateManifest, Rescan, RescanFails, SettlePending, FinishSettling, RefreshTarget,
           Reject, Create, Prepare, Write, Sync, Link, Recover, Open, Inventory, Request, Crash
  <2> QED BY <2>2, <2>3, <2>4 DEF Kept
<1>4. \A r \in Kept' : Synced(r)' /\ DateOf[r] \in Anchored'
  <2> SUFFICES ASSUME NEW r \in Kept' PROVE Synced(r)' /\ DateOf[r] \in Anchored'
    OBVIOUS
  <2>1. CASE r \in Kept
    <3>1. r \in Records
      BY <2>1 DEF Typed, Kept
    <3> QED BY <1>1, <1>2, <2>1, <3>1
  <2> QED BY <1>3, <2>1
<1> QED BY <1>4 DEF AckedSynced, AckedLinked, Synced, Within

\* A power loss leaves every record under its date and no index in memory.
LEMMA PowerLossFiled ==
  ASSUME Typed, Typed', Filed, PowerLoss
  PROVE  Filed' /\ KnownOnDisk' /\ AppendProgress'
<1> USE ConstantsAssumption
<1>1. ASSUME NEW d \in Dates
      PROVE  \/ d \in exists \ linked /\ d \notin exists' /\ lines'[d] = <<>> /\ stable'[d] = 0
             \/ /\ d \in exists <=> d \in exists'
                /\ stable'[d] = stable[d]
                /\ Len(lines'[d]) >= stable[d]
                /\ lines[d] = <<>> => lines'[d] = <<>>
                /\ \A i \in 1 .. Len(lines'[d]) :
                     \/ i <= Len(lines[d]) /\ lines'[d][i] = lines[d][i]
                     \/ i > stable[d] /\ lines'[d][i] = Fragment
  BY PowerLossLines DEF Filed
<1>2. Filed'
  <2> SUFFICES ASSUME NEW d \in Dates
               PROVE  /\ lines'[d] # <<>> => d \in exists'
                      /\ stable'[d] <= Len(lines'[d])
                      /\ \A i \in 1 .. Len(lines'[d]) : lines'[d][i] # Fragment => DateOf[lines'[d][i]] = d
    BY DEF Filed
  <2>1. /\ lines[d] # <<>> => d \in exists
        /\ stable[d] \in Nat
        /\ \A i \in 1 .. Len(lines[d]) : lines[d][i] # Fragment => DateOf[lines[d][i]] = d
    BY DEF Filed, Typed
  <2>2. lines[d] \in Seq(Lines) /\ lines'[d] \in Seq(Lines)
    BY DEF Typed
  <2>3. CASE lines'[d] = <<>> /\ stable'[d] = 0
    BY <2>3
  <2>4. CASE ~ (lines'[d] = <<>> /\ stable'[d] = 0)
    <3>1. /\ d \in exists <=> d \in exists'
          /\ stable'[d] = stable[d] /\ Len(lines'[d]) >= stable[d]
          /\ \A i \in 1 .. Len(lines'[d]) :
               \/ i <= Len(lines[d]) /\ lines'[d][i] = lines[d][i]
               \/ lines'[d][i] = Fragment
      BY <1>1, <2>4
    <3>2. \A i \in 1 .. Len(lines'[d]) : lines'[d][i] # Fragment => DateOf[lines'[d][i]] = d
      <4> SUFFICES ASSUME NEW i \in 1 .. Len(lines'[d]), lines'[d][i] # Fragment
                   PROVE  DateOf[lines'[d][i]] = d
        OBVIOUS
      <4>1. i <= Len(lines[d]) /\ lines'[d][i] = lines[d][i]
        BY <3>1
      <4>2. i \in 1 .. Len(lines[d])
        BY <2>2, <4>1
      <4> QED BY <2>1, <4>1, <4>2
    <3>3. stable'[d] <= Len(lines'[d])
      BY <2>1, <2>2, <3>1
    <3>4. lines'[d] # <<>> => d \in exists'
      BY <1>1, <2>1, <2>4
    <3> QED BY <3>2, <3>3, <3>4
  <2> QED BY <2>3, <2>4
<1>3. pc' = [p \in Procs |-> "down"] /\ known' = [p \in Procs |-> {}]
  <2>1. Forget(Procs)
    BY DEF PowerLoss
  <2> QED BY <2>1 DEF Forget
<1> QED BY <1>2, <1>3 DEF KnownOnDisk, AppendProgress

\* A power loss takes no synced line of a shard that is linked, and of an orphan only
\* with the whole shard.
LEMMA PowerLossStep == SyncedInv /\ PowerLoss => SyncedInv'
<1> SUFFICES ASSUME SyncedInv, PowerLoss PROVE SyncedInv'
  OBVIOUS
<1> USE ConstantsAssumption
<1>1. Typed' /\ LockHeld'
  BY TypeStep, LockStep DEF SyncedInv, Next
<1>2. UNCHANGED <<pending, acked>> /\ pc' = [p \in Procs |-> "down"]
  <2>1. Forget(Procs)
    BY DEF PowerLoss
  <2> QED BY <2>1 DEF PowerLoss, Forget
<1>3. Filed' /\ KnownOnDisk' /\ AppendProgress'
  BY <1>1, PowerLossFiled DEF SyncedInv
<1>7. PICK gone \in SUBSET (exists \ linked) :
        /\ exists' = exists \ gone /\ linked' = linked
        /\ orphans' = (orphans \cup Unmarked(Procs)) \ gone
        /\ lost' = lost \cup {r \in acked : DateOf[r] \in gone \cap orphans}
  BY DEF PowerLoss
<1>8. \A r \in Kept' : r \in Kept /\ DateOf[r] \in linked \cup orphans /\ DateOf[r] \notin gone
  BY <1>2, <1>7 DEF Kept, SyncedInv, AckedLinked
<1>4. MarkerNamesUnlinked'
  <2>1. \A d : d \in Unmarked(Procs) <=> \E p \in Procs : Creating(p) /\ DateOf[op[p]] = d
    BY UnmarkedCreating
  <2>2. linked' \subseteq exists' /\ orphans' \subseteq exists'
    BY <1>7, <2>1 DEF SyncedInv, MarkerNamesUnlinked, AppendProgress, Creating
  <2>3. ASSUME NEW d \in exists' \ linked' PROVE d \in orphans' \/ pending'.shard = d
    BY <1>2, <1>7, <2>1, <2>3 DEF SyncedInv, MarkerNamesUnlinked
  <2> QED BY <1>2, <2>2, <2>3 DEF MarkerNamesUnlinked, Creating
<1>5. AckedLinked'
  BY <1>7, <1>8 DEF AckedLinked
<1>6. AckedSynced'
  <2> SUFFICES ASSUME NEW r \in Kept'
               PROVE  \E i \in 1 .. stable'[DateOf[r]] :
                        i <= Len(lines'[DateOf[r]]) /\ lines'[DateOf[r]][i] = r
    BY DEF AckedSynced
  <2> DEFINE d == DateOf[r]
  <2>1. d \in Dates /\ d \in exists'
    BY <1>7, <1>8 DEF SyncedInv, Typed, MarkerNamesUnlinked
  <2>2. PICK i \in 1 .. stable[d] : i <= Len(lines[d]) /\ lines[d][i] = r
    BY <1>8 DEF SyncedInv, AckedSynced
  <2>3. lines'[d] \in Seq(Lines) /\ stable[d] \in Nat
    BY <1>1, <2>1 DEF SyncedInv, Typed
  <2>4. /\ stable'[d] = stable[d] /\ Len(lines'[d]) >= stable[d]
        /\ \A j \in 1 .. Len(lines'[d]) :
             lines'[d][j] = lines[d][j] \/ j > stable[d]
    BY <2>1, PowerLossLines DEF SyncedInv, Filed
  <2>5. i <= Len(lines'[d]) /\ lines'[d][i] = r
    BY <2>2, <2>3, <2>4
  <2> QED BY <2>2, <2>4, <2>5
<1> QED BY <1>1, <1>3, <1>4, <1>5, <1>6 DEF SyncedInv

LEMMA SyncedInit == Init => SyncedInv
<1> SUFFICES ASSUME Init PROVE SyncedInv
  OBVIOUS
<1>1. Typed /\ LockHeld
  BY TypeInit
<1>2. Filed /\ KnownOnDisk /\ AppendProgress /\ MarkerNamesUnlinked /\ AckedSynced /\ AckedLinked
  BY DEF Init, Filed, KnownOnDisk, AppendProgress, MarkerNamesUnlinked, Creating, Kept,
         AckedSynced, AckedLinked
<1> QED BY <1>1, <1>2 DEF SyncedInv

LEMMA SyncedStep == SyncedInv /\ [Next]_vars => SyncedInv'
<1> SUFFICES ASSUME SyncedInv, [Next]_vars PROVE SyncedInv'
  OBVIOUS
<1>1. Typed' /\ LockHeld'
  BY TypeStep, LockStep DEF SyncedInv
<1>2. ASSUME NEW p \in Procs,
             Step(p) \/ Recover(p) \/ Open(p) \/ Inventory(p) \/ Request(p) \/ Crash(p)
      PROVE  SyncedInv'
  <2> USE <1>1, <1>2 DEF SyncedInv
  <2>1. Keeps
    BY StepKeeps
  <2>2. Filed'
    BY <2>1, KeepsFiled
  <2>3. KnownOnDisk'
    <3> SUFFICES ASSUME NEW q \in Procs, NEW r \in known'[q] PROVE OnDisk(r)'
      BY DEF KnownOnDisk
    <3>1. r \in known[q] \/ OnDisk(r)'
      BY <2>1, <2>2, KnownStep
    <3>2. r \in known[q] => OnDisk(r)
      BY DEF KnownOnDisk
    <3>3. r \in Records
      BY DEF Typed
    <3> QED BY <2>1, <3>1, <3>2, <3>3, KeepsWithin
  <2>4. AppendProgress'
    BY <2>1, ProgressStep
  <2>5. MarkerNamesUnlinked'
    BY MarkerStep
  <2>6. AckedSynced' /\ AckedLinked'
    BY <2>1, AckedStep
  <2> QED BY <2>2, <2>3, <2>4, <2>5, <2>6
<1>3. CASE PowerLoss
  BY <1>3, PowerLossStep
<1>4. CASE UNCHANGED vars
  BY <1>4 DEF vars, disk, index, SyncedInv, Typed, LockHeld, Busy, Filed, KnownOnDisk, OnDisk,
              AppendProgress, Synced, Within, MarkerNamesUnlinked, Creating, Kept, AckedSynced, AckedLinked
<1> QED BY <1>2, <1>3, <1>4 DEF Next

\* Every record whose append returned success is among the synced lines of a shard whose
\* directory entry is synced, or that is an orphan, through every crash, power loss, torn
\* write and failed sync: the only record that is ever lost went with an orphan.
THEOREM AckedStaysSynced == Spec => [](AckedSynced /\ AckedLinked)
<1>1. Init => SyncedInv
  BY SyncedInit
<1>2. SyncedInv /\ [Next]_vars => SyncedInv'
  BY SyncedStep
<1>3. SyncedInv => AckedSynced /\ AckedLinked
  BY DEF SyncedInv
<1> QED BY <1>1, <1>2, <1>3, PTL DEF Spec

-----------------------------------------------------------------------------
(* Without torn writes no line is ever damaged                              *)

\* Every line is a record, so a scan reads all of them.
Whole == \A d \in Dates : Intact(lines[d])

LEMMA WholeStep ==
  ASSUME "torn" \notin Faults
  PROVE  Typed /\ LockHeld /\ Whole /\ [Next]_vars => Whole'
<1> SUFFICES ASSUME Typed, LockHeld, Whole, [Next]_vars, NEW d \in Dates,
                    NEW i \in 1 .. Len(lines'[d])
             PROVE  lines'[d][i] # Fragment
  BY DEF Whole, Intact
<1> USE ConstantsAssumption
<1>1. lines[d] \in Seq(Lines) /\ \A j \in 1 .. Len(lines[d]) : lines[d][j] # Fragment
  BY DEF Typed, Whole, Intact
<1>2. ASSUME lines'[d] = lines[d] PROVE lines'[d][i] # Fragment
  BY <1>1, <1>2
<1>3. ASSUME NEW p \in Procs, Recover(p) PROVE lines'[d][i] # Fragment
  <2>1. lines'[d] = Complete(lines[d])
    BY <1>3 DEF Recover
  <2> QED BY <1>1, <1>2, <2>1 DEF Complete, PartialTail
<1>4. ASSUME NEW p \in Procs, Write(p) PROVE lines'[d][i] # Fragment
  <2>1. lines' = [lines EXCEPT ![DateOf[op[p]]] = Append(@, op[p])] /\ op[p] \in Records
    BY <1>4 DEF Write, Fault, At, LockHeld, Busy
  <2>2. lines'[d] = lines[d] \/ lines'[d] = Append(lines[d], op[p])
    BY <2>1 DEF Typed
  <2> QED BY <1>1, <1>2, <2>1, <2>2
<1>5. ASSUME NEW p \in Procs, Crash(p) PROVE lines'[d][i] # Fragment
  BY <1>2, <1>5 DEF Crash
<1>6. CASE PowerLoss
  <2>1. \/ lines'[d] = <<>>
        \/ i <= Len(lines[d]) /\ lines'[d][i] = lines[d][i]
    BY <1>6, PowerLossLines
  <2> QED BY <1>1, <2>1
<1>7. ASSUME UNCHANGED lines PROVE lines'[d][i] # Fragment
  BY <1>2, <1>7
<1>8. ASSUME NEW p \in Procs, Step(p) \/ Open(p) \/ Inventory(p) \/ Request(p), ~ Write(p)
      PROVE  UNCHANGED lines
  BY <1>8 DEF Step, IntegrateManifest, Rescan, RescanFails, SettlePending, FinishSettling, RefreshTarget,
              Reject, Resync, Create, Prepare, Sync, Link, Publish, Open, Inventory, Request, ScanAll, disk
<1> QED BY <1>3, <1>4, <1>5, <1>6, <1>7, <1>8 DEF Next, vars, disk

\* When no write stops half way, an acknowledged record that did not go with an orphan also
\* stays readable: a scan of its shard always returns it.
THEOREM AckedStaysDurable ==
  ASSUME "torn" \notin Faults
  PROVE  Spec => []AckedDurable
<1> DEFINE DurableInv == SyncedInv /\ Whole
<1>1. Init => DurableInv
  BY SyncedInit DEF Init, Whole, Intact
<1>2. DurableInv /\ [Next]_vars => DurableInv'
  BY SyncedStep, WholeStep DEF SyncedInv
<1>3. DurableInv => AckedDurable
  <2> SUFFICES ASSUME SyncedInv, Whole, NEW r \in Kept PROVE r \in Visible
    BY DEF AckedDurable, AckedReadable, SyncedInv
  <2>1. PICK i \in 1 .. Len(lines[DateOf[r]]) : lines[DateOf[r]][i] = r
    <3>1. PICK i \in 1 .. stable[DateOf[r]] : i <= Len(lines[DateOf[r]]) /\ lines[DateOf[r]][i] = r
      BY DEF SyncedInv, AckedSynced
    <3>2. stable[DateOf[r]] \in Nat /\ Len(lines[DateOf[r]]) \in Nat
      BY ConstantsAssumption DEF SyncedInv, Typed, Kept
    <3> QED BY <3>1, <3>2
  <2>2. DateOf[r] \in Dates
    BY ConstantsAssumption DEF SyncedInv, Typed, Kept
  <2>3. r \in Readable(lines[DateOf[r]])
    BY <2>1, <2>2 DEF Readable, Whole, Intact, SyncedInv, Typed
  <2> QED BY <2>2, <2>3 DEF Visible
<1> QED BY <1>1, <1>2, <1>3, PTL DEF Spec

-----------------------------------------------------------------------------
(* The marker names whatever is not synced, whatever fails                  *)

\* What every step preserves, for every set of failures.
BaseInv == Typed /\ LockHeld /\ Filed /\ KnownOnDisk /\ AppendProgress

LEMMA BaseStep == BaseInv /\ [Next]_vars => BaseInv'
<1> SUFFICES ASSUME BaseInv, [Next]_vars PROVE BaseInv'
  OBVIOUS
<1>1. Typed' /\ LockHeld'
  BY TypeStep, LockStep DEF BaseInv
<1>2. ASSUME NEW p \in Procs,
             Step(p) \/ Recover(p) \/ Open(p) \/ Inventory(p) \/ Request(p) \/ Crash(p)
      PROVE  BaseInv'
  <2> USE <1>1, <1>2 DEF BaseInv
  <2>1. Keeps
    BY StepKeeps
  <2>2. Filed'
    BY <2>1, KeepsFiled
  <2>3. KnownOnDisk'
    <3> SUFFICES ASSUME NEW q \in Procs, NEW r \in known'[q] PROVE OnDisk(r)'
      BY DEF KnownOnDisk
    <3>1. r \in known[q] \/ OnDisk(r)'
      BY <2>1, <2>2, KnownStep
    <3>2. r \in known[q] => OnDisk(r)
      BY DEF KnownOnDisk
    <3>3. r \in Records
      BY DEF Typed
    <3> QED BY <2>1, <3>1, <3>2, <3>3, KeepsWithin
  <2>4. AppendProgress'
    BY <2>1, ProgressStep
  <2> QED BY <2>2, <2>3, <2>4
<1>3. CASE PowerLoss
  BY <1>1, <1>3, PowerLossFiled DEF BaseInv
<1>4. CASE UNCHANGED vars
  BY <1>4 DEF vars, disk, index, BaseInv, Typed, LockHeld, Busy, Filed, KnownOnDisk, OnDisk,
              AppendProgress, Synced, Within
<1> QED BY <1>2, <1>3, <1>4 DEF Next

\* What an operation has established about the marker at each of its steps.
MarkerSteps ==
  \A p \in Procs :
    /\ pc[p] = "settle" => pending.shard \in exists
    /\ pc[p] \in {"target", "choose", "mark"} => pending = NoMarker
    /\ pc[p] \in {"write", "sync", "link", "publish"} => pending.shard = DateOf[op[p]]
    /\ pc[p] \in {"link", "publish"} => stable[DateOf[op[p]]] = Len(lines[DateOf[op[p]]])

CoversInv == BaseInv /\ MarkerSteps /\ MarkerCoversUnsynced

AllSynced == \A d \in Dates : stable[d] = Len(lines[d])

\* Without a marker everything is synced, and the other way round the marker may go.
LEMMA UnmarkedSynced ==
  ASSUME BaseInv, MarkerCoversUnsynced, pending = NoMarker
  PROVE  AllSynced
<1>1. \A d \in Dates : stable[d] \in Nat /\ Len(lines[d]) \in Nat /\ stable[d] <= Len(lines[d])
  BY DEF BaseInv, Typed, Filed
<1> QED BY <1>1, ConstantsAssumption DEF AllSynced, MarkerCoversUnsynced, NoMarker

LEMMA SyncedUnmarked ==
  ASSUME Typed', AllSynced', pending' = NoMarker
  PROVE  MarkerCoversUnsynced'
<1>1. \A d \in Dates : ~ (stable'[d] < Len(lines'[d]))
  BY DEF AllSynced, Typed
<1>2. pending'.shard \notin exists'
  BY ConstantsAssumption DEF NoMarker, Typed
<1> QED BY <1>1, <1>2 DEF MarkerCoversUnsynced

\* A scan syncs what the marker names before it removes it.
LEMMA ScanSyncs ==
  ASSUME BaseInv, MarkerCoversUnsynced, NEW ln, NEW cut, ScanSettles(ln, cut), lines' = ln,
         \A d \in Dates \ cut : ln[d] = lines[d]
  PROVE  AllSynced' /\ pending' = NoMarker
<1> SUFFICES ASSUME NEW d \in Dates PROVE stable'[d] = Len(ln[d])
  BY DEF AllSynced, ScanSettles
<1>1. stable'[d] = IF d \in cut \/ (d = pending.shard /\ d \in exists)
                   THEN Len(ln[d]) ELSE stable[d]
  BY DEF ScanSettles
<1>2. stable[d] \in Nat /\ Len(lines[d]) \in Nat /\ stable[d] <= Len(lines[d])
      /\ (lines[d] # <<>> => d \in exists) /\ (Len(lines[d]) # 0 => lines[d] # <<>>)
  BY DEF BaseInv, Typed, Filed
<1>3. stable[d] < Len(lines[d]) => pending.shard = d
  BY DEF MarkerCoversUnsynced
<1> QED BY <1>1, <1>2, <1>3

\* A sync never undoes what the marker covers.
LEMMA SyncCovers ==
  ASSUME BaseInv, MarkerCoversUnsynced, UNCHANGED <<lines, exists, pending>>,
         \A d \in Dates : stable'[d] = stable[d] \/ stable'[d] = Len(lines[d])
  PROVE  MarkerCoversUnsynced'
<1>1. \A d \in Dates : stable[d] \in Nat /\ Len(lines[d]) \in Nat /\ stable[d] <= Len(lines[d])
  BY DEF BaseInv, Typed, Filed
<1>2. pending.prior \in Nat /\ exists \subseteq Dates
  BY DEF BaseInv, Typed, Marker
<1> QED BY <1>1, <1>2 DEF MarkerCoversUnsynced

\* A write to the shard that the marker names.
LEMMA WriteCovers ==
  ASSUME BaseInv, MarkerCoversUnsynced, UNCHANGED <<stable, exists, pending>>,
         \A d \in Dates : d # pending.shard => lines'[d] = lines[d]
  PROVE  MarkerCoversUnsynced'
  BY DEF BaseInv, Typed, MarkerCoversUnsynced

\* What no power loss can take.
LEMMA PowerLossSynced ==
  ASSUME Typed, PowerLoss
  PROVE  /\ pc' = [p \in Procs |-> "down"] /\ UNCHANGED <<pending, acked, manifest>>
         /\ exists' \subseteq exists
         /\ \A d \in Dates :
              \/ d \notin exists' /\ lines'[d] = <<>> /\ stable'[d] = 0
              \/ stable'[d] = stable[d] /\ lines'[d] \in AfterPowerLoss(d)
  <1>1. PICK gone \in SUBSET (exists \ linked) :
        /\ exists' = exists \ gone
        /\ \E left \in [Dates -> UNION {AfterPowerLoss(d) : d \in Dates} \cup {<<>>}] :
             /\ \A d \in Dates : IF d \in gone THEN left[d] = <<>> ELSE left[d] \in AfterPowerLoss(d)
             /\ lines' = left
        /\ stable' = [d \in Dates |-> IF d \in gone THEN 0 ELSE stable[d]]
  BY DEF PowerLoss
<1>2. pc' = [p \in Procs |-> "down"]
  <2>1. Forget(Procs)
    BY DEF PowerLoss
  <2> QED BY <2>1 DEF Forget
<1> QED BY <1>1, <1>2 DEF PowerLoss

\* A shard that is synced to its end survives a power loss as it is.
LEMMA SyncedSurvives ==
  ASSUME Typed, NEW d \in Dates, stable[d] = Len(lines[d]), NEW s \in AfterPowerLoss(d)
  PROVE  s = lines[d]
<1>1. lines[d] \in Seq(Lines) /\ Len(lines[d]) \in Nat
  BY DEF Typed
<1>2. \A t \in {SubSeq(lines[d], 1, n) : n \in stable[d] .. Len(lines[d])} : t = lines[d]
  <2>1. \A n \in stable[d] .. Len(lines[d]) : n = Len(lines[d])
    BY <1>1
  <2>2. SubSeq(lines[d], 1, Len(lines[d])) = lines[d]
    BY <1>1
  <2> QED BY <2>1, <2>2
<1> QED BY <1>1, <1>2 DEF AfterPowerLoss

LEMMA CoversPowerLoss == CoversInv /\ BaseInv' /\ PowerLoss => CoversInv'
<1> SUFFICES ASSUME CoversInv, BaseInv', PowerLoss PROVE MarkerSteps' /\ MarkerCoversUnsynced'
  BY DEF CoversInv
<1> USE DEF CoversInv
<1>1. Typed
  BY DEF BaseInv
<1>2. MarkerSteps'
  BY <1>1, PowerLossSynced DEF MarkerSteps
<1>3. ASSUME NEW d \in Dates, stable'[d] < Len(lines'[d]) PROVE pending'.shard = d
  <2>1. stable[d] \in Nat /\ Len(lines[d]) \in Nat /\ stable[d] <= Len(lines[d])
    BY DEF BaseInv, Typed, Filed
  <2>2. stable'[d] = stable[d] /\ lines'[d] \in AfterPowerLoss(d)
    BY <1>1, <1>3, PowerLossSynced
  <2>3. stable[d] # Len(lines[d])
    BY <1>1, <1>3, <2>1, <2>2, SyncedSurvives
  <2> QED BY <1>1, <2>1, <2>3, PowerLossSynced DEF MarkerCoversUnsynced
<1>4. pending'.shard \in exists' => pending'.prior <= stable'[pending'.shard]
  <2> SUFFICES ASSUME pending.shard \in exists' PROVE pending.prior <= stable'[pending.shard]
    BY <1>1, PowerLossSynced
  <2>1. pending.shard \in exists /\ pending.shard \in Dates
    BY <1>1, PowerLossSynced DEF Typed
  <2>2. stable'[pending.shard] = stable[pending.shard]
    BY <1>1, <2>1, PowerLossSynced
  <2> QED BY <2>1, <2>2 DEF MarkerCoversUnsynced
<1> QED BY <1>2, <1>3, <1>4 DEF MarkerCoversUnsynced

LEMMA CoversStep ==
  ASSUME CoversInv, BaseInv', NEW p \in Procs,
         Step(p) \/ Recover(p) \/ Open(p) \/ Inventory(p) \/ Request(p) \/ Crash(p)
  PROVE  CoversInv'
<1> USE ConstantsAssumption DEF CoversInv
<1> DEFINE Settled(q) ==
             /\ pc[q] = "settle" => pending.shard \in exists
             /\ pc[q] \in {"target", "choose", "mark"} => pending = NoMarker
             /\ pc[q] \in {"write", "sync", "link", "publish"} => pending.shard = DateOf[op[q]]
             /\ pc[q] \in {"link", "publish"} => stable[DateOf[op[q]]] = Len(lines[DateOf[op[q]]])
           Quiet(q) == pc'[q] \in {"down", "idle", "refresh", "pending"}
<1>1. /\ Typed /\ LockHeld /\ Filed /\ Typed'
      /\ pc \in [Procs -> Control] /\ \A q \in Procs : Settled(q)
      /\ \A d \in Dates : stable[d] \in Nat /\ Len(lines[d]) \in Nat /\ stable[d] <= Len(lines[d])
  BY DEF BaseInv, Typed, Filed, MarkerSteps
<1> SUFFICES (\A q \in Procs : Settled(q)') /\ MarkerCoversUnsynced'
  BY DEF MarkerSteps
<1>2. ASSUME NEW q \in Procs, Quiet(q) PROVE Settled(q)'
  BY <1>2
<1>3. ASSUME NEW s, Goto(p, s) PROVE pc'[p] = s
  BY <1>1, <1>3 DEF Goto
<1>4. ASSUME Release(p) PROVE Quiet(p)
  BY <1>3, <1>4 DEF Release
<1>5. ASSUME Step(p) \/ Recover(p) \/ Inventory(p) \/ Request(p), NEW q \in Procs, q # p
      PROVE  Quiet(q)
  BY <1>1, <1>5, OthersFrame
<1>6. ASSUME Step(p) \/ Recover(p) \/ Inventory(p) \/ Request(p), Settled(p)', MarkerCoversUnsynced'
      PROVE  (\A q \in Procs : Settled(q)') /\ MarkerCoversUnsynced'
  BY <1>2, <1>5, <1>6
<1>7. CASE Recover(p)
  <2> DEFINE whole == [d \in Dates |-> Complete(lines[d])]
             cut == {d \in Dates : PartialTail(lines[d])}
  <2>1. ScanSettles(whole, cut) /\ lines' = whole /\ pc'[p] = "idle"
    BY <1>3, <1>7 DEF Recover
  <2>2. \A d \in Dates \ cut : whole[d] = lines[d]
    BY DEF Complete
  <2>3. AllSynced' /\ pending' = NoMarker
    <3> HIDE DEF whole, cut
    <3> QED BY <2>1, <2>2, ScanSyncs
  <2>4. MarkerCoversUnsynced'
    BY <1>1, <2>3, SyncedUnmarked
  <2> QED BY <1>2, <1>6, <1>7, <2>1, <2>4
<1>8. CASE Inventory(p) \/ Rescan(p)
  <2>1. ScanSettles(lines, {}) /\ lines' = lines /\ Quiet(p)
    BY <1>3, <1>8 DEF Inventory, Rescan, ScanAll, At
  <2>2. AllSynced' /\ pending' = NoMarker
    BY <2>1, ScanSyncs
  <2>3. MarkerCoversUnsynced'
    BY <1>1, <2>2, SyncedUnmarked
  <2> QED BY <1>2, <1>6, <1>8, <2>1, <2>3 DEF Step
<1>9. CASE IntegrateManifest(p) \/ RescanFails(p) \/ Reject(p) \/ Request(p)
  <2>1. UNCHANGED <<disk, pending>> /\ Quiet(p)
    BY <1>3, <1>4, <1>9 DEF IntegrateManifest, RescanFails, Reject, Request
  <2>2. MarkerCoversUnsynced'
    BY <2>1 DEF disk, MarkerCoversUnsynced
  <2> QED BY <1>2, <1>6, <1>9, <2>1, <2>2 DEF Step
<1>10. CASE Open(p) \/ Crash(p)
  <2>1. Quiet(p) /\ UNCHANGED <<stable, exists, pending>>
    BY <1>1, <1>3, <1>10 DEF Open, Crash, Forget, disk
  <2>2. CASE UNCHANGED lines
    <3>1. ASSUME NEW q \in Procs, ~ Quiet(q) PROVE Settled(q)'
      <4>1. q # p /\ pc'[q] = pc[q] /\ op'[q] = op[q]
        BY <1>1, <1>10, <2>1, <3>1, OthersFrame
      <4> QED BY <1>1, <2>1, <2>2, <4>1
    <3>2. MarkerCoversUnsynced'
      BY <2>1, <2>2 DEF MarkerCoversUnsynced
    <3> QED BY <1>2, <3>1, <3>2
  <2>3. CASE At(p, "write") /\ lines' = [lines EXCEPT ![DateOf[op[p]]] = WithFragment(@)]
    <3>1. \A q \in Procs : Quiet(q)
      BY <1>1, <1>10, <2>1, <2>3, OthersFrame DEF At, LockHeld, Busy
    <3>2. \A d \in Dates : d # pending.shard => lines'[d] = lines[d]
      BY <1>1, <2>3 DEF At, Typed
    <3>3. MarkerCoversUnsynced'
      BY <2>1, <3>2, WriteCovers
    <3> QED BY <1>2, <3>1, <3>3
  <2> QED BY <1>10, <2>2, <2>3 DEF Open, Crash, disk
<1>11. CASE Resync(p)
  <2>1. UNCHANGED <<lines, exists, pending>> /\ Quiet(p) /\ (UNCHANGED stable \/ SyncShard(DateOf[op[p]]))
    BY <1>4, <1>11 DEF Resync
  <2>2. \A d \in Dates : stable'[d] = stable[d] \/ stable'[d] = Len(lines[d])
    BY <1>1, <2>1 DEF SyncShard, Typed
  <2> QED BY <1>2, <1>6, <1>11, <2>1, <2>2, SyncCovers DEF Step
<1>12. CASE SettlePending(p)
  <2>1. /\ UNCHANGED <<disk, pending>>
        /\ \/ Quiet(p)
           \/ pc'[p] = "target" /\ pending = NoMarker
           \/ pc'[p] = "settle" /\ pending.shard \in exists
    BY <1>3, <1>4, <1>12 DEF SettlePending
  <2>2. Settled(p)' /\ MarkerCoversUnsynced'
    BY <2>1 DEF disk, MarkerCoversUnsynced
  <2> QED BY <1>6, <1>12, <2>2 DEF Step
<1>13. CASE FinishSettling(p)
  <2>1. /\ UNCHANGED <<lines, exists>> /\ pc[p] = "settle" /\ pending.shard \in Dates
        /\ stable' = [stable EXCEPT ![pending.shard] = Len(lines[pending.shard])]
        /\ \/ pending' = NoMarker /\ pc'[p] = "target"
           \/ pending' = pending /\ Quiet(p)
    BY <1>1, <1>3, <1>4, <1>13 DEF FinishSettling, SyncShard, At, Typed
  <2>2. \A d \in Dates : stable'[d] = stable[d] \/ stable'[d] = Len(lines[d])
    BY <1>1, <2>1 DEF Typed
  <2>3. CASE pending' = NoMarker /\ pc'[p] = "target"
    <3>1. AllSynced'
      <4> SUFFICES ASSUME NEW d \in Dates PROVE stable'[d] = Len(lines[d])
        BY <2>1 DEF AllSynced
      <4>1. d # pending.shard => stable'[d] = stable[d] /\ ~ (stable[d] < Len(lines[d]))
        BY <2>1 DEF MarkerCoversUnsynced, BaseInv, Typed
      <4> QED BY <1>1, <2>1, <4>1 DEF Typed
    <3>2. MarkerCoversUnsynced'
      BY <1>1, <2>3, <3>1, SyncedUnmarked
    <3> QED BY <1>6, <1>13, <2>3, <3>2 DEF Step
  <2>4. CASE pending' = pending /\ Quiet(p)
    BY <1>2, <1>6, <1>13, <2>1, <2>2, <2>4, SyncCovers DEF Step
  <2> QED BY <2>1, <2>3, <2>4
<1>14. CASE RefreshTarget(p)
  <2>1. UNCHANGED <<disk, pending>> /\ (Quiet(p) \/ pc'[p] = "choose") /\ pc[p] = "target"
    BY <1>3, <1>4, <1>14 DEF RefreshTarget, At
  <2>2. Settled(p)' /\ MarkerCoversUnsynced'
    BY <1>1, <2>1 DEF disk, MarkerCoversUnsynced
  <2> QED BY <1>6, <1>14, <2>2 DEF Step
<1>20. CASE Create(p)
  <2>1. /\ pending = NoMarker /\ UNCHANGED <<lines, stable, pending>> /\ pc'[p] = "mark"
    BY <1>1, <1>3, <1>20 DEF Create, At
  <2>2. AllSynced'
    BY <2>1, UnmarkedSynced DEF AllSynced
  <2>3. MarkerCoversUnsynced'
    BY <1>1, <2>1, <2>2, SyncedUnmarked
  <2> QED BY <1>6, <1>20, <2>1, <2>3 DEF Step
<1>15. CASE Prepare(p)
  <2> DEFINE d == DateOf[op[p]]
  <2>1. /\ pending = NoMarker /\ UNCHANGED <<lines, stable>> /\ d \in Dates
        /\ \/ pending' = [shard |-> d, prior |-> Len(lines[d])] /\ pc'[p] = "write" /\ op' = op
           \/ pending' = pending /\ Quiet(p)
    BY <1>1, <1>3, <1>4, <1>15 DEF Prepare, At, Continue, LockHeld, Busy
  <2>2. AllSynced
    BY <2>1, UnmarkedSynced
  <2>3. CASE pending' = pending /\ Quiet(p)
    <3>1. MarkerCoversUnsynced'
      BY <1>1, <2>1, <2>2, <2>3, SyncedUnmarked DEF AllSynced
    <3> QED BY <1>2, <1>6, <1>15, <2>3, <3>1 DEF Step
  <2>4. CASE pending' = [shard |-> d, prior |-> Len(lines[d])] /\ pc'[p] = "write" /\ op' = op
    <3> HIDE DEF d
    <3>1. MarkerCoversUnsynced'
      BY <1>1, <2>1, <2>2, <2>4 DEF AllSynced, MarkerCoversUnsynced
    <3>2. Settled(p)'
      BY <2>4 DEF d
    <3> QED BY <1>6, <1>15, <3>1, <3>2 DEF Step
  <2> QED BY <2>1, <2>3, <2>4
<1>16. CASE Write(p)
  <2>1. /\ UNCHANGED <<stable, exists, pending>> /\ pending.shard = DateOf[op[p]] /\ pc[p] = "write"
        /\ (Quiet(p) \/ (pc'[p] = "sync" /\ op' = op))
    BY <1>1, <1>3, <1>4, <1>16 DEF Write, At, Continue
  <2>2. \A d \in Dates : d # pending.shard => lines'[d] = lines[d]
    BY <1>1, <1>16, <2>1 DEF Write, Typed
  <2>3. Settled(p)' /\ MarkerCoversUnsynced'
    BY <2>1, <2>2, WriteCovers
  <2> QED BY <1>6, <1>16, <2>3 DEF Step
<1>17. CASE Sync(p)
  <2>1. /\ UNCHANGED <<lines, exists, pending>> /\ pc[p] = "sync" /\ op[p] \in Records
        /\ \/ Quiet(p) /\ UNCHANGED stable
           \/ /\ pc'[p] \in {"link", "publish"} /\ op' = op
              /\ stable' = [stable EXCEPT ![DateOf[op[p]]] = Len(lines[DateOf[op[p]]])]
    BY <1>1, <1>3, <1>4, <1>17 DEF Sync, At, Continue, SyncShard, LockHeld, Busy
  <2>2. \A d \in Dates : stable'[d] = stable[d] \/ stable'[d] = Len(lines[d])
    BY <1>1, <2>1 DEF Typed
  <2>3. Settled(p)'
    BY <1>1, <2>1 DEF Typed
  <2> QED BY <1>6, <1>17, <2>1, <2>2, <2>3, SyncCovers DEF Step
<1>18. CASE Link(p)
  <2>1. /\ UNCHANGED <<lines, stable, exists, pending>> /\ pc[p] = "link"
        /\ (Quiet(p) \/ (pc'[p] = "publish" /\ op' = op))
    BY <1>3, <1>4, <1>18 DEF Link, At, Continue
  <2>2. Settled(p)' /\ MarkerCoversUnsynced'
    BY <1>1, <2>1 DEF MarkerCoversUnsynced
  <2> QED BY <1>6, <1>18, <2>2 DEF Step
<1>19. CASE Publish(p)
  <2>1. /\ UNCHANGED disk /\ pc[p] = "publish" /\ Quiet(p) /\ pending' \in {NoMarker, pending}
    BY <1>4, <1>19 DEF Publish, At
  <2>2. AllSynced
    <3> SUFFICES ASSUME NEW d \in Dates PROVE stable[d] = Len(lines[d])
      BY DEF AllSynced
    <3>1. d # DateOf[op[p]] => ~ (stable[d] < Len(lines[d]))
      BY <1>1, <2>1 DEF MarkerCoversUnsynced
    <3> QED BY <1>1, <2>1, <3>1
  <2>3. MarkerCoversUnsynced'
    <3>1. CASE pending' = NoMarker
      BY <1>1, <2>1, <2>2, <3>1, SyncedUnmarked DEF AllSynced, disk
    <3>2. CASE pending' = pending
      BY <2>1, <3>2 DEF MarkerCoversUnsynced, disk
    <3> QED BY <2>1, <3>1, <3>2
  <2> QED BY <1>2, <1>6, <1>19, <2>1, <2>3 DEF Step
<1> QED BY <1>7, <1>8, <1>9, <1>10, <1>11, <1>12, <1>13, <1>14, <1>15, <1>16, <1>17, <1>18, <1>19, <1>20
    DEF Step

LEMMA CoversInit == Init => CoversInv
<1> SUFFICES ASSUME Init PROVE CoversInv
  OBVIOUS
<1>1. BaseInv
  BY SyncedInit DEF SyncedInv, BaseInv
<1>2. MarkerSteps /\ MarkerCoversUnsynced
  BY ConstantsAssumption DEF Init, MarkerSteps, MarkerCoversUnsynced, NoMarker
<1> QED BY <1>1, <1>2 DEF CoversInv

LEMMA CoversNext == CoversInv /\ [Next]_vars => CoversInv'
<1> SUFFICES ASSUME CoversInv, [Next]_vars PROVE CoversInv'
  OBVIOUS
<1>1. BaseInv'
  BY BaseStep DEF CoversInv
<1>2. CASE UNCHANGED vars
  BY <1>1, <1>2 DEF vars, disk, index, CoversInv, MarkerSteps, MarkerCoversUnsynced
<1> QED BY <1>1, <1>2, CoversStep, CoversPowerLoss DEF Next

\* Whatever fails, bytes that may not be synced are named by the marker, and it never
\* remembers a size that a power loss could undercut.
THEOREM MarkerAlwaysCovers == Spec => []MarkerCoversUnsynced
<1>1. CoversInv => MarkerCoversUnsynced
  BY DEF CoversInv
<1> QED BY <1>1, CoversInit, CoversNext, PTL DEF Spec

-----------------------------------------------------------------------------
(* One process that recovers at startup can always be restarted             *)

\* Only the last line of a shard can be a fragment.
TailOnly == \A d \in Dates : \A i \in 1 .. Len(lines[d]) - 1 : lines[d][i] # Fragment

\* A fragment is never synced, and no process is past the check that finds it, nor
\* about to scan, which would remove the marker and leave the fragment in place.
TornMarked ==
  \A d \in {e \in Dates : PartialTail(lines[e])} :
    /\ stable[d] < Len(lines[d])
    /\ \A p \in Procs : \/ pc[p] = "down"
                        \/ pc[p] \in {"idle", "refresh", "pending"} /\ ~ NeedsScan(p)

\* Past refresh_index the index follows the manifest to its end.
Followed == \A p \in Procs : pc[p] \notin {"down", "idle", "refresh"} => ~ NeedsScan(p)

TornInv == CoversInv /\ TailOnly /\ TornMarked /\ Followed

\* The hypotheses under which that is so: processes take turns, none of them opens
\* the store without recovery or scans it unasked, and a scan can rewrite the manifest.
Alone == /\ \A p, q \in Procs : p = q
         /\ Lazy = {} /\ Scanners = {}
         /\ "rewrite" \notin Faults

LEMMA ReadableAppend ==
  ASSUME NEW s \in Seq(Lines), NEW x \in Lines
  PROVE  Readable(s) \subseteq Readable(Append(s, x))
<1> SUFFICES ASSUME NEW i \in 1 .. Len(s), s[i] # Fragment, i = 1 \/ s[i-1] # Fragment
             PROVE  s[i] \in Readable(Append(s, x))
  BY DEF Readable
<1> DEFINE t == Append(s, x)
<1>1. Len(t) = Len(s) + 1 /\ \A j \in 1 .. Len(s) : t[j] = s[j]
  OBVIOUS
<1>2. i \in 1 .. Len(t) /\ t[i] = s[i] /\ t[i] # Fragment /\ (i = 1 \/ t[i-1] # Fragment)
  <2>1. i = 1 \/ i - 1 \in 1 .. Len(s)
    OBVIOUS
  <2> QED BY <1>1, <2>1
<1> HIDE DEF t
<1>3. s[i] \in Readable(t)
  BY <1>2 DEF Readable
<1> QED BY <1>3 DEF t

LEMMA VisibleGrows ==
  ASSUME Typed, NEW e, NEW x \in Lines, lines' = [lines EXCEPT ![e] = Append(@, x)]
  PROVE  Visible \subseteq Visible'
<1>1. \A d \in Dates : Readable(lines[d]) \subseteq Readable(lines'[d])
  <2> SUFFICES ASSUME NEW d \in Dates PROVE Readable(lines[d]) \subseteq Readable(lines'[d])
    OBVIOUS
  <2>1. lines[d] \in Seq(Lines) /\ (lines'[d] = lines[d] \/ lines'[d] = Append(lines[d], x))
    BY DEF Typed
  <2> QED BY <2>1, ReadableAppend
<1> QED BY <1>1 DEF Visible

\* What a step of a process does to a shard: a recovery cuts its tail, a write
\* appends to it, a crash in a write may leave a fragment.
LEMMA LinesStep ==
  ASSUME Typed, LockHeld, NEW p \in Procs,
         Step(p) \/ Recover(p) \/ Open(p) \/ Inventory(p) \/ Request(p) \/ Crash(p)
  PROVE  \/ UNCHANGED lines
         \/ Recover(p) /\ lines' = [d \in Dates |-> Complete(lines[d])]
         \/ /\ pc[p] = "write" /\ op[p] \in Records /\ DateOf[op[p]] \in Dates
            /\ \/ Write(p) /\ lines' = [lines EXCEPT ![DateOf[op[p]]] = Append(@, op[p])]
               \/ /\ Write(p) \/ Crash(p)
                  /\ lines' = [lines EXCEPT ![DateOf[op[p]]] = WithFragment(@)]
<1>1. CASE Write(p)
  BY <1>1, ConstantsAssumption DEF Write, At, LockHeld, Busy
<1>2. CASE Crash(p)
  <2>1. At(p, "write") => pc[p] = "write" /\ op[p] \in Records /\ DateOf[op[p]] \in Dates
    BY ConstantsAssumption DEF At, LockHeld, Busy
  <2> QED BY <1>2, <2>1 DEF Crash
<1>3. CASE Recover(p)
  BY <1>3 DEF Recover
<1>4. CASE ~ (Write(p) \/ Crash(p) \/ Recover(p))
  BY <1>4 DEF Step, IntegrateManifest, Rescan, RescanFails, SettlePending, FinishSettling, RefreshTarget,
              Reject, Resync, Create, Prepare, Sync, Link, Publish, Open, Inventory, Request, ScanAll, disk
<1> QED BY <1>1, <1>2, <1>3, <1>4

\* Cutting the tail of a shard that is damaged nowhere else leaves it whole.
LEMMA CompleteIntact ==
  ASSUME NEW s \in Seq(Lines), \A i \in 1 .. Len(s) - 1 : s[i] # Fragment
  PROVE  /\ Complete(s) \in Seq(Lines) /\ Len(Complete(s)) \in Nat
         /\ \A i \in 1 .. Len(Complete(s)) : Complete(s)[i] # Fragment
         /\ ~ PartialTail(Complete(s))
<1>1. \A i \in 1 .. Len(Complete(s)) : Complete(s)[i] # Fragment
  <2>1. CASE PartialTail(s)
    <3>1. Len(s) \in Nat \ {0}
      BY <2>1 DEF PartialTail
    <3>2. Complete(s) = SubSeq(s, 1, Len(s) - 1)
      BY <2>1 DEF Complete
    <3> QED BY <3>1, <3>2
  <2>2. CASE ~ PartialTail(s)
    <3>1. s # <<>> => Len(s) \in 1 .. Len(s) /\ s[Len(s)] # Fragment
      BY <2>2 DEF PartialTail
    <3>2. \A i \in 1 .. Len(s) : s[i] # Fragment
      <4> TAKE i \in 1 .. Len(s)
      <4>1. s # <<>> /\ (i \in 1 .. Len(s) - 1 \/ i = Len(s))
        OBVIOUS
      <4> QED BY <3>1, <4>1
    <3> QED BY <2>2, <3>2 DEF Complete
  <2> QED BY <2>1, <2>2
<1>2. Complete(s) \in Seq(Lines)
  BY CompletePrefix
<1> HIDE DEF Complete
<1>3. Complete(s) # <<>> => Len(Complete(s)) \in 1 .. Len(Complete(s))
  BY <1>2
<1> QED BY <1>1, <1>2, <1>3 DEF PartialTail

LEMMA LineStep ==
  ASSUME Typed, LockHeld, NEW p \in Procs,
         Step(p) \/ Recover(p) \/ Open(p) \/ Inventory(p) \/ Request(p) \/ Crash(p),
         NEW d \in Dates, lines'[d] # lines[d]
  PROVE  \/ Recover(p) /\ lines'[d] = Complete(lines[d])
         \/ /\ pc[p] = "write" /\ op[p] \in Records /\ DateOf[op[p]] = d
            /\ \/ lines'[d] = Append(lines[d], op[p])
               \/ /\ Write(p) \/ Crash(p)
                  /\ lines' = [lines EXCEPT ![d] = WithFragment(@)]
                  /\ lines'[d] = WithFragment(lines[d])
<1>1. lines = [e \in Dates |-> lines[e]]
  BY DEF Typed
<1>2. CASE Recover(p) /\ lines' = [e \in Dates |-> Complete(lines[e])]
  BY <1>2
<1>3. ASSUME NEW e \in Dates, NEW s, lines' = [lines EXCEPT ![e] = s] PROVE e = d /\ lines'[d] = s
  BY <1>1, <1>3
<1>4. CASE /\ pc[p] = "write" /\ op[p] \in Records /\ DateOf[op[p]] \in Dates
           /\ \/ Write(p) /\ lines' = [lines EXCEPT ![DateOf[op[p]]] = Append(@, op[p])]
              \/ /\ Write(p) \/ Crash(p)
                 /\ lines' = [lines EXCEPT ![DateOf[op[p]]] = WithFragment(@)]
  <2> DEFINE e == DateOf[op[p]]
  <2>1. CASE lines' = [lines EXCEPT ![e] = Append(@, op[p])]
    <3>1. lines' = [lines EXCEPT ![e] = Append(lines[e], op[p])]
      BY <2>1
    <3>2. e = d /\ lines'[d] = Append(lines[e], op[p])
      BY <1>3, <1>4, <3>1
    <3> QED BY <1>4, <3>2
  <2>2. CASE (Write(p) \/ Crash(p)) /\ lines' = [lines EXCEPT ![e] = WithFragment(@)]
    <3>1. lines' = [lines EXCEPT ![e] = WithFragment(lines[e])]
      BY <2>2
    <3>2. e = d /\ lines'[d] = WithFragment(lines[e])
      BY <1>3, <1>4, <3>1
    <3> QED BY <1>4, <2>2, <3>2
  <2> QED BY <1>4, <2>1, <2>2
<1> QED BY <1>2, <1>4, LinesStep

LEMMA TailStep ==
  ASSUME TornInv, Typed', NEW p \in Procs,
         Step(p) \/ Recover(p) \/ Open(p) \/ Inventory(p) \/ Request(p) \/ Crash(p)
  PROVE  TailOnly'
<1> SUFFICES ASSUME NEW d \in Dates, NEW i \in 1 .. Len(lines'[d]) - 1
             PROVE  lines'[d][i] # Fragment
  BY DEF TailOnly
<1>1. Typed /\ LockHeld
  BY DEF TornInv, CoversInv, BaseInv
<1>2. /\ lines[d] \in Seq(Lines) /\ Len(lines[d]) \in Nat
      /\ \A j \in 1 .. Len(lines[d]) - 1 : lines[d][j] # Fragment
      /\ PartialTail(lines[d]) => \A q \in Procs : pc[q] # "write"
  <2>1. lines[d] \in Seq(Lines)
    BY <1>1 DEF Typed
  <2>2. \A j \in 1 .. Len(lines[d]) - 1 : lines[d][j] # Fragment
    BY DEF TornInv, TailOnly
  <2>3. PartialTail(lines[d]) => \A q \in Procs : pc[q] # "write"
    BY DEF TornInv, TornMarked
  <2> QED BY <2>1, <2>2, <2>3
<1>3. CASE lines'[d] = lines[d]
  BY <1>2, <1>3
<1>4. CASE lines'[d] = Complete(lines[d])
  BY <1>2, <1>4, CompleteIntact
<1>5. ASSUME ~ PartialTail(lines[d]), NEW x \in Lines, lines'[d] = Append(lines[d], x)
      PROVE  lines'[d][i] # Fragment
  <2>1. i \in 1 .. Len(lines[d]) /\ lines'[d][i] = lines[d][i]
    BY <1>2, <1>5
  <2>2. i # Len(lines[d]) => i \in 1 .. Len(lines[d]) - 1
    BY <1>2, <2>1
  <2>3. i = Len(lines[d]) => lines[d][i] # Fragment
    BY <1>2, <1>5, <2>1 DEF PartialTail
  <2> QED BY <1>2, <2>1, <2>2, <2>3
<1>6. CASE pc[p] = "write"
  <2>1. ~ PartialTail(lines[d])
    BY <1>2, <1>6
  <2>2. \/ lines'[d] = lines[d] \/ lines'[d] = Complete(lines[d])
        \/ op[p] \in Lines /\ lines'[d] = Append(lines[d], op[p])
        \/ lines'[d] = WithFragment(lines[d])
    BY <1>1, LineStep DEF Lines
  <2> QED BY <1>3, <1>4, <1>5, <2>1, <2>2 DEF WithFragment, Lines
<1>7. CASE pc[p] # "write"
  BY <1>1, <1>3, <1>4, <1>7, LineStep
<1> QED BY <1>6, <1>7

\* An index that follows the manifest goes on doing so while shards only grow.
LEMMA StillFollowed ==
  ASSUME NEW p, ~ NeedsScan(p), Visible \subseteq Visible',
         UNCHANGED <<loaded, fresh, seen, manifest>>
  PROVE  ~ NeedsScan(p)'
  BY DEF NeedsScan

LEMMA FollowedStep ==
  ASSUME Alone, TornInv, Typed', NEW p \in Procs,
         Step(p) \/ Recover(p) \/ Open(p) \/ Inventory(p) \/ Request(p) \/ Crash(p)
  PROVE  Followed'
<1> SUFFICES ASSUME pc'[p] \notin {"down", "idle", "refresh"} PROVE ~ NeedsScan(p)'
  BY DEF Followed, Alone
<1>1. Typed /\ LockHeld /\ pc \in [Procs -> Control]
  BY DEF TornInv, CoversInv, BaseInv, Typed
<1>2. pc[p] \notin {"down", "idle", "refresh"} => ~ NeedsScan(p)
  BY DEF TornInv, Followed
<1>3. Step(p) \/ Request(p)
  BY <1>1, OthersFrame
<1>4. ASSUME Release(p) PROVE FALSE
  BY <1>1, <1>4 DEF Release, Goto
<1>5. CASE Request(p)
  BY <1>1, <1>5 DEF Request, Goto
<1>6. CASE IntegrateManifest(p)
  BY <1>1, <1>6 DEF IntegrateManifest, NeedsScan, Typed
<1>7. CASE Rescan(p)
  <2>1. loaded'[p] /\ seen'[p] = manifest' /\ fresh'[p]
    BY <1>1, <1>7 DEF Rescan, ScanAll, ScanInto, Fault, Alone, Typed
  <2> QED BY <2>1 DEF NeedsScan
<1>8. ASSUME NEW d, pc[p] \in {"pending", "target"}, RefreshShard(p, d), UNCHANGED <<disk, loaded>>
      PROVE  ~ NeedsScan(p)'
  <2>1. ~ NeedsScan(p) /\ Visible' = Visible
    BY <1>2, <1>8 DEF disk, Visible
  <2>2. \/ manifest' = manifest /\ seen'[p] = seen[p] /\ fresh'[p] = fresh[p]
        \/ seen'[p] = manifest' /\ fresh'[p]
    <3>1. CASE Readable(lines[d]) \ manifested[p] = {}
      BY <1>1, <1>8, <3>1 DEF RefreshShard, Typed
    <3>2. CASE Readable(lines[d]) \ manifested[p] # {}
      BY <1>1, <1>8, <3>2 DEF RefreshShard, Typed
    <3> QED BY <3>1, <3>2
  <2> QED BY <1>8, <2>1, <2>2 DEF NeedsScan
<1>9. CASE SettlePending(p)
  <2>1. CASE UNCHANGED <<manifest, index, disk>>
    BY <1>2, <1>9, <2>1 DEF SettlePending, At, index, disk, NeedsScan, Visible
  <2> QED BY <1>4, <1>8, <1>9, <2>1 DEF SettlePending, At
<1>10. CASE RefreshTarget(p)
  <2>1. CASE UNCHANGED <<manifest, index, disk>>
    BY <1>2, <1>10, <2>1 DEF RefreshTarget, At, index, disk, NeedsScan, Visible
  <2> QED BY <1>4, <1>8, <1>10, <2>1 DEF RefreshTarget, At
<1>11. CASE FinishSettling(p) \/ Create(p) \/ Prepare(p) \/ Sync(p) \/ Link(p)
  <2>1. UNCHANGED <<lines, loaded, fresh, seen, manifest>> /\ pc[p] \notin {"down", "idle", "refresh"}
    BY <1>11 DEF FinishSettling, Create, Prepare, Sync, Link, At, index
  <2> QED BY <1>2, <2>1, StillFollowed DEF Visible
<1>12. CASE Write(p)
  <2>1. /\ lines' = [lines EXCEPT ![DateOf[op[p]]] = Append(@, op[p])] /\ op[p] \in Records
        /\ UNCHANGED <<loaded, fresh, seen, manifest>> /\ pc[p] = "write"
    BY <1>1, <1>4, <1>12 DEF Write, At, LockHeld, Busy
  <2>2. Visible \subseteq Visible'
    BY <1>1, <2>1, VisibleGrows DEF Lines
  <2> QED BY <1>2, <2>1, <2>2, StillFollowed
<1>13. CASE RescanFails(p) \/ Reject(p) \/ Resync(p) \/ Publish(p)
  BY <1>4, <1>13 DEF RescanFails, Reject, Resync, Publish
<1> QED BY <1>3, <1>5, <1>6, <1>7, <1>9, <1>10, <1>11, <1>12, <1>13 DEF Step

LEMMA TornStep ==
  ASSUME Alone, TornInv, Typed', NEW p \in Procs,
         Step(p) \/ Recover(p) \/ Open(p) \/ Inventory(p) \/ Request(p) \/ Crash(p)
  PROVE  TornMarked'
<1> SUFFICES ASSUME NEW d \in Dates, PartialTail(lines'[d])
             PROVE  /\ stable'[d] < Len(lines'[d])
                    /\ pc'[p] = "down" \/ (pc'[p] \in {"idle", "refresh", "pending"} /\ ~ NeedsScan(p)')
  BY DEF TornMarked, Alone
<1> USE ConstantsAssumption
<1>1. /\ Typed /\ LockHeld /\ pc \in [Procs -> Control]
      /\ lines[d] \in Seq(Lines) /\ Len(lines[d]) \in Nat /\ stable[d] \in Nat /\ stable[d] <= Len(lines[d])
      /\ \A i \in 1 .. Len(lines[d]) - 1 : lines[d][i] # Fragment
  BY DEF TornInv, CoversInv, BaseInv, Typed, Filed, TailOnly
<1>2. lines'[d] # Complete(lines[d])
  BY <1>1, CompleteIntact
<1>3. ~ Recover(p)
  BY <1>2 DEF Recover
<1>4. ASSUME NEW s, Goto(p, s) PROVE pc'[p] = s
  BY <1>1, <1>4 DEF Goto
<1>5. CASE lines'[d] = lines[d]
  <2>1. /\ stable[d] < Len(lines[d]) /\ pending.shard = d
        /\ pc[p] = "down" \/ (pc[p] \in {"idle", "refresh", "pending"} /\ ~ NeedsScan(p))
    BY <1>5 DEF TornInv, TornMarked, CoversInv, MarkerCoversUnsynced
  <2>2. pending # NoMarker /\ ~ Intact(lines[d])
    <3>1. Len(lines[d]) \in 1 .. Len(lines[d]) /\ lines[d][Len(lines[d])] = Fragment
      BY <1>1, <1>5 DEF PartialTail
    <3> QED BY <2>1, <3>1 DEF NoMarker, Intact
  <2>3. CASE Crash(p)
    <3>1. pc'[p] = "down" /\ stable' = stable
      BY <2>3 DEF Crash, Forget
    <3> QED BY <1>5, <2>1, <3>1
  <2>4. CASE Request(p)
    <3>1. pc'[p] = "refresh" /\ UNCHANGED <<disk, manifest, index>> /\ pc[p] = "idle"
      BY <1>4, <2>4 DEF Request, At
    <3> QED BY <1>5, <2>1, <3>1 DEF disk, index, NeedsScan, Visible
  <2>5. CASE IntegrateManifest(p)
    <3>1. pc'[p] = "pending" /\ UNCHANGED <<disk, manifest, loaded, fresh>> /\ seen'[p] = manifest
          /\ ~ NeedsScan(p)
      BY <1>1, <1>4, <2>5 DEF IntegrateManifest, Typed
    <3> QED BY <1>5, <2>1, <3>1 DEF disk, NeedsScan
  <2>6. CASE SettlePending(p)
    <3>1. UNCHANGED <<manifest, loaded, fresh, seen, disk>> /\ Release(p) /\ pc[p] = "pending"
      BY <2>1, <2>2, <2>6 DEF SettlePending, RefreshShard, RefreshShardFails, At
    <3>2. pc'[p] = "idle"
      BY <1>4, <3>1 DEF Release
    <3> QED BY <1>5, <2>1, <3>1, <3>2 DEF NeedsScan, disk, Visible
  <2>7. CASE Step(p) /\ ~ (IntegrateManifest(p) \/ SettlePending(p))
    BY <2>1, <2>7 DEF Step, Rescan, RescanFails, FinishSettling, RefreshTarget, Reject, Resync, Create, Prepare,
                      Write, Sync, Link, Publish, At
  <2>8. ~ Open(p) /\ ~ Inventory(p)
    BY DEF Open, Inventory, Alone
  <2> QED BY <1>3, <2>3, <2>4, <2>5, <2>6, <2>7, <2>8
<1>6. CASE lines'[d] # lines[d]
  <2>1. /\ pc[p] = "write" /\ op[p] \in Records /\ DateOf[op[p]] = d
        /\ \/ lines'[d] = Append(lines[d], op[p])
           \/ /\ Write(p) \/ Crash(p)
              /\ lines' = [lines EXCEPT ![d] = WithFragment(@)] /\ lines'[d] = WithFragment(lines[d])
    BY <1>1, <1>3, <1>6, LineStep
  <2>2. lines'[d] # Append(lines[d], op[p])
    BY <1>1, <2>1 DEF PartialTail
  <2>3. ~ PartialTail(lines[d]) /\ ~ NeedsScan(p)
    BY <2>1 DEF TornInv, TornMarked, Followed
  <2>4. lines' = [lines EXCEPT ![d] = Append(@, Fragment)] /\ lines'[d] = Append(lines[d], Fragment)
    BY <2>1, <2>2, <2>3 DEF WithFragment
  <2>5. UNCHANGED stable /\ stable'[d] < Len(lines'[d])
    <3>1. UNCHANGED stable
      BY <2>1, <2>2 DEF Write, Crash
    <3> QED BY <1>1, <2>4, <3>1
  <2>6. CASE Crash(p)
    <3>1. pc'[p] = "down"
      BY <2>6 DEF Crash, Forget
    <3> QED BY <2>5, <3>1
  <2>7. CASE Write(p)
    <3>1. UNCHANGED <<loaded, fresh, seen, manifest>> /\ (Release(p) \/ lines' = [lines EXCEPT ![d] = Append(@, op[p])])
      BY <2>1, <2>7 DEF Write
    <3>2. lines'[d] = WithFragment(lines[d]) /\ lines' # [lines EXCEPT ![d] = Append(@, op[p])]
      BY <1>1, <2>1, <2>2 DEF Typed
    <3>3. pc'[p] = "idle"
      BY <1>4, <3>1, <3>2 DEF Release
    <3>4. Visible \subseteq Visible'
      BY <1>1, <2>4, VisibleGrows DEF Lines
    <3> QED BY <2>3, <2>5, <3>1, <3>3, <3>4, StillFollowed
  <2> QED BY <2>1, <2>2, <2>6, <2>7
<1> QED BY <1>5, <1>6

\* What a power loss leaves of a shard whose only damage is at its end, unsynced.
LEMMA PowerLossTail ==
  ASSUME NEW d \in Dates, lines[d] \in Seq(Lines), stable[d] \in Nat, stable[d] <= Len(lines[d]),
         \A i \in 1 .. Len(lines[d]) - 1 : lines[d][i] # Fragment,
         PartialTail(lines[d]) => stable[d] < Len(lines[d]),
         NEW s \in AfterPowerLoss(d)
  PROVE  /\ \A i \in 1 .. Len(s) - 1 : s[i] # Fragment
         /\ PartialTail(s) => stable[d] < Len(s)
<1>1. ASSUME NEW n \in stable[d] .. Len(lines[d]), NEW t, t = SubSeq(lines[d], 1, n)
      PROVE  /\ t \in Seq(Lines) /\ Len(t) = n /\ n \in Nat /\ stable[d] <= n
             /\ \A i \in 1 .. n : t[i] = lines[d][i]
             /\ \A i \in 1 .. n - 1 : t[i] # Fragment
             /\ n < Len(lines[d]) => \A i \in 1 .. n : t[i] # Fragment
             /\ PartialTail(t) => stable[d] < Len(t)
  <2>1. n \in 0 .. Len(lines[d]) /\ n \in Nat /\ Len(lines[d]) \in Nat
    OBVIOUS
  <2>2. t \in Seq(Lines) /\ Len(t) = n /\ \A i \in 1 .. n : t[i] = lines[d][i]
    BY <1>1, <2>1
  <2>3. \A i \in 1 .. n - 1 : t[i] # Fragment
    BY <2>1, <2>2
  <2>4. n < Len(lines[d]) => \A i \in 1 .. n : t[i] # Fragment
    BY <2>1, <2>2
  <2>5. PartialTail(t) => stable[d] < n
    <3> SUFFICES ASSUME PartialTail(t) PROVE stable[d] < n
      OBVIOUS
    <3>1. n \in 1 .. n /\ t[n] = Fragment
      BY <2>1, <2>2 DEF PartialTail
    <3>2. n = Len(lines[d]) /\ lines[d][n] = Fragment
      BY <2>1, <2>2, <2>4, <3>1
    <3>3. PartialTail(lines[d])
      BY <3>1, <3>2 DEF PartialTail
    <3> QED BY <3>2, <3>3
  <2> QED BY <2>1, <2>2, <2>3, <2>4, <2>5
<1>2. ASSUME NEW n \in stable[d] .. Len(lines[d]), s = SubSeq(lines[d], 1, n)
      PROVE  /\ \A i \in 1 .. Len(s) - 1 : s[i] # Fragment
             /\ PartialTail(s) => stable[d] < Len(s)
  BY <1>1, <1>2
<1>3. ASSUME NEW n \in stable[d] .. Len(lines[d]), n < Len(lines[d]),
             s = WithFragment(SubSeq(lines[d], 1, n))
      PROVE  /\ \A i \in 1 .. Len(s) - 1 : s[i] # Fragment
             /\ PartialTail(s) => stable[d] < Len(s)
  <2> DEFINE t == SubSeq(lines[d], 1, n)
  <2>1. /\ t \in Seq(Lines) /\ Len(t) = n /\ n \in Nat /\ stable[d] <= n
        /\ \A i \in 1 .. n : t[i] # Fragment
    BY <1>1, <1>3
  <2> HIDE DEF t
  <2>2. ~ PartialTail(t)
    BY <2>1 DEF PartialTail
  <2>3. s = Append(t, Fragment)
    BY <1>3, <2>2 DEF WithFragment, t
  <2>4. Len(s) = n + 1 /\ \A i \in 1 .. n : s[i] = t[i]
    BY <2>1, <2>3
  <2> QED BY <2>1, <2>4
<1>4. ASSUME NEW n \in stable[d] .. Len(lines[d]), Len(SubSeq(lines[d], 1, n)) < Len(lines[d])
      PROVE  n < Len(lines[d])
  BY <1>1, <1>4
<1> QED BY <1>2, <1>3, <1>4 DEF AfterPowerLoss

LEMMA TornPowerLoss == TornInv /\ CoversInv' /\ PowerLoss => TornInv'
<1> SUFFICES ASSUME TornInv, CoversInv', PowerLoss PROVE TailOnly' /\ TornMarked' /\ Followed'
  BY DEF TornInv
<1>1. Typed
  BY DEF TornInv, CoversInv, BaseInv
<1>2. \A p \in Procs : pc'[p] = "down"
  BY <1>1, PowerLossSynced
<1>3. ASSUME NEW d \in Dates
      PROVE  /\ \A i \in 1 .. Len(lines'[d]) - 1 : lines'[d][i] # Fragment
             /\ PartialTail(lines'[d]) => stable'[d] < Len(lines'[d])
  <2>1. CASE lines'[d] = <<>>
    BY <2>1 DEF PartialTail
  <2>2. CASE stable'[d] = stable[d] /\ lines'[d] \in AfterPowerLoss(d)
    <3>1. lines[d] \in Seq(Lines) /\ stable[d] \in Nat /\ stable[d] <= Len(lines[d])
      BY DEF TornInv, CoversInv, BaseInv, Typed, Filed
    <3>2. \A i \in 1 .. Len(lines[d]) - 1 : lines[d][i] # Fragment
      BY DEF TornInv, TailOnly
    <3>3. PartialTail(lines[d]) => stable[d] < Len(lines[d])
      BY DEF TornInv, TornMarked
    <3> QED BY <2>2, <3>1, <3>2, <3>3, PowerLossTail
  <2> QED BY <1>1, <2>1, <2>2, PowerLossSynced
<1>4. TailOnly'
  BY <1>3 DEF TailOnly
<1>5. TornMarked'
  BY <1>2, <1>3 DEF TornMarked
<1> QED BY <1>2, <1>4, <1>5 DEF Followed

LEMMA TornInit == Init => TornInv
<1> SUFFICES ASSUME Init PROVE TornInv
  OBVIOUS
<1>1. CoversInv
  BY CoversInit
<1>2. TailOnly /\ TornMarked /\ Followed
  BY DEF Init, TailOnly, TornMarked, Followed, PartialTail
<1> QED BY <1>1, <1>2 DEF TornInv

LEMMA TornNext ==
  ASSUME Alone
  PROVE  TornInv /\ [Next]_vars => TornInv'
<1> SUFFICES ASSUME TornInv, [Next]_vars PROVE TornInv'
  OBVIOUS
<1>1. CoversInv' /\ Typed'
  BY CoversNext DEF TornInv, CoversInv, BaseInv
<1>2. ASSUME NEW p \in Procs,
             Step(p) \/ Recover(p) \/ Open(p) \/ Inventory(p) \/ Request(p) \/ Crash(p)
      PROVE  TornInv'
  BY <1>1, <1>2, TailStep, TornStep, FollowedStep DEF TornInv
<1>3. CASE PowerLoss
  BY <1>1, <1>3, TornPowerLoss
<1>4. CASE UNCHANGED vars
  BY <1>1, <1>4 DEF vars, disk, index, TornInv, TailOnly, TornMarked, Followed, NeedsScan, Visible
<1> QED BY <1>2, <1>3, <1>4 DEF Next

\* Damage at the end of a shard, beyond what is synced, never blocks a recovery.
LEMMA TailsNotBlocking ==
  ASSUME CoversInv, TailOnly, \A d \in Dates : PartialTail(lines[d]) => stable[d] < Len(lines[d])
  PROVE  Restartable
<1>1. \A d \in Dates : lines[d] \in Seq(Lines) /\ stable[d] \in Nat /\ stable[d] <= Len(lines[d])
  BY DEF CoversInv, BaseInv, Typed, Filed
<1>2. \A d \in Dates : ~ Corrupt(lines[d])
  <2> SUFFICES ASSUME NEW d \in Dates, NEW i \in 2 .. Len(lines[d]), lines[d][i-1] = Fragment
               PROVE  FALSE
    BY DEF Corrupt
  <2>1. i - 1 \in 1 .. Len(lines[d]) - 1
    BY <1>1
  <2> QED BY <2>1 DEF TailOnly
<1>3. ASSUME NEW d \in Dates PROVE stable[d] <= Len(Complete(lines[d]))
  <2>1. CASE PartialTail(lines[d])
    <3>1. Len(lines[d]) \in Nat \ {0} /\ stable[d] <= Len(lines[d]) - 1
      BY <1>1, <2>1 DEF PartialTail
    <3>2. Complete(lines[d]) = SubSeq(lines[d], 1, Len(lines[d]) - 1)
      BY <2>1 DEF Complete
    <3> QED BY <1>1, <3>1, <3>2
  <2>2. CASE ~ PartialTail(lines[d])
    BY <1>1, <2>2 DEF Complete
  <2> QED BY <2>1, <2>2
<1>4. pending.shard \in exists => pending.prior <= Len(Complete(lines[pending.shard]))
  <2> SUFFICES ASSUME pending.shard \in exists
               PROVE  pending.prior <= Len(Complete(lines[pending.shard]))
    OBVIOUS
  <2>1. pending.shard \in Dates /\ pending.prior \in Nat /\ pending.prior <= stable[pending.shard]
    BY DEF CoversInv, BaseInv, Typed, Marker, MarkerCoversUnsynced
  <2>2. Len(Complete(lines[pending.shard])) \in Nat
    BY <1>1, <2>1, CompletePrefix
  <2> QED BY <1>1, <1>3, <2>1, <2>2
<1> QED BY <1>2, <1>4 DEF Restartable, StartupNotBlocked, CoversInv

\* When one process has the store and always recovers it before it appends, every
\* crash, torn write, failed sync and power loss leaves a journal that the next
\* recovery gets past, whatever the records and the number of failures.
THEOREM OneProcessRestarts ==
  ASSUME \A p, q \in Procs : p = q, Lazy = {}, Scanners = {}, "rewrite" \notin Faults
  PROVE  Spec => []Restartable
<1>1. Alone
  BY DEF Alone
<1>2. TornInv => Restartable
  BY TailsNotBlocking DEF TornInv, TornMarked
<1>3. TornInv /\ [Next]_vars => TornInv'
  BY <1>1, TornNext
<1> QED BY <1>2, <1>3, TornInit, PTL DEF Spec

\* When no write stops half way, the same holds for any number of processes, with
\* and without recovery at startup, and whatever else fails.
THEOREM WholeShardsRestart ==
  ASSUME "torn" \notin Faults
  PROVE  Spec => []Restartable
<1>1. Init => CoversInv /\ Whole
  BY CoversInit DEF Init, Whole, Intact
<1>2. CoversInv /\ Whole /\ [Next]_vars => (CoversInv /\ Whole)'
  BY CoversNext, WholeStep DEF CoversInv, BaseInv
<1>3. CoversInv /\ Whole => Restartable
  <2> SUFFICES ASSUME CoversInv, Whole PROVE Restartable
    OBVIOUS
  <2>1. \A d \in Dates : lines[d] \in Seq(Lines) /\ \A i \in 1 .. Len(lines[d]) : lines[d][i] # Fragment
    BY DEF CoversInv, BaseInv, Typed, Whole, Intact
  <2>2. \A d \in Dates : ~ PartialTail(lines[d])
    BY <2>1 DEF PartialTail
  <2>3. TailOnly
    BY <2>1 DEF TailOnly
  <2> QED BY <2>2, <2>3, TailsNotBlocking
<1> QED BY <1>1, <1>2, <1>3, PTL DEF Spec

\* One process that always recovers also keeps every acknowledged record readable
\* when writes stop half way, but those that a power loss takes with an orphan: a torn
\* line is cut off before anything is appended behind it.
THEOREM OneProcessKeepsAcked ==
  ASSUME \A p, q \in Procs : p = q, Lazy = {}, Scanners = {}, "rewrite" \notin Faults
  PROVE  Spec => []AckedDurable
<1>1. Alone
  BY DEF Alone
<1>2. Init => TornInv /\ SyncedInv
  BY TornInit, SyncedInit
<1>3. TornInv /\ SyncedInv /\ [Next]_vars => (TornInv /\ SyncedInv)'
  BY <1>1, TornNext, SyncedStep
<1>4. TornInv /\ SyncedInv => AckedDurable
  <2> SUFFICES ASSUME TornInv, SyncedInv, NEW r \in Kept PROVE r \in Visible
    BY DEF AckedDurable, AckedReadable, SyncedInv
  <2> DEFINE d == DateOf[r]
  <2>1. d \in Dates /\ r # Fragment
    BY ConstantsAssumption DEF SyncedInv, Typed, Kept
  <2>2. PICK i \in 1 .. stable[d] : i <= Len(lines[d]) /\ lines[d][i] = r
    BY DEF SyncedInv, AckedSynced
  <2>3. stable[d] \in Nat /\ Len(lines[d]) \in Nat
    BY <2>1 DEF SyncedInv, Typed
  <2>4. i \in 1 .. Len(lines[d]) /\ (i = 1 \/ i - 1 \in 1 .. Len(lines[d]) - 1)
    BY <2>2, <2>3
  <2>5. i = 1 \/ lines[d][i-1] # Fragment
    BY <2>1, <2>4 DEF TornInv, TailOnly
  <2> HIDE DEF d
  <2>6. r \in Readable(lines[d])
    BY <2>1, <2>2, <2>4, <2>5 DEF Readable
  <2> QED BY <2>1, <2>6 DEF Visible
<1> QED BY <1>2, <1>3, <1>4, PTL DEF Spec

-----------------------------------------------------------------------------
(* Damage is never rewritten                                                *)

\* Cutting a tail does not repair a line that does not verify.
LEMMA CorruptStays ==
  ASSUME NEW s \in Seq(Lines), Corrupt(s)
  PROVE  Corrupt(Complete(s))
<1>1. PICK i \in 2 .. Len(s) : s[i-1] = Fragment /\ s[i] # Fragment
  BY DEF Corrupt
<1> DEFINE t == Complete(s)
<1>2. /\ t \in Seq(Lines) /\ \A j \in 1 .. Len(t) : t[j] = s[j]
      /\ \A j \in 1 .. Len(s) : s[j] # Fragment => j <= Len(t)
  BY CompletePrefix
<1> HIDE DEF t
<1>3. i \in 2 .. Len(t) /\ t[i] = s[i] /\ t[i-1] = s[i-1]
  <2>1. i <= Len(t) /\ Len(t) \in Nat
    BY <1>1, <1>2
  <2> QED BY <1>2, <2>1
<1>4. Corrupt(t)
  BY <1>1, <1>3 DEF Corrupt
<1> QED BY <1>4 DEF t

\* A shard begins with what it held before.
Extends(t, s) == Len(t) >= Len(s) /\ SubSeq(t, 1, Len(s)) = s

LEMMA ExtendsSelf ==
  ASSUME NEW s \in Seq(Lines)
  PROVE  Extends(s, s) /\ \A x \in Lines : Extends(Append(s, x), s)
<1>1. Extends(s, s)
  BY DEF Extends
<1>2. ASSUME NEW x \in Lines PROVE Extends(Append(s, x), s)
  <2> DEFINE t == Append(s, x)
  <2>1. t \in Seq(Lines) /\ Len(t) = Len(s) + 1 /\ \A i \in 1 .. Len(s) : t[i] = s[i]
    OBVIOUS
  <2> HIDE DEF t
  <2>2. Len(s) \in 0 .. Len(t)
    BY <2>1
  <2>3. SubSeq(t, 1, Len(s)) = s
    BY <2>1, <2>2
  <2>4. Extends(t, s)
    BY <2>1, <2>3 DEF Extends
  <2> QED BY <2>4 DEF t
<1> QED BY <1>1, <1>2

\* No recovery, scan or append of any process changes a byte of a shard that holds
\* a complete line that does not verify, whatever processes, records and failures
\* there are: only a power loss, which drops what was not synced, can.
THEOREM DamageIsKept ==
  ASSUME "power" \notin Faults
  PROVE  Spec => CorruptUntouched
<1> DEFINE Untouched == \A d \in Dates : Corrupt(lines[d]) =>
                          /\ Len(lines'[d]) >= Len(lines[d])
                          /\ SubSeq(lines'[d], 1, Len(lines[d])) = lines[d]
           TypeInv == Typed /\ LockHeld
<1>1. Init => TypeInv
  BY TypeInit
<1>2. TypeInv /\ [Next]_vars => TypeInv'
  BY TypeStep, LockStep
<1>3. TypeInv /\ [Next]_vars => [Untouched]_vars
  <2> SUFFICES ASSUME TypeInv, Next, NEW d \in Dates, Corrupt(lines[d])
               PROVE  Extends(lines'[d], lines[d])
    BY DEF Extends
  <2>1. lines[d] \in Seq(Lines) /\ Extends(lines[d], lines[d])
    BY ExtendsSelf DEF Typed
  <2>2. ~ PowerLoss
    BY DEF PowerLoss, Fault
  <2>3. PICK p \in Procs : Step(p) \/ Recover(p) \/ Open(p) \/ Inventory(p) \/ Request(p) \/ Crash(p)
    BY <2>2 DEF Next
  <2>4. ~ Recover(p)
    <3>1. Corrupt(Complete(lines[d]))
      BY <2>1, CorruptStays
    <3> QED BY <3>1 DEF Recover, ScanInto
  <2>5. CASE lines'[d] = lines[d]
    BY <2>1, <2>5
  <2>6. CASE lines'[d] # lines[d]
    <3>1. op[p] \in Records /\ lines'[d] \in {Append(lines[d], op[p]), WithFragment(lines[d])}
      BY <2>3, <2>4, <2>6, LineStep
    <3>2. lines'[d] \in {lines[d], Append(lines[d], op[p]), Append(lines[d], Fragment)}
      BY <3>1 DEF WithFragment
    <3> QED BY <2>1, <3>1, <3>2, ExtendsSelf DEF Lines
  <2> QED BY <2>5, <2>6
<1> QED BY <1>1, <1>2, <1>3, PTL DEF Spec, CorruptUntouched

-----------------------------------------------------------------------------
(* No process overlooks what another one wrote                              *)

\* An index knows what it follows of the manifest, which is in the manifest.
Indexed ==
  \A p \in Procs : /\ seen[p] \subseteq manifested[p]
                   /\ manifested[p] \subseteq known[p] /\ manifested[p] \subseteq manifest

\* A record that can be read is in the manifest, unless the marker names its shard.
Published == \A r \in Visible : r \in manifest \/ pending.shard = DateOf[r]

\* In the undamaged beginning of a shard no record comes twice, and the manifest
\* holds none before it holds those in front of it.
Clean(d, n) == \A i \in 1 .. n : lines[d][i] # Fragment

Ordered ==
  \A d \in Dates : \A k \in {n \in 1 .. Len(lines[d]) : Clean(d, n)} : \A j \in 1 .. k - 1 :
    /\ lines[d][j] # lines[d][k]
    /\ lines[d][k] \in manifest => lines[d][j] \in manifest

\* From refresh_index to its end an operation follows the manifest to its end; what
\* has to be in the manifest before a step that writes or removes the marker.
Follows(p) ==
  /\ pc[p] \notin {"down", "idle", "refresh"} => manifest \subseteq seen[p]
  /\ pc[p] = "settle" => Readable(lines[pending.shard]) \subseteq manifest
  /\ pc[p] \in {"mark", "write"} =>
       Visible \subseteq manifest /\ op[p] \notin known[p] /\ ~ Conflicts(p, op[p])
  /\ pc[p] \in {"sync", "link", "publish"} => Visible \subseteq manifest \cup {op[p]}

TailsInv == CoversInv /\ Indexed /\ Published /\ Ordered /\ \A p \in Procs : Follows(p)

\* t keeps lines of s where they are, or has a fragment there.
Trims(t, s) == \A i \in 1 .. Len(t) : t[i] = Fragment \/ (i <= Len(s) /\ t[i] = s[i])

LEMMA TrimsReadable ==
  ASSUME NEW s \in Seq(Lines), NEW t \in Seq(Lines), Trims(t, s)
  PROVE  Readable(t) \subseteq Readable(s)
<1> SUFFICES ASSUME NEW i \in 1 .. Len(t), t[i] # Fragment, i = 1 \/ t[i-1] # Fragment
             PROVE  t[i] \in Readable(s)
  BY DEF Readable
<1>1. i \in 1 .. Len(s) /\ t[i] = s[i] /\ Len(s) \in Nat
  BY DEF Trims
<1>2. i = 1 \/ s[i-1] # Fragment
  <2>1. i = 1 \/ i - 1 \in 1 .. Len(t)
    OBVIOUS
  <2> QED BY <1>1, <2>1 DEF Trims
<1> QED BY <1>1, <1>2 DEF Readable

LEMMA WithFragmentTrims ==
  ASSUME NEW s \in Seq(Lines)
  PROVE  Trims(WithFragment(s), s) /\ Trims(Complete(s), s) /\ Trims(s, s)
<1>1. Trims(WithFragment(s), s)
  <2>1. /\ WithFragment(s) \in Seq(Lines)
        /\ \A i \in 1 .. Len(s) : WithFragment(s)[i] = s[i]
        /\ \A i \in 1 .. Len(WithFragment(s)) : i > Len(s) => WithFragment(s)[i] = Fragment
    BY WithFragmentAppends
  <2> HIDE DEF WithFragment
  <2>2. ASSUME NEW i \in 1 .. Len(WithFragment(s))
        PROVE  i > Len(s) \/ i \in 1 .. Len(s)
    BY <2>1
  <2> QED BY <2>1, <2>2 DEF Trims
<1>2. Trims(Complete(s), s)
  <2>1. /\ Complete(s) \in Seq(Lines) /\ Len(Complete(s)) <= Len(s)
        /\ \A i \in 1 .. Len(Complete(s)) : Complete(s)[i] = s[i]
    BY CompletePrefix
  <2> HIDE DEF Complete
  <2> QED BY <2>1 DEF Trims
<1> QED BY <1>1, <1>2 DEF Trims

\* What a write adds to the records that can be read is at most its own.
LEMMA AppendReads ==
  ASSUME NEW s \in Seq(Lines), NEW x \in Lines
  PROVE  Readable(Append(s, x)) \subseteq Readable(s) \cup ({x} \ {Fragment})
<1> DEFINE t == Append(s, x)
<1>1. /\ Len(t) = Len(s) + 1 /\ t[Len(s) + 1] = x /\ Len(s) \in Nat
      /\ \A j \in 1 .. Len(s) : t[j] = s[j]
  OBVIOUS
<1> HIDE DEF t
<1>2. ASSUME NEW i \in 1 .. Len(t), t[i] # Fragment, i = 1 \/ t[i-1] # Fragment
      PROVE  t[i] \in Readable(s) \cup ({x} \ {Fragment})
  <2>1. CASE i = Len(s) + 1
    BY <1>1, <1>2, <2>1
  <2>2. CASE i # Len(s) + 1
    <3>1. i \in 1 .. Len(s) /\ (i = 1 \/ i - 1 \in 1 .. Len(s))
      BY <1>1, <2>2
    <3>2. s[i] # Fragment /\ (i = 1 \/ s[i-1] # Fragment)
      BY <1>1, <1>2, <3>1
    <3> QED BY <1>1, <3>1, <3>2 DEF Readable
  <2> QED BY <2>1, <2>2
<1>3. Readable(t) \subseteq Readable(s) \cup ({x} \ {Fragment})
  BY <1>2 DEF Readable
<1> QED BY <1>3 DEF t

\* In a shard that a scan accepts, every record is read.
LEMMA OnDiskReadable ==
  ASSUME NEW s \in Seq(Lines), ~ Corrupt(s), NEW i \in 1 .. Len(s), s[i] # Fragment
  PROVE  s[i] \in Readable(s)
<1>1. i = 1 \/ (i \in 2 .. Len(s))
  OBVIOUS
<1> QED BY <1>1 DEF Corrupt, Readable

LEMMA CleanReadable ==
  ASSUME NEW s \in Seq(Lines), NEW k \in 1 .. Len(s), \A i \in 1 .. k : s[i] # Fragment, NEW j \in 1 .. k
  PROVE  s[j] \in Readable(s)
<1>1. j \in 1 .. Len(s) /\ s[j] # Fragment /\ (j = 1 \/ j - 1 \in 1 .. k)
  OBVIOUS
<1>2. j = 1 \/ s[j-1] # Fragment
  BY <1>1
<1> QED BY <1>1, <1>2 DEF Readable

\* While nothing is appended, the undamaged beginning of a shard is what it was.
LEMMA TrimsClean ==
  ASSUME NEW s \in Seq(Lines), NEW t \in Seq(Lines), Trims(t, s),
         NEW k \in 1 .. Len(t), \A i \in 1 .. k : t[i] # Fragment
  PROVE  /\ k \in 1 .. Len(s)
         /\ \A i \in 1 .. k : i \in 1 .. Len(s) /\ t[i] = s[i] /\ s[i] # Fragment
<1>1. ASSUME NEW i \in 1 .. k PROVE i \in 1 .. Len(s) /\ t[i] = s[i] /\ s[i] # Fragment
  <2>1. i \in 1 .. Len(t) /\ t[i] # Fragment
    OBVIOUS
  <2> QED BY <2>1 DEF Trims
<1> QED BY <1>1

LEMMA OrderedAt ==
  ASSUME Ordered, NEW d \in Dates, NEW k \in 1 .. Len(lines[d]), \A i \in 1 .. k : lines[d][i] # Fragment,
         NEW j \in 1 .. k - 1
  PROVE  /\ lines[d][j] # lines[d][k]
         /\ lines[d][k] \in manifest => lines[d][j] \in manifest
  BY DEF Ordered, Clean

\* What a step of p has to establish for the invariant to hold again.
IndexedOf(p) == /\ seen[p] \subseteq manifested[p]
                /\ manifested[p] \subseteq known[p] /\ manifested[p] \subseteq manifest

TailsStep(p) ==
  /\ IndexedOf(p)' /\ Follows(p)' /\ Published' /\ Ordered'
  /\ \A q \in Procs \ {p} : manifested[q] \subseteq manifest'

\* A step of one process leaves the index of the others alone.
LEMMA IndexFrame ==
  ASSUME Typed, NEW p \in Procs,
         Step(p) \/ Recover(p) \/ Open(p) \/ Inventory(p) \/ Request(p) \/ Crash(p),
         NEW q \in Procs, q # p
  PROVE  known'[q] = known[q] /\ manifested'[q] = manifested[q] /\ seen'[q] = seen[q]
<1> DEFINE Same == known'[q] = known[q] /\ manifested'[q] = manifested[q] /\ seen'[q] = seen[q]
<1>1. ASSUME NEW ln, ScanInto(p, ln) PROVE Same
  BY <1>1 DEF ScanInto, Typed
<1>2. ASSUME NEW d, RefreshShard(p, d) \/ RefreshShardFails(p, d) PROVE Same
  <2>1. CASE RefreshShard(p, d)
    BY <2>1 DEF RefreshShard, Typed
  <2>2. CASE RefreshShardFails(p, d)
    BY <2>2 DEF RefreshShardFails, Typed
  <2> QED BY <1>2, <2>1, <2>2
<1>3. ASSUME UNCHANGED <<known, manifested, seen>> PROVE Same
  BY <1>3
<1>4. CASE Recover(p) \/ Inventory(p) \/ Rescan(p) \/ RescanFails(p)
  BY <1>1, <1>3, <1>4 DEF Recover, Inventory, Rescan, RescanFails, ScanAll, index
<1>5. CASE SettlePending(p) \/ RefreshTarget(p)
  BY <1>2, <1>3, <1>5 DEF SettlePending, RefreshTarget, index
<1>6. CASE IntegrateManifest(p)
  BY <1>6 DEF IntegrateManifest, Typed
<1>7. CASE Write(p)
  BY <1>7 DEF Write, Typed
<1>8. CASE Publish(p)
  BY <1>8 DEF Publish, Typed
<1>9. CASE Crash(p)
  <2>1. Forget({p})
    BY <1>9 DEF Crash
  <2> QED BY <2>1 DEF Forget
<1>10. CASE FinishSettling(p) \/ Reject(p) \/ Resync(p) \/ Create(p) \/ Prepare(p) \/ Sync(p)
            \/ Link(p) \/ Open(p) \/ Request(p)
  BY <1>3, <1>10 DEF FinishSettling, Reject, Resync, Create, Prepare, Sync, Link, Open, Request, index
<1> QED BY <1>4, <1>5, <1>6, <1>7, <1>8, <1>9, <1>10 DEF Step

LEMMA OthersFollow ==
  ASSUME TailsInv, NEW p \in Procs,
         Step(p) \/ Recover(p) \/ Open(p) \/ Inventory(p) \/ Request(p) \/ Crash(p),
         NEW q \in Procs, q # p
  PROVE  Follows(q)'
<1> SUFFICES ASSUME pc'[q] \notin {"down", "idle", "refresh"} PROVE Follows(q)'
  BY DEF Follows
<1>1. Typed /\ LockHeld /\ Follows(q)
  BY DEF TailsInv, CoversInv, BaseInv
<1>2. ~ (Step(p) \/ Recover(p) \/ Inventory(p) \/ Request(p)) /\ pc'[q] = pc[q] /\ op'[q] = op[q]
  BY <1>1, OthersFrame
<1>3. known'[q] = known[q] /\ seen'[q] = seen[q]
  BY <1>1, IndexFrame
<1>4. pc[p] # "write"
  BY <1>1, <1>2 DEF LockHeld, Busy
<1>5. UNCHANGED <<lines, manifest, pending>>
  BY <1>2, <1>4 DEF Open, Crash, At, disk
<1>6. Visible' = Visible
  BY <1>5 DEF Visible
<1> QED BY <1>1, <1>2, <1>3, <1>5, <1>6 DEF Follows, Conflicts

LEMMA TailsFromStep ==
  ASSUME TailsInv, CoversInv', NEW p \in Procs, TailsStep(p),
         Step(p) \/ Recover(p) \/ Open(p) \/ Inventory(p) \/ Request(p) \/ Crash(p)
  PROVE  TailsInv'
<1>1. Typed /\ Indexed
  BY DEF TailsInv, CoversInv, BaseInv
<1>2. ASSUME NEW q \in Procs PROVE IndexedOf(q)' /\ Follows(q)'
  <2>1. CASE q = p
    BY <2>1 DEF TailsStep
  <2>2. CASE q # p
    <3>1. known'[q] = known[q] /\ manifested'[q] = manifested[q] /\ seen'[q] = seen[q]
      BY <1>1, <2>2, IndexFrame
    <3>2. manifested[q] \subseteq manifest'
      BY <2>2 DEF TailsStep
    <3> QED BY <1>1, <2>2, <3>1, <3>2, OthersFollow DEF IndexedOf, Indexed
  <2> QED BY <2>1, <2>2
<1> QED BY <1>2 DEF TailsInv, TailsStep, Indexed, IndexedOf

\* Published and Ordered survive a step that leaves the manifest and the lines alone,
\* one that appends no record, and one that publishes all that can be read.
LEMMA QuietTails ==
  ASSUME TailsInv, NEW p \in Procs, UNCHANGED <<lines, manifest>>, IndexedOf(p)', Follows(p)',
         pending' = pending \/ Visible \subseteq manifest
  PROVE  TailsStep(p)
<1>1. Visible' = Visible
  BY DEF Visible
<1>2. Published'
  BY <1>1 DEF TailsInv, Published
<1>3. Ordered'
  BY DEF TailsInv, Ordered, Clean
<1>4. \A q \in Procs \ {p} : manifested[q] \subseteq manifest'
  BY DEF TailsInv, Indexed
<1> QED BY <1>2, <1>3, <1>4 DEF TailsStep

LEMMA TrimTails ==
  ASSUME Typed, Typed', Published, Ordered, \A d \in Dates : Trims(lines'[d], lines[d]),
         UNCHANGED <<manifest, pending>>
  PROVE  Published' /\ Ordered' /\ Visible' \subseteq Visible
<1>1. \A d \in Dates : lines[d] \in Seq(Lines) /\ lines'[d] \in Seq(Lines)
  BY DEF Typed
<1>2. Visible' \subseteq Visible
  <2>1. \A d \in Dates : Readable(lines'[d]) \subseteq Readable(lines[d])
    BY <1>1, TrimsReadable
  <2> QED BY <2>1 DEF Visible
<1>3. Ordered'
  <2> SUFFICES ASSUME NEW d \in Dates, NEW k \in 1 .. Len(lines'[d]),
                      \A i \in 1 .. k : lines'[d][i] # Fragment, NEW j \in 1 .. k - 1
               PROVE  /\ lines'[d][j] # lines'[d][k]
                      /\ lines'[d][k] \in manifest => lines'[d][j] \in manifest
    BY DEF Ordered, Clean
  <2>1. /\ k \in 1 .. Len(lines[d])
        /\ \A i \in 1 .. k : lines'[d][i] = lines[d][i] /\ lines[d][i] # Fragment
    BY <1>1, TrimsClean
  <2>2. j \in 1 .. k /\ k \in 1 .. k
    OBVIOUS
  <2> QED BY <2>1, <2>2, OrderedAt
<1> QED BY <1>2, <1>3 DEF Published

LEMMA PublishedOrdered ==
  ASSUME TailsInv, Typed, UNCHANGED lines, Visible \subseteq manifest'
  PROVE  Published' /\ Ordered'
<1>1. Visible' = Visible
  BY DEF Visible
<1>2. Ordered'
  <2> SUFFICES ASSUME NEW d \in Dates, NEW k \in 1 .. Len(lines[d]),
                      \A i \in 1 .. k : lines[d][i] # Fragment, NEW j \in 1 .. k - 1
               PROVE  lines[d][j] # lines[d][k] /\ lines[d][j] \in manifest'
    BY DEF Ordered, Clean
  <2>1. lines[d] \in Seq(Lines) /\ j \in 1 .. k
    BY DEF Typed
  <2>2. lines[d][j] \in Visible
    BY <2>1, CleanReadable DEF Visible
  <2> QED BY <2>2, OrderedAt DEF TailsInv
<1> QED BY <1>1, <1>2 DEF Published

LEMMA ScanTails ==
  ASSUME TailsInv, CoversInv', "rewrite" \notin Faults, NEW p \in Procs, NEW ln,
         ScanInto(p, ln), lines' = ln, \A d \in Dates : Trims(ln[d], lines[d]),
         pc'[p] \in {"idle", "pending"}
  PROVE  TailsStep(p)
<1>1. Typed /\ Typed' /\ Ordered /\ Indexed
  BY DEF TailsInv, CoversInv, BaseInv
<1>2. /\ manifest' = Visible' /\ known'[p] = Visible' /\ manifested'[p] = Visible' /\ seen'[p] = Visible'
      /\ \A d \in Dates : ~ Corrupt(lines'[d])
      /\ \A q \in Procs \ {p} : known'[q] = known[q]
  BY <1>1 DEF ScanInto, Fault, Visible, Typed
<1>3. IndexedOf(p)' /\ Follows(p)' /\ Published'
  BY <1>2 DEF IndexedOf, Follows, Published
<1>4. ASSUME NEW q \in Procs \ {p}, NEW r \in manifested[q] PROVE r \in manifest'
  <2>1. r \in known'[q] /\ r \in Records /\ r # Fragment /\ DateOf[r] \in Dates
    BY <1>1, <1>2, ConstantsAssumption DEF Indexed, Typed
  <2>2. PICK i \in 1 .. Len(lines'[DateOf[r]]) : lines'[DateOf[r]][i] = r
    BY <2>1 DEF CoversInv, BaseInv, KnownOnDisk, OnDisk, Within
  <2>3. lines'[DateOf[r]] \in Seq(Lines)
    BY <1>1, <2>1 DEF Typed
  <2>4. r \in Readable(lines'[DateOf[r]])
    BY <1>2, <2>1, <2>2, <2>3, OnDiskReadable
  <2> QED BY <1>2, <2>1, <2>4 DEF Visible
<1>5. Ordered'
  <2> SUFFICES ASSUME NEW d \in Dates, NEW k \in 1 .. Len(lines'[d]),
                      \A i \in 1 .. k : lines'[d][i] # Fragment, NEW j \in 1 .. k - 1
               PROVE  lines'[d][j] # lines'[d][k] /\ lines'[d][j] \in manifest'
    BY DEF Ordered, Clean
  <2>1. lines[d] \in Seq(Lines) /\ lines'[d] \in Seq(Lines) /\ j \in 1 .. k /\ k \in 1 .. k
    BY <1>1 DEF Typed
  <2>2. lines'[d][j] \in Readable(lines'[d])
    BY <2>1, CleanReadable
  <2>3. /\ k \in 1 .. Len(lines[d])
        /\ \A i \in 1 .. k : lines'[d][i] = lines[d][i] /\ lines[d][i] # Fragment
    BY <2>1, TrimsClean
  <2>4. lines'[d][j] # lines'[d][k]
    BY <1>1, <2>1, <2>3, OrderedAt
  <2> QED BY <1>2, <2>2, <2>4 DEF Visible
<1> QED BY <1>3, <1>4, <1>5 DEF TailsStep

\* A process in step knows no more of the manifest than there is, and no less.
LEMMA InStep ==
  ASSUME TailsInv, NEW p \in Procs, pc[p] \notin {"down", "idle", "refresh"}
  PROVE  manifested[p] = manifest /\ seen[p] = manifest /\ manifest \subseteq known[p]
  BY DEF TailsInv, Indexed, Follows

LEMMA RefreshTails ==
  ASSUME TailsInv, NEW p \in Procs, pc[p] \in {"pending", "target"}, NEW d \in Dates,
         RefreshShard(p, d), UNCHANGED <<lines, pending>>
  PROVE  /\ IndexedOf(p)' /\ Published' /\ Ordered'
         /\ \A q \in Procs \ {p} : manifested[q] \subseteq manifest'
         /\ manifest' \subseteq seen'[p]
         /\ Readable(lines[d]) \subseteq manifest'
<1> DEFINE content == Readable(lines[d])
           new == content \ manifested[p]
<1>1. Typed /\ Ordered /\ Published /\ Filed /\ KnownOnDisk
  BY DEF TailsInv, CoversInv, BaseInv
<1>2. manifested[p] = manifest /\ seen[p] = manifest /\ manifest \subseteq known[p]
  BY InStep
<1>3. /\ known'[p] = {r \in known[p] : DateOf[r] # d} \cup content
      /\ manifested'[p] = manifested[p] \cup new /\ manifest' = manifest \cup new
      /\ seen'[p] = IF new = {} THEN seen[p] ELSE manifest'
      /\ Intact(lines[d])
  BY <1>1 DEF RefreshShard, Typed
<1>4. content \subseteq manifest' /\ manifest' = manifest \cup content /\ manifest' = seen'[p]
      /\ manifested'[p] = manifest'
  BY <1>2, <1>3
<1>5. content \subseteq Visible
  BY DEF Visible
<1>6. ASSUME NEW r \in manifest PROVE r \in known'[p]
  <2>1. r \in known[p] /\ r \in Records /\ r # Fragment
    BY <1>1, <1>2, ConstantsAssumption DEF Typed
  <2>2. CASE DateOf[r] = d
    <3>1. PICK i \in 1 .. Len(lines[d]) : lines[d][i] = r
      BY <1>1, <2>1, <2>2 DEF KnownOnDisk, OnDisk, Within
    <3>2. lines[d] \in Seq(Lines)
      BY <1>1 DEF Typed
    <3>3. r \in content
      BY <1>3, <3>1, <3>2, CleanReadable DEF Intact
    <3> QED BY <1>3, <3>3
  <2> QED BY <1>3, <2>1, <2>2
<1>7. IndexedOf(p)'
  <2>1. manifest' \subseteq known'[p]
    BY <1>3, <1>4, <1>6
  <2> QED BY <1>4, <2>1 DEF IndexedOf
<1>8. Published'
  BY <1>1, <1>4 DEF Published, Visible
<1>9. Ordered'
  <2> SUFFICES ASSUME NEW e \in Dates, NEW k \in 1 .. Len(lines[e]),
                      \A i \in 1 .. k : lines[e][i] # Fragment, NEW j \in 1 .. k - 1
               PROVE  /\ lines[e][j] # lines[e][k]
                      /\ lines[e][k] \in manifest' => lines[e][j] \in manifest'
    BY DEF Ordered, Clean
  <2>1. lines[e] \in Seq(Lines) /\ j \in 1 .. k
    BY <1>1 DEF Typed
  <2>2. /\ lines[e][j] # lines[e][k]
        /\ lines[e][k] \in manifest => lines[e][j] \in manifest
    BY <1>1, OrderedAt
  <2>3. CASE e = d
    BY <1>4, <2>1, <2>2, <2>3, CleanReadable
  <2>4. CASE e # d
    <3>1. DateOf[lines[e][k]] = e
      BY <1>1, <2>1 DEF Filed
    <3>2. lines[e][k] \notin content
      BY <1>1, <2>4, <3>1, ReadableOnDisk
    <3> QED BY <1>4, <2>2, <3>2
  <2> QED BY <2>3, <2>4
<1>10. \A q \in Procs \ {p} : manifested[q] \subseteq manifest'
  BY <1>4 DEF TailsInv, Indexed
<1> QED BY <1>4, <1>7, <1>8, <1>9, <1>10

LEMMA RefreshFailsTails ==
  ASSUME TailsInv, NEW p \in Procs, pc[p] \in {"pending", "target"}, NEW d \in Dates,
         RefreshShardFails(p, d), UNCHANGED <<lines, pending>>, pc'[p] = "idle"
  PROVE  TailsStep(p)
<1>1. Typed /\ Ordered /\ Published /\ Filed /\ KnownOnDisk
      /\ lines[d] \in Seq(Lines) /\ Len(lines[d]) \in Nat
  BY DEF TailsInv, CoversInv, BaseInv, Typed
<1>2. manifested[p] = manifest /\ seen[p] = manifest /\ manifest \subseteq known[p]
  BY InStep
<1>3. PICK i \in 1 .. Len(lines[d]) :
        LET before == {lines[d][j] : j \in 1 .. i-1}
            new == before \ manifested[p]
        IN /\ lines[d][i] \notin manifested[p]
           /\ known' = [known EXCEPT ![p] = {r \in @ : DateOf[r] # d} \cup before \cup {lines[d][i]}]
           /\ manifested' = [manifested EXCEPT ![p] = @ \cup new]
           /\ \E torn \in SUBSET {Fragment} : manifest' = manifest \cup new \cup torn
           /\ seen'  = [seen EXCEPT ![p] = IF new = {} THEN @ ELSE manifest \cup new]
  BY DEF RefreshShardFails
<1> DEFINE before == {lines[d][j] : j \in 1 .. i-1}
           new == before \ manifested[p]
<1>4. PICK torn \in SUBSET {Fragment} : manifest' = manifest \cup new \cup torn
  BY <1>3
<1>5. /\ lines[d][i] \notin manifest
      /\ known'[p] = {r \in known[p] : DateOf[r] # d} \cup before \cup {lines[d][i]}
      /\ manifested'[p] = manifest \cup new
      /\ seen'[p] = IF new = {} THEN seen[p] ELSE manifest \cup new
  BY <1>1, <1>2, <1>3 DEF Typed
<1>6. Intact(lines[d]) /\ \A k \in 1 .. Len(lines[d]) : lines[d][k] # Fragment
  BY DEF RefreshShardFails, Intact
<1>7. ASSUME NEW k \in 1 .. Len(lines[d]), lines[d][k] \in manifest PROVE k < i
  <2>1. k # i
    BY <1>5, <1>7
  <2>2. ASSUME i < k PROVE FALSE
    <3>1. i \in 1 .. k - 1
      BY <1>1, <2>2
    <3>2. \A m \in 1 .. k : lines[d][m] # Fragment
      BY <1>1, <1>6
    <3> QED BY <1>1, <1>5, <1>7, <3>1, <3>2, OrderedAt
  <2> QED BY <1>1, <2>1, <2>2
<1>8. ASSUME NEW r \in manifest PROVE r \in known'[p]
  <2>1. r \in known[p] /\ r \in Records
    BY <1>1, <1>2, <1>8 DEF Typed
  <2>2. CASE DateOf[r] = d
    <3>1. PICK k \in 1 .. Len(lines[d]) : lines[d][k] = r
      BY <1>1, <2>1, <2>2 DEF KnownOnDisk, OnDisk, Within
    <3>2. k \in 1 .. i - 1
      BY <1>1, <1>7, <1>8, <3>1
    <3> QED BY <1>5, <3>1, <3>2
  <2> QED BY <1>5, <2>1, <2>2
<1>9. IndexedOf(p)'
  <2> HIDE DEF before
  <2>1. manifested'[p] \subseteq known'[p]
    BY <1>5, <1>8
  <2>2. seen'[p] \subseteq manifested'[p] /\ manifested'[p] \subseteq manifest'
    BY <1>2, <1>4, <1>5
  <2> QED BY <2>1, <2>2 DEF IndexedOf
<1>10. Follows(p)'
  BY DEF Follows
<1>11. Published'
  BY <1>1, <1>4 DEF Published, Visible
<1>12. ASSUME NEW k \in 1 .. Len(lines[d]), lines[d][k] \in manifest' PROVE k < i
  <2>1. lines[d][k] \in manifest \/ lines[d][k] \in before
    BY <1>4, <1>6, <1>12
  <2>2. ASSUME NEW m \in 1 .. i - 1, lines[d][k] = lines[d][m], i <= k PROVE FALSE
    <3>1. m \in 1 .. k - 1 /\ \A n \in 1 .. k : lines[d][n] # Fragment
      BY <1>1, <1>6, <2>2
    <3> QED BY <1>1, <2>2, <3>1, OrderedAt
  <2> QED BY <1>1, <1>7, <2>1, <2>2
<1>13. Ordered'
  <2> SUFFICES ASSUME NEW e \in Dates, NEW k \in 1 .. Len(lines[e]),
                      \A n \in 1 .. k : lines[e][n] # Fragment, NEW j \in 1 .. k - 1
               PROVE  /\ lines[e][j] # lines[e][k]
                      /\ lines[e][k] \in manifest' => lines[e][j] \in manifest'
    BY DEF Ordered, Clean
  <2>1. /\ lines[e][j] # lines[e][k]
        /\ lines[e][k] \in manifest => lines[e][j] \in manifest
    BY <1>1, OrderedAt
  <2>2. CASE e = d
    <3>1. lines[d][k] \in manifest' => j \in 1 .. i - 1
      BY <1>1, <1>12, <2>2
    <3> QED BY <1>2, <1>4, <2>1, <2>2, <3>1
  <2>3. CASE e # d
    <3>1. DateOf[lines[e][k]] = e /\ lines[e][k] # Fragment
      <4>1. k \in 1 .. k
        OBVIOUS
      <4> QED BY <1>1, <4>1 DEF Filed
    <3>2. \A m \in 1 .. i - 1 : DateOf[lines[d][m]] = d
      <4> SUFFICES ASSUME NEW m \in 1 .. i - 1 PROVE DateOf[lines[d][m]] = d
        OBVIOUS
      <4>1. m \in 1 .. Len(lines[d])
        BY <1>1
      <4> QED BY <1>1, <1>6, <4>1 DEF Filed
    <3>3. lines[e][k] \notin before
      BY <2>3, <3>1, <3>2
    <3> QED BY <1>4, <2>1, <3>1, <3>3
  <2> QED BY <2>2, <2>3
<1>14. \A q \in Procs \ {p} : manifested[q] \subseteq manifest'
  BY <1>4 DEF TailsInv, Indexed
<1> QED BY <1>9, <1>10, <1>11, <1>13, <1>14 DEF TailsStep

LEMMA WriteTails ==
  ASSUME TailsInv, Typed', NEW p \in Procs, Write(p)
  PROVE  TailsStep(p)
<1> DEFINE r == op[p]
           d == DateOf[r]
<1>1. /\ Typed /\ LockHeld /\ Ordered /\ Published
      /\ pc[p] = "write" /\ r \in Records /\ d \in Dates /\ r # Fragment
      /\ lines[d] \in Seq(Lines) /\ Len(lines[d]) \in Nat
  <2>1. Typed /\ LockHeld /\ Ordered /\ Published /\ pc[p] = "write"
    BY DEF Write, At, TailsInv, CoversInv, BaseInv
  <2>2. r \in Records
    BY <2>1 DEF LockHeld, Busy
  <2>3. d \in Dates /\ r # Fragment
    BY <2>2, ConstantsAssumption
  <2> HIDE DEF d
  <2>4. lines[d] \in Seq(Lines)
    BY <2>1, <2>3 DEF Typed
  <2> QED BY <2>1, <2>2, <2>3, <2>4
<1>2. /\ UNCHANGED <<manifest, pending, manifested, seen>> /\ pending.shard = d
      /\ manifest = seen[p] /\ Visible \subseteq manifest /\ r \notin known[p] /\ manifest \subseteq known[p]
  <2>1. UNCHANGED <<manifest, pending, manifested, seen>>
    BY DEF Write
  <2>2. pending.shard = d
    BY <1>1 DEF TailsInv, CoversInv, MarkerSteps
  <2>3. Visible \subseteq manifest /\ r \notin known[p]
    BY <1>1 DEF TailsInv, Follows
  <2>4. manifest = seen[p] /\ manifest \subseteq known[p]
    BY <1>1, InStep
  <2> QED BY <2>1, <2>2, <2>3, <2>4
<1>3. \A q \in Procs \ {p} : manifested[q] \subseteq manifest'
  BY <1>2 DEF TailsInv, Indexed
<1>4. CASE /\ lines' = [lines EXCEPT ![d] = Append(@, r)]
           /\ known' = [known EXCEPT ![p] = @ \cup {r}]
           /\ Goto(p, "sync") /\ Continue
  <2>1. lines'[d] = Append(lines[d], r) /\ \A e \in Dates \ {d} : lines'[e] = lines[e]
    BY <1>1, <1>4 DEF Typed
  <2>2. pc'[p] = "sync" /\ op' = op /\ known'[p] = known[p] \cup {r}
    BY <1>1, <1>4 DEF Goto, Continue, Typed
  <2>3. Visible' \subseteq Visible \cup {r}
    <3>1. Readable(lines'[d]) \subseteq Readable(lines[d]) \cup {r}
      BY <1>1, <2>1, AppendReads DEF Lines
    <3>2. ASSUME NEW e \in Dates PROVE Readable(lines'[e]) \subseteq Readable(lines[e]) \cup {r}
      <4>1. e # d => lines'[e] = lines[e]
        BY <2>1
      <4> QED BY <3>1, <4>1
    <3> QED BY <3>2 DEF Visible
  <2>4. Published'
    BY <1>1, <1>2, <2>3 DEF Published
  <2>5. Follows(p)' /\ IndexedOf(p)'
    BY <1>2, <2>2, <2>3 DEF Follows, IndexedOf, TailsInv, Indexed
  <2>6. Ordered'
    <3> SUFFICES ASSUME NEW e \in Dates, NEW k \in 1 .. Len(lines'[e]),
                        \A i \in 1 .. k : lines'[e][i] # Fragment, NEW j \in 1 .. k - 1
                 PROVE  /\ lines'[e][j] # lines'[e][k]
                        /\ lines'[e][k] \in manifest => lines'[e][j] \in manifest
      BY <1>2 DEF Ordered, Clean
    <3>1. CASE e # d
      BY <1>1, <2>1, <3>1, OrderedAt
    <3>2. CASE e = d /\ k <= Len(lines[d])
      <4>1. k \in 1 .. Len(lines[d]) /\ \A i \in 1 .. k : lines'[d][i] = lines[d][i]
        BY <1>1, <2>1, <3>2
      <4>2. j \in 1 .. k /\ k \in 1 .. k /\ \A i \in 1 .. k : lines[d][i] # Fragment
        BY <3>2, <4>1
      <4> QED BY <1>1, <3>2, <4>1, <4>2, OrderedAt
    <3>3. CASE e = d /\ k > Len(lines[d])
      <4>1. /\ k = Len(lines[d]) + 1 /\ lines'[d][k] = r
            /\ \A i \in 1 .. Len(lines[d]) : lines'[d][i] = lines[d][i] /\ i \in 1 .. k
        BY <1>1, <2>1, <3>3
      <4>2. j \in 1 .. Len(lines[d]) /\ \A i \in 1 .. Len(lines[d]) : lines[d][i] # Fragment
        BY <1>1, <3>3, <4>1
      <4>3. lines[d][j] \in Readable(lines[d])
        BY <1>1, <4>2, CleanReadable
      <4>4. lines[d][j] \in manifest
        BY <1>1, <1>2, <4>3 DEF Visible
      <4> QED BY <1>2, <3>3, <4>1, <4>2, <4>4
    <3>4. k \in Nat
      OBVIOUS
    <3> QED BY <1>1, <3>1, <3>2, <3>3, <3>4
  <2> QED BY <1>3, <2>4, <2>5, <2>6 DEF TailsStep
<1>5. CASE lines' = [lines EXCEPT ![d] = WithFragment(@)] /\ Release(p) /\ UNCHANGED known
  <2>1. \A e \in Dates : lines'[e] = lines[e] \/ lines'[e] = WithFragment(lines[e])
    BY <1>1, <1>5 DEF Typed
  <2>2. \A e \in Dates : Trims(lines'[e], lines[e])
    BY <1>1, <2>1, WithFragmentTrims DEF Typed
  <2>3. pc'[p] = "idle"
    BY <1>1, <1>5 DEF Release, Goto, Typed
  <2>4. Published' /\ Ordered'
    BY <1>1, <1>2, <2>2, TrimTails
  <2>5. Follows(p)' /\ IndexedOf(p)'
    BY <1>2, <1>5, <2>3 DEF Follows, IndexedOf, TailsInv, Indexed
  <2> QED BY <1>3, <2>4, <2>5 DEF TailsStep
<1> QED BY <1>4, <1>5 DEF Write

LEMMA PublishTails ==
  ASSUME TailsInv, NEW p \in Procs, Publish(p)
  PROVE  TailsStep(p)
<1> DEFINE r == op[p]
<1>1. /\ Typed /\ LockHeld /\ Ordered /\ Published
      /\ pc[p] = "publish" /\ r \in Records
  BY DEF Publish, At, TailsInv, CoversInv, BaseInv, LockHeld, Busy
<1>2. /\ UNCHANGED <<lines, known>> /\ Visible \subseteq manifest \cup {r}
      /\ manifest = seen[p] /\ manifested[p] = manifest /\ manifest \cup {r} \subseteq known[p]
  <2>1. UNCHANGED <<lines, known>> /\ Visible \subseteq manifest \cup {r}
    BY <1>1 DEF Publish, disk, TailsInv, Follows
  <2>2. r \in known[p]
    BY <1>1 DEF TailsInv, CoversInv, BaseInv, AppendProgress
  <2>3. manifest = seen[p] /\ manifested[p] = manifest /\ manifest \subseteq known[p]
    BY <1>1, InStep
  <2> QED BY <2>1, <2>2, <2>3
<1>3. pc'[p] = "idle"
  BY <1>1 DEF Publish, Release, Goto, Typed
<1>4. Follows(p)'
  BY <1>3 DEF Follows
<1>5. CASE /\ manifest' = manifest \cup {r}
           /\ manifested' = [manifested EXCEPT ![p] = @ \cup {r}]
           /\ seen' = [seen EXCEPT ![p] = manifest']
  <2>1. IndexedOf(p)'
    <3>1. manifested'[p] = manifest \cup {r} /\ seen'[p] = manifest \cup {r}
      BY <1>1, <1>2, <1>5 DEF Typed
    <3> QED BY <1>2, <1>5, <3>1 DEF IndexedOf
  <2>2. Published' /\ Ordered'
    BY <1>1, <1>2, <1>5, PublishedOrdered
  <2>3. \A q \in Procs \ {p} : manifested[q] \subseteq manifest'
    BY <1>5 DEF TailsInv, Indexed
  <2> QED BY <1>4, <2>1, <2>2, <2>3 DEF TailsStep
<1>6. CASE /\ \E torn \in SUBSET {Fragment} : manifest' = manifest \cup torn
           /\ UNCHANGED <<pending, manifested, seen>>
  <2>1. manifest \subseteq manifest' /\ \A x \in manifest' : x = Fragment \/ x \in manifest
    BY <1>6
  <2>2. IndexedOf(p)' /\ \A q \in Procs \ {p} : manifested[q] \subseteq manifest'
    BY <1>2, <1>6, <2>1 DEF IndexedOf, TailsInv, Indexed
  <2>3. Published'
    BY <1>1, <1>2, <1>6, <2>1 DEF Published, Visible
  <2>4. Ordered'
    <3> SUFFICES ASSUME NEW d \in Dates, NEW k \in 1 .. Len(lines[d]),
                        \A i \in 1 .. k : lines[d][i] # Fragment, NEW j \in 1 .. k - 1
                 PROVE  /\ lines[d][j] # lines[d][k]
                        /\ lines[d][k] \in manifest' => lines[d][j] \in manifest'
      BY <1>2 DEF Ordered, Clean
    <3>1. k \in 1 .. k
      OBVIOUS
    <3> QED BY <1>1, <2>1, <3>1, OrderedAt
  <2> QED BY <1>4, <2>2, <2>3, <2>4 DEF TailsStep
<1> QED BY <1>5, <1>6 DEF Publish

\* The marker never remembers more than a shard holds, so no scan fails on that account.
LEMMA MarkerFitsLines == CoversInv => MarkerFits(lines)
<1> SUFFICES ASSUME CoversInv, pending.shard \in exists
             PROVE  Len(lines[pending.shard]) >= pending.prior
  BY DEF MarkerFits
<1>1. pending.shard \in Dates /\ pending.prior \in Nat /\ pending.prior <= stable[pending.shard]
  BY DEF CoversInv, BaseInv, Typed, Marker, MarkerCoversUnsynced
<1>2. /\ stable[pending.shard] \in Nat /\ Len(lines[pending.shard]) \in Nat
      /\ stable[pending.shard] <= Len(lines[pending.shard])
  BY <1>1 DEF CoversInv, BaseInv, Typed, Filed
<1> QED BY <1>1, <1>2

LEMMA StepTails ==
  ASSUME TailsInv, CoversInv', "rewrite" \notin Faults, NEW p \in Procs,
         Step(p) \/ Recover(p) \/ Open(p) \/ Inventory(p) \/ Request(p) \/ Crash(p)
  PROVE  TailsStep(p)
<1>1. /\ Typed /\ Typed' /\ LockHeld /\ Ordered /\ Published /\ Follows(p) /\ IndexedOf(p)
      /\ pc \in [Procs -> Control] /\ \A d \in Dates : lines[d] \in Seq(Lines)
  BY DEF TailsInv, CoversInv, BaseInv, Indexed, IndexedOf, Typed
<1>2. ASSUME NEW s, Goto(p, s) PROVE pc'[p] = s
  BY <1>1, <1>2 DEF Goto
<1>3. ASSUME Release(p) PROVE pc'[p] = "idle" /\ Follows(p)'
  BY <1>2, <1>3 DEF Release, Follows
<1>4. \A d \in Dates : Trims(lines[d], lines[d]) /\ Trims(Complete(lines[d]), lines[d])
                       /\ Trims(WithFragment(lines[d]), lines[d])
  BY <1>1, WithFragmentTrims
<1>5. ASSUME UNCHANGED <<lines, manifest, pending>>, IndexedOf(p)', Follows(p)' PROVE TailsStep(p)
  BY <1>5, QuietTails
<1>6. CASE Recover(p)
  <2> DEFINE whole == [d \in Dates |-> Complete(lines[d])]
  <2>1. ScanInto(p, whole) /\ lines' = whole /\ pc'[p] \in {"idle", "pending"}
    BY <1>2, <1>6 DEF Recover
  <2>2. \A d \in Dates : Trims(whole[d], lines[d])
    BY <1>4
  <2> HIDE DEF whole
  <2> QED BY <2>1, <2>2, ScanTails
<1>7. CASE Inventory(p) \/ Rescan(p)
  <2>1. ScanInto(p, lines) /\ lines' = lines /\ pc'[p] \in {"idle", "pending"}
    BY <1>2, <1>7 DEF Inventory, Rescan, ScanAll, At
  <2> QED BY <1>4, <2>1, ScanTails
<1>8. CASE IntegrateManifest(p)
  <2>1. /\ UNCHANGED <<lines, manifest, pending>> /\ pc'[p] = "pending"
        /\ known'[p] = known[p] \cup (manifest \ seen[p])
        /\ manifested'[p] = manifested[p] \cup (manifest \ seen[p]) /\ seen'[p] = manifest
    BY <1>1, <1>2, <1>8 DEF IntegrateManifest, disk, Typed
  <2>2. IndexedOf(p)' /\ Follows(p)'
    BY <1>1, <2>1 DEF IndexedOf, Follows
  <2> QED BY <1>5, <2>1, <2>2
<1>9. ASSUME UNCHANGED <<lines, manifest, pending, known, manifested, seen>>, Follows(p)' PROVE TailsStep(p)
  BY <1>1, <1>5, <1>9 DEF IndexedOf
<1>10. CASE RescanFails(p) \/ Reject(p) \/ Resync(p)
  <2>1. MarkerFits(lines)
    BY MarkerFitsLines DEF TailsInv
  <2> QED BY <1>3, <1>9, <1>10, <2>1 DEF RescanFails, Reject, Resync, disk, index
<1>11. CASE Request(p) \/ Open(p)
  <2>1. pc'[p] \in {"idle", "refresh"} /\ UNCHANGED <<lines, manifest, pending, known, manifested, seen>>
    BY <1>2, <1>11 DEF Request, Open, disk, index
  <2>2. Follows(p)'
    BY <2>1 DEF Follows
  <2> QED BY <1>9, <2>1, <2>2
<1>12. CASE SettlePending(p)
  <2>1. UNCHANGED <<lines, pending>> /\ pc[p] = "pending"
    BY <1>12 DEF SettlePending, At, disk
  <2>2. CASE UNCHANGED <<manifest, known, manifested, seen>> /\ (Goto(p, "target") \/ Release(p))
    <3>1. Follows(p)'
      BY <1>1, <1>2, <1>3, <2>1, <2>2 DEF Follows
    <3> QED BY <1>9, <2>1, <2>2, <3>1
  <2>3. CASE pending.shard \in Dates /\ RefreshShard(p, pending.shard) /\ Goto(p, "settle")
    <3>1. Follows(p)'
      BY <1>2, <2>1, <2>3, RefreshTails DEF Follows
    <3> QED BY <2>1, <2>3, <3>1, RefreshTails DEF TailsStep
  <2>4. CASE pending.shard \in Dates /\ RefreshShardFails(p, pending.shard) /\ Release(p)
    BY <1>3, <2>1, <2>4, RefreshFailsTails
  <2> QED BY <1>1, <1>12, <2>2, <2>3, <2>4 DEF SettlePending, index, Typed
<1>13. CASE FinishSettling(p)
  <2>1. /\ UNCHANGED <<lines, manifest, known, manifested, seen>> /\ pc[p] = "settle"
        /\ pending' = pending \/ pending' = NoMarker
        /\ pc'[p] \in {"target", "idle"}
    BY <1>2, <1>3, <1>13 DEF FinishSettling, At, index
  <2>2. Follows(p)' /\ IndexedOf(p)'
    BY <1>1, <2>1 DEF Follows, IndexedOf
  <2>3. Visible \subseteq manifest
    <3> SUFFICES ASSUME NEW r \in Visible PROVE r \in manifest
      OBVIOUS
    <3>1. PICK d \in Dates : r \in Readable(lines[d])
      BY DEF Visible
    <3>2. DateOf[r] = d
      BY <1>1, <3>1, ReadableOnDisk DEF TailsInv, CoversInv, BaseInv
    <3>3. Readable(lines[pending.shard]) \subseteq manifest
      BY <1>1, <2>1 DEF Follows
    <3> QED BY <1>1, <3>1, <3>2, <3>3 DEF Published
  <2> QED BY <2>1, <2>2, <2>3, QuietTails
<1>14. CASE RefreshTarget(p)
  <2> DEFINE d == DateOf[op[p]]
  <2>1. UNCHANGED <<lines, pending>> /\ pc[p] = "target" /\ exists \subseteq Dates
    BY <1>1, <1>14 DEF RefreshTarget, At, disk, Typed
  <2>2. CASE UNCHANGED <<manifest, known, manifested, seen>> /\ (Goto(p, "choose") \/ Release(p))
    <3>1. Follows(p)'
      BY <1>1, <1>2, <1>3, <2>1, <2>2 DEF Follows
    <3> QED BY <1>9, <2>1, <2>2, <3>1
  <2>3. CASE d \in Dates /\ RefreshShard(p, d) /\ Goto(p, "choose")
    <3> HIDE DEF d
    <3>1. Follows(p)'
      BY <1>2, <2>1, <2>3, RefreshTails DEF Follows
    <3> QED BY <2>1, <2>3, <3>1, RefreshTails DEF TailsStep
  <2>4. CASE d \in Dates /\ RefreshShardFails(p, d) /\ Release(p)
    BY <1>3, <2>1, <2>4, RefreshFailsTails
  <2> QED BY <1>14, <2>1, <2>2, <2>3, <2>4 DEF RefreshTarget, index
<1>15. CASE Prepare(p)
  <2>1. /\ UNCHANGED <<lines, manifest, known, manifested, seen>> /\ pc[p] = "mark"
        /\ \/ pc'[p] = "idle" /\ pending' = pending
           \/ pc'[p] = "write" /\ op' = op
    BY <1>2, <1>3, <1>15 DEF Prepare, At, Continue, index
  <2>2. Visible \subseteq manifest
    BY <1>1, <2>1 DEF Follows
  <2>3. Follows(p)' /\ IndexedOf(p)'
    BY <1>1, <2>1, <2>2 DEF Follows, IndexedOf, Conflicts, Visible
  <2> QED BY <2>1, <2>2, <2>3, QuietTails
<1>20. CASE Create(p)
  <2>1. /\ UNCHANGED <<lines, manifest, pending, known, manifested, seen>> /\ pc[p] = "choose"
        /\ ~ Conflicts(p, op[p]) /\ op[p] \notin known[p] /\ pc'[p] = "mark" /\ op' = op
    BY <1>2, <1>20 DEF Create, At, index
  <2>2. Visible \subseteq manifest
    <3>1. pending.shard \notin Dates
      BY <2>1, ConstantsAssumption DEF TailsInv, CoversInv, MarkerSteps, NoMarker
    <3>2. \A r \in Visible : DateOf[r] \in Dates
      BY <1>1, VisibleType, ConstantsAssumption
    <3> QED BY <1>1, <3>1, <3>2 DEF Published
  <2>3. Follows(p)'
    BY <1>1, <2>1, <2>2 DEF Follows, Conflicts, Visible
  <2> QED BY <1>9, <2>1, <2>3
<1>16. CASE Write(p)
  BY <1>1, <1>16, WriteTails
<1>17. CASE Sync(p) \/ Link(p)
  <2>1. /\ UNCHANGED <<lines, manifest, pending, known, manifested, seen>> /\ pc[p] \in {"sync", "link"}
        /\ \/ pc'[p] = "idle"
           \/ pc'[p] \in {"link", "publish"} /\ op' = op
    BY <1>2, <1>3, <1>17 DEF Sync, Link, At, Continue, index
  <2>2. Follows(p)'
    BY <1>1, <2>1 DEF Follows, Visible
  <2> QED BY <1>9, <2>1, <2>2
<1>18. CASE Publish(p)
  BY <1>18, PublishTails
<1>19. CASE Crash(p)
  <2>1. /\ UNCHANGED <<manifest, pending>> /\ pc'[p] = "down"
        /\ known'[p] = {} /\ manifested'[p] = {} /\ seen'[p] = {}
    <3>1. Forget({p}) /\ UNCHANGED <<manifest, pending>>
      BY <1>19 DEF Crash
    <3> QED BY <3>1 DEF Forget
  <2>2. \A d \in Dates : Trims(lines'[d], lines[d])
    <3>1. \A d \in Dates : lines'[d] = lines[d] \/ lines'[d] = WithFragment(lines[d])
      BY <1>1, <1>19 DEF Crash, Typed
    <3> QED BY <1>4, <3>1
  <2>3. Published' /\ Ordered'
    BY <1>1, <2>1, <2>2, TrimTails
  <2>4. Follows(p)' /\ IndexedOf(p)'
    BY <2>1 DEF Follows, IndexedOf
  <2> QED BY <2>1, <2>3, <2>4 DEF TailsStep, TailsInv, Indexed
<1> QED BY <1>6, <1>7, <1>8, <1>10, <1>11, <1>12, <1>13, <1>14, <1>15, <1>16, <1>17, <1>18, <1>19,
           <1>20 DEF Step

LEMMA TailsPowerLoss == TailsInv /\ CoversInv' /\ PowerLoss => TailsInv'
<1> SUFFICES ASSUME TailsInv, CoversInv', PowerLoss PROVE TailsInv'
  OBVIOUS
<1>1. Typed /\ Typed' /\ Ordered /\ Published
  BY DEF TailsInv, CoversInv, BaseInv
<1>2. UNCHANGED <<manifest, pending>> /\ \A p \in Procs : pc'[p] = "down"
  BY <1>1, PowerLossSynced
<1>3. \A p \in Procs : known'[p] = {} /\ manifested'[p] = {} /\ seen'[p] = {}
  <2>1. Forget(Procs)
    BY DEF PowerLoss
  <2> QED BY <2>1 DEF Forget
<1>4. \A d \in Dates : Trims(lines'[d], lines[d])
  <2> SUFFICES ASSUME NEW d \in Dates, NEW i \in 1 .. Len(lines'[d])
               PROVE  lines'[d][i] = Fragment \/ (i <= Len(lines[d]) /\ lines'[d][i] = lines[d][i])
    BY DEF Trims
  <2>1. lines'[d] = <<>> => FALSE
    OBVIOUS
  <2> QED BY <1>1, <2>1, PowerLossLines
<1>5. Published' /\ Ordered'
  BY <1>1, <1>2, <1>4, TrimTails
<1>6. Indexed' /\ \A p \in Procs : Follows(p)'
  BY <1>2, <1>3 DEF Indexed, Follows
<1> QED BY <1>5, <1>6 DEF TailsInv

LEMMA TailsInit == Init => TailsInv
<1> SUFFICES ASSUME Init PROVE TailsInv
  OBVIOUS
<1>1. CoversInv
  BY CoversInit
<1>2. Indexed /\ \A p \in Procs : Follows(p)
  BY DEF Init, Indexed, Follows
<1>3. Published /\ Ordered
  BY DEF Init, Published, Ordered, Visible, Readable
<1> QED BY <1>1, <1>2, <1>3 DEF TailsInv

LEMMA TailsNext ==
  ASSUME "rewrite" \notin Faults
  PROVE  TailsInv /\ [Next]_vars => TailsInv'
<1> SUFFICES ASSUME TailsInv, [Next]_vars PROVE TailsInv'
  OBVIOUS
<1>1. CoversInv'
  BY CoversNext DEF TailsInv
<1>2. ASSUME NEW p \in Procs,
             Step(p) \/ Recover(p) \/ Open(p) \/ Inventory(p) \/ Request(p) \/ Crash(p)
      PROVE  TailsInv'
  BY <1>1, <1>2, StepTails, TailsFromStep
<1>3. CASE PowerLoss
  BY <1>1, <1>3, TailsPowerLoss
<1>4. CASE UNCHANGED vars
  BY <1>1, <1>4 DEF vars, disk, index, TailsInv, Indexed, Follows, Conflicts, Published, Visible, Ordered, Clean
<1> QED BY <1>2, <1>3, <1>4 DEF Next

\* As long as a scan can rewrite the manifest, no process overlooks a record that
\* another one wrote: it knows it, or its next append meets it first.  Torn writes,
\* crashes, power losses and a manifest or marker that cannot be written included.
THEOREM NoTailOverlooked ==
  ASSUME "rewrite" \notin Faults
  PROVE  Spec => []TailsNoticed
<1>1. TailsInv => TailsNoticed
  BY DEF TailsInv, Indexed, Published, TailsNoticed
<1>2. TailsInv /\ [Next]_vars => TailsInv'
  BY TailsNext
<1> QED BY <1>1, <1>2, TailsInit, PTL DEF Spec

-----------------------------------------------------------------------------
(* The journal is the log that its clients see                              *)

\* When no write stops half way every record on disk can be read.
LEMMA WholeReadable ==
  ASSUME Typed, Whole, NEW r \in Records, OnDisk(r)
  PROVE  r \in Visible
<1> DEFINE d == DateOf[r]
<1>1. d \in Dates
  BY ConstantsAssumption
<1>2. PICK i \in 1 .. Len(lines[d]) : lines[d][i] = r
  BY DEF OnDisk, Within
<1>3. lines[d] \in Seq(Lines) /\ \A j \in 1 .. Len(lines[d]) : lines[d][j] # Fragment
  BY <1>1 DEF Typed, Whole, Intact
<1> HIDE DEF d
<1>4. r \in Readable(lines[d])
  BY <1>2, <1>3, CleanReadable
<1> QED BY <1>1, <1>4 DEF Visible

LEMMA AckedVisible ==
  ASSUME SyncedInv, Whole
  PROVE  Kept \subseteq Visible
<1> SUFFICES ASSUME NEW r \in Kept PROVE r \in Visible
  OBVIOUS
<1>1. r \in Records /\ DateOf[r] \in Dates /\ Typed
  BY ConstantsAssumption DEF SyncedInv, Typed, Kept
<1>2. OnDisk(r)
  <2>1. PICK i \in 1 .. stable[DateOf[r]] : i <= Len(lines[DateOf[r]]) /\ lines[DateOf[r]][i] = r
    BY DEF SyncedInv, AckedSynced
  <2>2. stable[DateOf[r]] \in Nat /\ Len(lines[DateOf[r]]) \in Nat
    BY <1>1 DEF Typed
  <2> QED BY <2>1, <2>2 DEF OnDisk, Within
<1> QED BY <1>1, <1>2, WholeReadable

RefineInv == SyncedInv /\ Whole /\ TailsInv

\* The acknowledged records that no power loss can take.
Secure == {r \in Kept : DateOf[r] \notin orphans}

\* No record in a shard whose creator has not written its marker yet was acknowledged.
LEMMA UnmarkedUnacked ==
  ASSUME SyncedInv, NEW r \in Kept
  PROVE  DateOf[r] \notin Unmarked(Procs)
  BY UnmarkedCreating DEF SyncedInv, AckedLinked, MarkerNamesUnlinked

\* A power loss takes none of the others, and none becomes secure by it.
LEMMA PowerLossSecure ==
  ASSUME SyncedInv, PowerLoss
  PROVE  Secure' = Secure
<1>1. PICK gone \in SUBSET (exists \ linked) :
        /\ orphans' = (orphans \cup Unmarked(Procs)) \ gone
        /\ lost' = lost \cup {r \in acked : DateOf[r] \in gone \cap orphans}
  BY DEF PowerLoss
<1>2. acked' = acked
  BY DEF PowerLoss
<1>3. ASSUME NEW r \in Secure PROVE r \in Secure'
  <2>1. DateOf[r] \in linked \ orphans /\ DateOf[r] \notin Unmarked(Procs)
    BY UnmarkedUnacked DEF Secure, SyncedInv, AckedLinked
  <2> QED BY <1>1, <1>2, <2>1 DEF Secure, Kept
<1>4. ASSUME NEW r \in Secure' PROVE r \in Secure
  BY <1>1, <1>2 DEF Secure, Kept
<1> QED BY <1>3, <1>4

\* Any other step leaves them secure; the sync of the directory secures the rest.
LEMMA StepSecure ==
  ASSUME Typed, SyncedInv, NEW p \in Procs,
         Step(p) \/ Recover(p) \/ Open(p) \/ Inventory(p) \/ Request(p) \/ Crash(p)
  PROVE  Secure \subseteq Secure'
<1>1. Kept \subseteq Kept'
  <2>1. CASE Publish(p) \/ Resync(p)
    BY <2>1 DEF Publish, Resync, Kept
  <2>2. CASE ~ (Publish(p) \/ Resync(p))
    <3>1. UNCHANGED <<acked, lost>>
      BY <2>2 DEF Step, IntegrateManifest, Rescan, RescanFails, SettlePending, FinishSettling,
             RefreshTarget, Reject, Create, Prepare, Write, Sync, Link, Recover, Open, Inventory,
             Request, Crash
    <3> QED BY <3>1 DEF Kept
  <2> QED BY <2>1, <2>2
<1>2. orphans' \subseteq orphans \cup Unmarked(Procs)
  <2>1. CASE Recover(p) \/ Inventory(p) \/ Rescan(p)
    <3>1. \E ln, cut : ScanSettles(ln, cut)
      BY <2>1 DEF Recover, Inventory, Rescan, ScanAll
    <3> QED BY <3>1 DEF ScanSettles, SyncDirectory
  <2>2. CASE IntegrateManifest(p) \/ RescanFails(p) \/ SettlePending(p) \/ RefreshTarget(p)
             \/ Reject(p) \/ Publish(p) \/ Open(p) \/ Request(p)
    BY <2>2 DEF IntegrateManifest, RescanFails, SettlePending, RefreshTarget, Reject, Publish,
                Open, Request, disk
  <2>3. CASE FinishSettling(p) \/ Resync(p) \/ Create(p) \/ Write(p) \/ Sync(p) \/ Link(p)
    BY <2>3 DEF FinishSettling, Resync, Create, Write, Sync, Link, SyncDirectory
  <2>4. CASE Prepare(p) \/ Crash(p)
    <3>1. Unmarked({p}) \subseteq Unmarked(Procs)
      BY DEF Unmarked
    <3> QED BY <2>4, <3>1 DEF Prepare, Crash
  <2> QED BY <2>1, <2>2, <2>3, <2>4 DEF Step
<1> QED BY <1>1, <1>2, UnmarkedUnacked DEF Secure

\* Every step of the journal accepts a record, acknowledges some, loses records that
\* were not acknowledged, or is not seen by the clients.
LEMMA LogStep ==
  ASSUME "torn" \notin Faults, RefineInv, RefineInv', [Next]_vars
  PROVE  Log!Next \/ UNCHANGED <<Visible, Secure>>
<1> USE DEF RefineInv
<1>1. /\ Typed /\ Typed' /\ LockHeld /\ \A p \in Procs : Follows(p)
      /\ \A d \in Dates : /\ lines[d] \in Seq(Lines)
                          /\ \A i \in 1 .. Len(lines[d]) : lines[d][i] # Fragment
  BY DEF SyncedInv, TailsInv, Typed, Whole, Intact
<1>2. (Secure \subseteq Visible)'
  <2>1. (Kept \subseteq Visible)'
    BY AckedVisible, PTL
  <2> QED BY <2>1 DEF Secure
<1>9. ASSUME NEW p \in Procs, UNCHANGED lines,
             Step(p) \/ Recover(p) \/ Open(p) \/ Inventory(p) \/ Request(p) \/ Crash(p)
      PROVE  Log!Acknowledge
  <2>1. Secure \subseteq Secure'
    BY <1>9, StepSecure DEF SyncedInv
  <2>2. Visible' = Visible
    BY <1>9 DEF Visible
  <2> QED BY <1>2, <2>1, <2>2 DEF Log!Acknowledge, Secure
<1>3. ASSUME NEW p \in Procs, Write(p) PROVE \E r \in Records : Log!Accept(r)
  <2> DEFINE r == op[p]
             d == DateOf[r]
  <2>1. pc[p] = "write" /\ r \in Records /\ d \in Dates /\ r # Fragment
    BY <1>1, <1>3, ConstantsAssumption DEF Write, At, LockHeld, Busy
  <2>2. lines' = [lines EXCEPT ![d] = Append(@, r)] /\ UNCHANGED Secure
    BY <1>3 DEF Write, Fault, Secure, Kept
  <2>3. Visible \subseteq known[p] /\ r \notin known[p] /\ ~ Conflicts(p, r)
    <3>1. manifest \subseteq known[p]
      BY <2>1, InStep
    <3>2. Visible \subseteq manifest /\ r \notin known[p] /\ ~ Conflicts(p, r)
      BY <1>1, <2>1 DEF Follows
    <3> QED BY <3>1, <3>2
  <2>4. r \notin Visible /\ \A s \in Visible : ~ Log!SameIdentity(r, s)
    BY <2>3 DEF Conflicts, Log!SameIdentity
  <2>5. Visible' = Visible \cup {r}
    <3>1. lines'[d] = Append(lines[d], r) /\ \A e \in Dates \ {d} : lines'[e] = lines[e]
      BY <1>1, <2>1, <2>2 DEF Typed
    <3>2. Readable(lines'[d]) \subseteq Readable(lines[d]) \cup {r}
      BY <1>1, <2>1, <3>1, AppendReads DEF Lines
    <3>3. Visible' \subseteq Visible \cup {r}
      <4>1. ASSUME NEW e \in Dates PROVE Readable(lines'[e]) \subseteq Readable(lines[e]) \cup {r}
        <5>1. e # d => lines'[e] = lines[e]
          BY <3>1
        <5> QED BY <3>2, <5>1
      <4> QED BY <4>1 DEF Visible
    <3>4. Visible \subseteq Visible'
      BY <1>1, <2>1, <2>2, VisibleGrows DEF Lines
    <3>5. r \in Visible'
      <4> DEFINE t == lines'[d]
      <4>1. /\ t \in Seq(Lines) /\ Len(t) \in 1 .. Len(t) /\ t[Len(t)] = r
            /\ \A i \in 1 .. Len(t) : t[i] # Fragment
        <5>1. t \in Seq(Lines) /\ Len(t) \in Nat \ {0} /\ t[Len(t)] = r
          BY <1>1, <2>1, <3>1 DEF Lines
        <5>2. \A i \in 1 .. Len(t) : t[i] # Fragment
          BY <2>1 DEF Whole, Intact
        <5> QED BY <5>1, <5>2
      <4> HIDE DEF t
      <4>2. r \in Readable(t)
        BY <4>1, CleanReadable
      <4> QED BY <2>1, <4>2 DEF Visible, t
    <3> QED BY <3>3, <3>4, <3>5
  <2> QED BY <2>1, <2>2, <2>4, <2>5 DEF Log!Accept, Secure
<1>5. ASSUME NEW p \in Procs, Recover(p) \/ Crash(p) PROVE Log!Acknowledge
  <2>1. \A d \in Dates : Complete(lines[d]) = lines[d]
    <3> SUFFICES ASSUME NEW d \in Dates PROVE ~ PartialTail(lines[d])
      BY DEF Complete
    <3>1. lines[d] # <<>> => Len(lines[d]) \in 1 .. Len(lines[d])
      BY <1>1
    <3> QED BY <1>1, <3>1 DEF PartialTail
  <2>2. \A d \in Dates : lines'[d] = lines[d]
    BY <1>5, <2>1 DEF Recover, Crash
  <2>3. UNCHANGED lines
    BY <1>1, <2>2 DEF Typed
  <2> QED BY <1>5, <1>9, <2>3
<1>6. CASE PowerLoss
  <2>1. UNCHANGED Secure
    BY <1>6, PowerLossSecure
  <2>2. Visible' \subseteq Visible
    <3>1. ASSUME NEW d \in Dates PROVE Readable(lines'[d]) \subseteq Readable(lines[d])
      <4>1. Trims(lines'[d], lines[d]) /\ lines'[d] \in Seq(Lines)
        <5>1. lines'[d] = <<>> => Len(lines'[d]) = 0
          OBVIOUS
        <5> QED BY <1>1, <1>6, <5>1, PowerLossLines DEF Trims
      <4> QED BY <1>1, <4>1, TrimsReadable
    <3> QED BY <3>1 DEF Visible
  <2> QED BY <1>2, <2>1, <2>2 DEF Log!Next, Log!Lose, Secure
<1>7. ASSUME NEW p \in Procs, Step(p) \/ Open(p) \/ Inventory(p) \/ Request(p), ~ Write(p)
      PROVE  UNCHANGED lines
  BY <1>7 DEF Step, IntegrateManifest, Rescan, RescanFails, SettlePending, FinishSettling, RefreshTarget,
              Reject, Resync, Create, Prepare, Sync, Link, Publish, Open, Inventory, Request, ScanAll, disk
<1>8. CASE UNCHANGED vars
  BY <1>8 DEF vars, disk, Visible, Secure, Kept
<1> QED BY <1>3, <1>5, <1>6, <1>7, <1>8, <1>9 DEF Next, Log!Next, Step

LEMMA RefineNext ==
  ASSUME "torn" \notin Faults, "rewrite" \notin Faults
  PROVE  RefineInv /\ [Next]_vars => RefineInv'
  BY SyncedStep, WholeStep, TailsNext DEF RefineInv, SyncedInv

\* When a write is never cut short and a scan can rewrite the manifest, the family is an
\* append-only log that accepts one record per stable ID and image over all its shards and
\* keeps what it acknowledged, except in an orphan until the directory is synced: whatever
\* processes crash, whatever is not synced when power fails, and whichever marker writes,
\* syncs and manifest appends fail.
THEOREM JournalIsEvidenceLog ==
  ASSUME "torn" \notin Faults, "rewrite" \notin Faults
  PROVE  Spec => ImplementsEvidenceLog
<1>1. Init => RefineInv
  BY SyncedInit, TailsInit DEF RefineInv, Init, Whole, Intact
<1>2. RefineInv /\ [Next]_vars => RefineInv'
  BY RefineNext
<1>3. Init => Log!Init
  BY DEF Init, Log!Init, Visible, Readable, Kept
<1>4. RefineInv /\ RefineInv' /\ [Next]_vars =>
         [Log!Next]_<<Visible, {r \in Kept : DateOf[r] \notin orphans}>>
  BY LogStep DEF Secure
<1> QED BY <1>1, <1>2, <1>3, <1>4, PTL DEF Spec, ImplementsEvidenceLog, Log!Spec
===============================================================================
