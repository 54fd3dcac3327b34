-------------------------- MODULE CanonicalJournal --------------------------
(***************************************************************************)
(* One journal family of chronicle-store (crates/chronicle-store/src/      *)
(* journal.rs): daily append-only JSONL shards, the pending-mutation       *)
(* marker, the disposable index manifest, and the per-process in-memory    *)
(* index, as several processes append to them under the family's writer    *)
(* lock and as processes die, writes fail half way or the machine loses    *)
(* power.                                                                  *)
(*                                                                         *)
(* Abstractions.  A line of a shard is a record or a Fragment (bytes with  *)
(* no newline); a record appended right after a Fragment is merged with it *)
(* into one malformed line.  The manifest is the set of its entries, again *)
(* with Fragment for a torn one; the inode and length a process remembers  *)
(* are the pair fresh[p] (same inode) and seen[p] (entries up to that      *)
(* length); current[p] is the shards whose cached size is the file's.      *)
(* An operation holds the writer lock from Request to its release, so only  *)
(* a crash or a power loss comes between its steps.                        *)
(***************************************************************************)
EXTENDS Integers, Sequences, FiniteSets

CONSTANTS
  Procs,      \* processes with a handle on the store
  Lazy,       \* those that use the journal without startup recovery
  Scanners,   \* those that also run full scans (retention inventory)
  Records,    \* canonical records; equal records have equal bytes
  Ids, IdOf,  \* the stable ID of a record
  Dates, DateOf,     \* the UTC date of its timestamp, which names its shard
  Images, ImageOf,   \* the image artifact it claims, or NoImage
  NoImage,
  Fragment, NoProc, NoRecord, NoShard,
  Faults,     \* the I/O failures that can happen
  MaxFaults   \* bound on crashes and failures

FaultNames == {"crash", "power", "torn", "create", "sync", "link",
               "manifest", "rewrite", "clear"}

ASSUME ConstantsAssumption ==
  /\ Lazy \subseteq Procs /\ Scanners \subseteq Procs
  /\ IdOf \in [Records -> Ids]
  /\ DateOf \in [Records -> Dates]
  /\ ImageOf \in [Records -> Images \cup {NoImage}]
  /\ Fragment \notin Records /\ NoRecord \notin Records
  /\ NoProc \notin Procs /\ NoShard \notin Dates /\ NoImage \notin Images
  /\ Faults \subseteq FaultNames
  /\ MaxFaults \in Nat

VARIABLES
  lines,      \* lines[d]: the content of shard d that processes read
  exists,     \* the shards that have a file
  stable,     \* stable[d]: how many lines of d have been synced
  linked,     \* the shards whose directory entry has been synced
  orphans,    \* the shards whose creator ended before its marker (history)
  pending,    \* the pending-mutation marker
  manifest,   \* entries of the index manifest
  writer,     \* the process that holds the writer lock
  pc, op,     \* the step each process is at, and the record it appends
  created,    \* the shard did not exist when the append opened it
  loaded, known, current, manifested, \* the in-memory index of a process
  fresh, seen,                        \* the manifest identity it remembers
  acked,      \* records whose append returned success (history)
  lost,       \* those that a power loss took with an orphan (history)
  faults      \* failures so far (bound)

disk   == <<lines, exists, stable, linked, orphans>>
index  == <<loaded, known, current, manifested, fresh, seen>>
vars   == <<disk, pending, manifest, writer, pc, op, created, index, acked, lost, faults>>

Control == {"down", "idle", "refresh", "pending", "settle", "target", "choose",
            "mark", "write", "sync", "link", "publish"}
Lines   == Records \cup {Fragment}
Marker  == [shard : Dates \cup {NoShard}, prior : Nat]
NoMarker == [shard |-> NoShard, prior |-> 0]

-----------------------------------------------------------------------------
(* Lines of a shard                                                         *)

\* The records a scan of s returns: complete lines that are not merged with
\* a fragment.
Readable(s) ==
  {s[i] : i \in {j \in 1 .. Len(s) : s[j] # Fragment /\ (j = 1 \/ s[j-1] # Fragment)}}

\* A complete line that does not verify: a record merged with a fragment.
Corrupt(s) == \E i \in 2 .. Len(s) : s[i-1] = Fragment /\ s[i] # Fragment

\* Faulty variant: the incomplete tail of a shard goes unnoticed.
IntactAlways(s) == Len(s) >= 0

\* A scan of s that cuts nothing succeeds and finds no partial tail.
Intact(s) == \A i \in 1 .. Len(s) : s[i] # Fragment

PartialTail(s) == s # <<>> /\ s[Len(s)] = Fragment

\* Faulty variant: recovery truncates at the first damage instead of the tail.
CompleteUpToDamage(s) ==
  CHOOSE t \in {SubSeq(s, 1, n) : n \in 0 .. Len(s)} :
    Intact(t) /\ (t = s \/ s[Len(t) + 1] = Fragment)

\* The prefix of s that ends with its last newline.
Complete(s) == IF PartialTail(s) THEN SubSeq(s, 1, Len(s) - 1) ELSE s

\* s after a write that stopped half way.
WithFragment(s) == IF PartialTail(s) THEN s ELSE Append(s, Fragment)

\* Every record that a scan of the whole family finds.
Visible == UNION {Readable(lines[d]) : d \in Dates}

-----------------------------------------------------------------------------
(* Faults and control                                                       *)

Fault(name) == name \in Faults /\ faults < MaxFaults /\ faults' = faults + 1

At(p, step) == pc[p] = step
Goto(p, step) == pc' = [pc EXCEPT ![p] = step]

\* The operation ends, with success or an error, and its lock is released.
Release(p) ==
  /\ Goto(p, "idle")
  /\ writer' = NoProc
  /\ op' = [op EXCEPT ![p] = NoRecord]
  /\ created' = [created EXCEPT ![p] = FALSE]

\* An operation that fails leaves with an error where it stands.
Continue == UNCHANGED <<writer, op, created>>

\* Faulty variant: the sync is forgotten.
SyncShardForgotten(d) == d \in Dates /\ stable' = stable

\* sync_all on a shard, and on the directory that holds the shards.
SyncShard(d)  == stable' = [stable EXCEPT ![d] = Len(lines[d])]
SyncDirectory == linked' = exists /\ orphans' = {}

\* The cached size of shard d in every index once process p has changed it:
\* known to p if `cached', out of date in the others.
Changed(p, d, cached) ==
  current' = [q \in Procs |-> IF q = p /\ cached THEN current[q] \cup {d} ELSE current[q] \ {d}]

-----------------------------------------------------------------------------
(* Full scans: scan_all_locked                                              *)

\* The index becomes what the shards `ln' hold and the manifest is rewritten
\* (best effort) when its entries or their order differ.  The cached sizes are
\* those of the files, whether or not they end with a fragment.
ScanInto(p, ln) ==
  LET all == UNION {Readable(ln[d]) : d \in Dates} IN
  /\ \A d \in Dates : ~ Corrupt(ln[d])
  /\ loaded' = [loaded EXCEPT ![p] = TRUE]
  /\ known'  = [known EXCEPT ![p] = all]
  /\ current' = [q \in Procs |-> IF q = p THEN exists
                                 ELSE current[q] \ {d \in Dates : ln[d] # lines[d]}]
  /\ \/ /\ manifest' = all
        /\ manifested' = [manifested EXCEPT ![p] = all]
        /\ seen' = [seen EXCEPT ![p] = all]
        /\ \E replaced \in {manifest # all} \cup {Cardinality(all) > 1} :
             fresh' = [q \in Procs |-> q = p \/ (fresh[q] /\ ~ replaced)]
        /\ UNCHANGED faults
     \/ /\ Fault("rewrite")
        /\ UNCHANGED <<manifest, manifested, seen, fresh>>

\* No shard is shorter than the marker says.
MarkerFits(ln) == pending.shard \in exists => Len(ln[pending.shard]) >= pending.prior

\* Faulty variant: the marker is cleared before the shard it names is synced.
ScanSettlesUnsynced(ln, cut) ==
  /\ stable' = [d \in Dates |-> IF d \in cut THEN Len(ln[d]) ELSE stable[d]]
  /\ SyncDirectory
  /\ pending' = NoMarker

\* What the settling of the marker syncs, after a scan left `ln' on disk.
ScanSettles(ln, cut) ==
  /\ stable' = [d \in Dates |-> IF d \in cut \/ (d = pending.shard /\ d \in exists)
                                THEN Len(ln[d]) ELSE stable[d]]
  /\ IF pending # NoMarker \/ cut # {} THEN SyncDirectory ELSE UNCHANGED <<linked, orphans>>
  /\ pending' = NoMarker

\* A scan that leaves partial tails alone (repair_partial = false).
ScanAll(p) ==
  MarkerFits(lines) /\ ScanInto(p, lines) /\ ScanSettles(lines, {}) /\ UNCHANGED <<lines, exists>>

\* Recovery, at startup and when a live projection lags, excludes every other
\* operation and scans with repair_partial = true: a partial tail is copied to
\* diagnostics/ and cut off.  A corrupt line blocks it.
Recover(p) ==
  LET cut == {d \in Dates : PartialTail(lines[d])}
      whole == [d \in Dates |-> Complete(lines[d])]
  IN /\ pc[p] \in {"down", "idle"} /\ p \notin Lazy
     /\ \A q \in Procs : pc[q] \in {"down", "idle"}
     /\ MarkerFits(whole)
     /\ ScanInto(p, whole)
     /\ ScanSettles(whole, cut)
     /\ lines' = whole
     /\ Goto(p, "idle")
     /\ UNCHANGED <<exists, writer, op, created, acked, lost>>

\* A process that opens the store without recovery starts with an empty index.
Open(p) ==
  /\ At(p, "down") /\ p \in Lazy
  /\ Goto(p, "idle")
  /\ UNCHANGED <<disk, pending, manifest, writer, op, created, index, acked, lost, faults>>

\* The retention inventory reads the whole family without repairing it.
Inventory(p) ==
  /\ At(p, "idle") /\ p \in Scanners /\ writer = NoProc
  /\ ScanAll(p)
  /\ UNCHANGED <<writer, pc, op, created, acked, lost>>

-----------------------------------------------------------------------------
(* append: bring the index up to date (refresh_index)                       *)

Request(p) ==
  /\ At(p, "idle") /\ writer = NoProc
  /\ \E r \in Records : op' = [op EXCEPT ![p] = r]
  /\ writer' = p
  /\ Goto(p, "refresh")
  /\ UNCHANGED <<disk, pending, manifest, created, index, acked, lost, faults>>

\* refresh_manifest cannot be followed: no index yet, another inode, or a tail
\* that is torn or names a record the shards do not hold.
NeedsScan(p) ==
  \/ ~ loaded[p] \/ ~ fresh[p]
  \/ ~ (manifest \ seen[p] \subseteq Visible)

IntegrateManifest(p) ==
  LET tail == manifest \ seen[p] IN
  /\ At(p, "refresh") /\ ~ NeedsScan(p)
  /\ known' = [known EXCEPT ![p] = @ \cup tail]
  /\ manifested' = [manifested EXCEPT ![p] = @ \cup tail]
  /\ seen' = [seen EXCEPT ![p] = manifest]
  /\ current' = [current EXCEPT ![p] = @ \cup
        {d \in Dates : lines[d] # <<>> /\ lines[d][Len(lines[d])] \in tail}]
  /\ Goto(p, "pending")
  /\ UNCHANGED <<disk, pending, manifest, writer, op, created, loaded, fresh, acked, lost, faults>>

Rescan(p) ==
  /\ At(p, "refresh") /\ NeedsScan(p)
  /\ ScanAll(p)
  /\ Goto(p, "pending")
  /\ Continue
  /\ UNCHANGED <<acked, lost>>

\* A corrupt shard fails the operation before the index changes, one shorter than the
\* marker says after that.
RescanFails(p) ==
  /\ At(p, "refresh") /\ NeedsScan(p)
  /\ \/ /\ \E d \in Dates : Corrupt(lines[d])
        /\ UNCHANGED <<manifest, index, faults>>
     \/ ~ MarkerFits(lines) /\ ScanInto(p, lines)
  /\ Release(p)
  /\ UNCHANGED <<disk, pending, acked, lost>>

\* Faulty variant: records found by the pass are not added to the manifest.
RefreshShardUnpublished(p, d) ==
  /\ Intact(lines[d])
  /\ known' = [known EXCEPT ![p] = {r \in @ : DateOf[r] # d} \cup Readable(lines[d])]
  /\ current' = [current EXCEPT ![p] = @ \cup {d}]
  /\ UNCHANGED <<manifested, manifest, seen, fresh>>

\* refresh_changed_shard: the shard is read again and every record of it that
\* this process has not seen in the manifest is added to it.
RefreshShard(p, d) ==
  LET content == Readable(lines[d])
      new == content \ manifested[p]
  IN /\ Intact(lines[d])
     /\ known' = [known EXCEPT ![p] = {r \in @ : DateOf[r] # d} \cup content]
     /\ current' = [current EXCEPT ![p] = @ \cup {d}]
     /\ manifested' = [manifested EXCEPT ![p] = @ \cup new]
     /\ manifest' = manifest \cup new
     /\ seen'  = [seen EXCEPT ![p] = IF new = {} THEN @ ELSE manifest']
     /\ fresh' = [fresh EXCEPT ![p] = @ \/ new # {}]

\* The manifest entry of the i-th line fails: the records after it are left
\* out of the index and the cached size stays absent or stale.
RefreshShardFails(p, d) ==
  /\ Intact(lines[d])
  /\ \E i \in 1 .. Len(lines[d]) :
       LET before == {lines[d][j] : j \in 1 .. i-1}
           new == before \ manifested[p]
       IN /\ lines[d][i] \notin manifested[p]
          /\ known' = [known EXCEPT ![p] = {r \in @ : DateOf[r] # d} \cup before \cup {lines[d][i]}]
          /\ manifested' = [manifested EXCEPT ![p] = @ \cup new]
          /\ \E torn \in SUBSET {Fragment} : manifest' = manifest \cup new \cup torn
          /\ seen'  = [seen EXCEPT ![p] = IF new = {} THEN @ ELSE manifest \cup new]
          /\ fresh' = [fresh EXCEPT ![p] = @ \/ new # {}]
  /\ Fault("manifest")

\* A marker names the shard an earlier append may have changed.
SettlePending(p) ==
  /\ At(p, "pending")
  /\ \/ /\ pending = NoMarker
        /\ Goto(p, "target")
        /\ UNCHANGED <<manifest, index, faults>> /\ Continue
     \/ /\ pending.shard \in exists
        /\ RefreshShard(p, pending.shard)
        /\ Goto(p, "settle")
        /\ UNCHANGED <<loaded, faults>> /\ Continue
     \/ /\ pending.shard \in exists
        /\ RefreshShardFails(p, pending.shard)
        /\ current' = [current EXCEPT ![p] = @ \ {pending.shard}]
        /\ Release(p)
        /\ UNCHANGED loaded
     \/ /\ pending # NoMarker
        /\ pending.shard \in exists => ~ Intact(lines[pending.shard])
        /\ current' = [current EXCEPT ![p] = @ \ {pending.shard}]
        /\ Release(p)
        /\ UNCHANGED <<manifest, loaded, known, manifested, fresh, seen, faults>>
  /\ UNCHANGED <<disk, pending, acked, lost>>

\* The named shard is synced, then the directory, then the marker is removed.
FinishSettling(p) ==
  /\ At(p, "settle")
  /\ SyncShard(pending.shard)
  /\ IF Len(lines[pending.shard]) >= pending.prior
     THEN /\ SyncDirectory /\ pending' = NoMarker
          /\ Goto(p, "target") /\ Continue
     ELSE /\ UNCHANGED <<linked, orphans, pending>> /\ Release(p)
  /\ UNCHANGED <<lines, exists, manifest, index, acked, lost, faults>>

-----------------------------------------------------------------------------
(* append: decide, write, sync, publish                                     *)

\* The shard the record goes to is read again when its size is not the cached one.
RefreshTarget(p) ==
  LET d == DateOf[op[p]]
      changed == d \in exists \ current[p]
  IN /\ At(p, "target")
     /\ \/ /\ ~ changed
           /\ Goto(p, "choose")
           /\ UNCHANGED <<manifest, index, faults>> /\ Continue
        \/ /\ changed /\ RefreshShard(p, d)
           /\ Goto(p, "choose")
           /\ UNCHANGED <<loaded, faults>> /\ Continue
        \/ /\ changed /\ RefreshShardFails(p, d)
           /\ Release(p)
           /\ UNCHANGED <<loaded, current>>
        \/ /\ changed /\ ~ Intact(lines[d])
           /\ Release(p)
           /\ UNCHANGED <<manifest, index, faults>>
     /\ UNCHANGED <<disk, pending, acked, lost>>

\* Faulty variant: identities are compared within one daily shard only.
ConflictsInShard(p, r) ==
  \E k \in known[p] \ {r} :
    /\ DateOf[k] = DateOf[r]
    /\ IdOf[k] = IdOf[r] \/ (ImageOf[r] # NoImage /\ ImageOf[k] = ImageOf[r])

\* A record another one stands against: a second observation of its image, or
\* other bytes under its stable ID.
Conflicts(p, r) ==
  \E k \in known[p] \ {r} :
    \/ IdOf[k] = IdOf[r]
    \/ ImageOf[r] # NoImage /\ ImageOf[k] = ImageOf[r]

Reject(p) ==
  /\ At(p, "choose") /\ Conflicts(p, op[p])
  /\ Release(p)
  /\ UNCHANGED <<disk, pending, manifest, index, acked, lost, faults>>

\* An exact retry syncs the existing record before it is acknowledged.
Resync(p) ==
  LET r == op[p] IN
  /\ At(p, "choose") /\ ~ Conflicts(p, r) /\ r \in known[p]
  /\ \/ /\ SyncShard(DateOf[r]) /\ SyncDirectory
        /\ acked' = acked \cup {r} /\ lost' = lost \ {r}
        /\ UNCHANGED faults
     \/ /\ Fault("sync")
        /\ UNCHANGED <<stable, linked, orphans, acked, lost>>
  /\ Release(p)
  /\ UNCHANGED <<lines, exists, pending, manifest, index>>

\* The shard is opened, and created when it is new,
Create(p) ==
  LET d == DateOf[op[p]] IN
  /\ At(p, "choose") /\ ~ Conflicts(p, op[p]) /\ op[p] \notin known[p]
  /\ exists' = exists \cup {d}
  /\ created' = [created EXCEPT ![p] = d \notin exists]
  /\ Goto(p, "mark")
  /\ UNCHANGED <<lines, stable, linked, orphans, pending, manifest, writer, op, index,
                 acked, lost, faults>>

\* The shards that processes in P have created and not yet named in the marker.
Unmarked(P) == {DateOf[op[p]] : p \in {q \in P : At(q, "mark") /\ created[q]}}

\* ... and the marker is written.  "create": it cannot be, and the append returns an error.
Prepare(p) ==
  LET d == DateOf[op[p]] IN
  /\ At(p, "mark")
  /\ \/ /\ pending' = [shard |-> d, prior |-> Len(lines[d])]
        /\ Goto(p, "write")
        /\ UNCHANGED <<orphans, faults>> /\ Continue
     \/ /\ Fault("create")
        /\ orphans' = orphans \cup Unmarked({p})
        /\ Release(p)
        /\ UNCHANGED pending
  /\ UNCHANGED <<lines, exists, stable, linked, manifest, index, acked, lost>>

\* write_all: the whole line, or part of it and an error.
Write(p) ==
  LET r == op[p]
      d == DateOf[r]
  IN /\ At(p, "write")
     /\ \/ /\ lines' = [lines EXCEPT ![d] = Append(@, r)]
           /\ known' = [known EXCEPT ![p] = @ \cup {r}]
           /\ Changed(p, d, TRUE)
           /\ Goto(p, "sync")
           /\ UNCHANGED faults /\ Continue
        \/ /\ Fault("torn")
           /\ lines' = [lines EXCEPT ![d] = WithFragment(@)]
           /\ Changed(p, d, FALSE)
           /\ Release(p)
           /\ UNCHANGED known
     /\ UNCHANGED <<exists, stable, linked, orphans, pending, manifest, loaded, manifested,
                    fresh, seen, acked, lost>>

Sync(p) ==
  /\ At(p, "sync")
  /\ \/ /\ SyncShard(DateOf[op[p]])
        /\ Goto(p, IF created[p] THEN "link" ELSE "publish")
        /\ UNCHANGED faults /\ Continue
     \/ /\ Fault("sync")
        /\ Release(p)
        /\ UNCHANGED stable
  /\ UNCHANGED <<lines, exists, linked, orphans, pending, manifest, index, acked, lost>>

\* Only an append that created its shard syncs the directory.
Link(p) ==
  /\ At(p, "link")
  /\ \/ /\ SyncDirectory
        /\ Goto(p, "publish")
        /\ UNCHANGED faults /\ Continue
     \/ /\ Fault("link")
        /\ Release(p)
        /\ UNCHANGED <<linked, orphans>>
  /\ UNCHANGED <<lines, exists, stable, pending, manifest, index, acked, lost>>

\* The manifest entry and the removal of the marker are best effort: the append
\* has succeeded whether or not they do.
Publish(p) ==
  LET r == op[p] IN
  /\ At(p, "publish")
  /\ acked' = acked \cup {r} /\ lost' = lost \ {r}
  /\ \/ /\ manifest' = manifest \cup {r}
        /\ manifested' = [manifested EXCEPT ![p] = @ \cup {r}]
        /\ seen' = [seen EXCEPT ![p] = manifest']
        /\ fresh' = [fresh EXCEPT ![p] = TRUE]
        /\ \/ pending' = NoMarker /\ UNCHANGED faults
           \/ Fault("clear") /\ UNCHANGED pending
     \/ /\ Fault("manifest")
        /\ \E torn \in SUBSET {Fragment} : manifest' = manifest \cup torn
        /\ UNCHANGED <<pending, manifested, seen, fresh>>
  /\ Release(p)
  /\ UNCHANGED <<disk, loaded, known, current>>

-----------------------------------------------------------------------------
(* Crashes                                                                  *)

\* The processes in P lose their memory; the kernel keeps what they wrote.
Forget(P) ==
  /\ pc' = [p \in Procs |-> IF p \in P THEN "down" ELSE pc[p]]
  /\ op' = [p \in Procs |-> IF p \in P THEN NoRecord ELSE op[p]]
  /\ created' = [p \in Procs |-> p \notin P /\ created[p]]
  /\ writer' = IF writer \in P THEN NoProc ELSE writer
  /\ loaded' = [p \in Procs |-> p \notin P /\ loaded[p]]
  /\ known' = [p \in Procs |-> IF p \in P THEN {} ELSE known[p]]
  /\ manifested' = [p \in Procs |-> IF p \in P THEN {} ELSE manifested[p]]
  /\ fresh' = [p \in Procs |-> p \notin P /\ fresh[p]]
  /\ seen' = [p \in Procs |-> IF p \in P THEN {} ELSE seen[p]]

\* A process is killed; in the middle of write_all it leaves a fragment, before the
\* marker it leaves a new shard an orphan.
Crash(p) ==
  /\ pc[p] # "down"
  /\ Fault("crash")
  /\ Forget({p})
  /\ \/ /\ UNCHANGED lines
        /\ current' = [current EXCEPT ![p] = {}]
     \/ /\ At(p, "write") /\ "torn" \in Faults
        /\ lines' = [lines EXCEPT ![DateOf[op[p]]] = WithFragment(@)]
        /\ current' = [q \in Procs |-> IF q = p THEN {} ELSE current[q] \ {DateOf[op[p]]}]
  /\ orphans' = orphans \cup Unmarked({p})
  /\ UNCHANGED <<exists, stable, linked, pending, manifest, acked, lost>>

\* What may be left of shard d: nothing when its directory entry was not synced,
\* otherwise its synced lines and any part of the ones after them ("torn" allows
\* a part of a line).
AfterPowerLoss(d) ==
  LET kept == {SubSeq(lines[d], 1, n) : n \in stable[d] .. Len(lines[d])}
  IN kept \cup {WithFragment(s) :
                  s \in {t \in kept : "torn" \in Faults /\ Len(t) < Len(lines[d])}}

PowerLoss ==
  /\ Fault("power")
  /\ Forget(Procs)
  /\ current' = [p \in Procs |-> {}]
  /\ \E gone \in SUBSET (exists \ linked) :
       /\ exists' = exists \ gone
       /\ linked' = linked
       /\ orphans' = (orphans \cup Unmarked(Procs)) \ gone
       /\ lost' = lost \cup {r \in acked : DateOf[r] \in gone \cap orphans}
       /\ \E left \in [Dates -> UNION {AfterPowerLoss(d) : d \in Dates} \cup {<<>>}] :
            /\ \A d \in Dates : IF d \in gone THEN left[d] = <<>> ELSE left[d] \in AfterPowerLoss(d)
            /\ lines' = left
       /\ stable' = [d \in Dates |-> IF d \in gone THEN 0 ELSE stable[d]]
  /\ UNCHANGED <<pending, manifest, acked>>

-----------------------------------------------------------------------------

Init ==
  /\ lines = [d \in Dates |-> <<>>] /\ exists = {}
  /\ stable = [d \in Dates |-> 0] /\ linked = {} /\ orphans = {}
  /\ pending = NoMarker /\ manifest = {} /\ writer = NoProc
  /\ pc = [p \in Procs |-> "down"]
  /\ op = [p \in Procs |-> NoRecord]
  /\ created = [p \in Procs |-> FALSE]
  /\ loaded = [p \in Procs |-> FALSE]
  /\ known = [p \in Procs |-> {}]
  /\ current = [p \in Procs |-> {}]
  /\ manifested = [p \in Procs |-> {}]
  /\ fresh = [p \in Procs |-> FALSE]
  /\ seen = [p \in Procs |-> {}]
  /\ acked = {} /\ lost = {} /\ faults = 0

\* The steps of an operation that holds the writer lock.
Step(p) ==
  \/ IntegrateManifest(p) \/ Rescan(p) \/ RescanFails(p) \/ SettlePending(p) \/ FinishSettling(p)
  \/ RefreshTarget(p) \/ Reject(p) \/ Resync(p) \/ Create(p) \/ Prepare(p)
  \/ Write(p) \/ Sync(p) \/ Link(p) \/ Publish(p)

Next ==
  \/ \E p \in Procs : Recover(p) \/ Open(p) \/ Inventory(p) \/ Request(p)
                      \/ Step(p) \/ Crash(p)
  \/ PowerLoss

Spec == Init /\ [][Next]_vars

-----------------------------------------------------------------------------
(* Properties                                                               *)

\* The values of the variables.
Typed ==
  /\ lines \in [Dates -> Seq(Lines)]
  /\ exists \subseteq Dates /\ linked \subseteq Dates /\ orphans \subseteq Dates
  /\ stable \in [Dates -> Nat]
  /\ pending \in Marker
  /\ manifest \subseteq Lines
  /\ writer \in Procs \cup {NoProc}
  /\ pc \in [Procs -> Control]
  /\ op \in [Procs -> Records \cup {NoRecord}]
  /\ created \in [Procs -> BOOLEAN]
  /\ loaded \in [Procs -> BOOLEAN]
  /\ known \in [Procs -> SUBSET Records]
  /\ current \in [Procs -> SUBSET Dates]
  /\ manifested \in [Procs -> SUBSET Records]
  /\ fresh \in [Procs -> BOOLEAN]
  /\ seen \in [Procs -> SUBSET Lines]
  /\ acked \subseteq Records /\ lost \subseteq acked
  /\ faults \in Nat

\* An operation in progress holds the writer lock, for a record of its own.
Busy(p) == pc[p] \notin {"down", "idle"}
LockHeld == \A p \in Procs : Busy(p) => writer = p /\ op[p] \in Records

\* Every variable has its type, and an operation in progress holds the writer lock.
TypeOK == Typed /\ LockHeld

\* An orphan has no marker and no synced directory entry, and the appends that follow find
\* it existing and do not sync the directory: it may go with its records when the power is
\* lost.  Everything else that was acknowledged is kept.
Kept == acked \ lost

\* A record whose append returned success verifies when its shard is scanned:
\* no later append may merge with it or with a fragment in front of it.
AckedReadable == Kept \subseteq Visible

\* ... and it is among the synced lines of its shard (file.sync_all before Ok).
AckedSynced ==
  \A r \in Kept : \E i \in 1 .. stable[DateOf[r]] :
    i <= Len(lines[DateOf[r]]) /\ lines[DateOf[r]][i] = r

\* ... in a shard whose directory entry was synced too, unless it is an orphan.
AckedLinked == \A r \in Kept : DateOf[r] \in linked \cup orphans

\* What an acknowledgement promises, whatever crashes or loses power after it.
AckedDurable == AckedReadable /\ AckedSynced /\ AckedLinked

\* Bytes that are not known to be synced are always named by the marker, and the
\* size it remembers is never more than what a power loss leaves.
MarkerCoversUnsynced ==
  /\ \A d \in Dates : stable[d] < Len(lines[d]) => pending.shard = d
  /\ pending.shard \in exists => pending.prior <= stable[pending.shard]

\* Whatever the crash, the next startup recovery gets past the journal: no shard
\* has a complete line that does not verify, and cutting off a partial tail never
\* leaves a shard shorter than the marker remembers.
StartupNotBlocked ==
  /\ \A d \in Dates : ~ Corrupt(lines[d])
  /\ pending.shard \in exists => pending.prior <= Len(Complete(lines[pending.shard]))

\* What a crash or a power loss leaves behind can always be recovered.
Restartable == MarkerCoversUnsynced /\ StartupNotBlocked

\* A record that any process can read is known to every other process that has
\* an index, or that process will meet it before its next append: through the
\* manifest, through the marker, or because it has to scan everything again.
TailsNoticed ==
  writer = NoProc =>
    \A p \in {q \in Procs : loaded[q]} : \A r \in Visible :
      \/ r \in known[p]
      \/ NeedsScan(p) \/ r \in manifest \ seen[p]
      \/ pending.shard = DateOf[r]

\* The code never rewrites damage it finds: a scan or a recovery that meets a
\* complete line that does not verify leaves every byte of that shard in place.
CorruptUntouched ==
  [][\A d \in Dates : Corrupt(lines[d]) =>
       /\ Len(lines'[d]) >= Len(lines[d])
       /\ SubSeq(lines'[d], 1, Len(lines[d])) = lines[d]]_vars

\* The family as its clients see it: a log that accepts one record per identity and
\* keeps what it acknowledged, once the directory entry of an orphan has been synced.
Log == INSTANCE EvidenceLog WITH log <- Visible, acked <- {r \in Kept : DateOf[r] \notin orphans}
ImplementsEvidenceLog == Log!Spec
=============================================================================
