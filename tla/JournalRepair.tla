---------------------------- MODULE JournalRepair ----------------------------
(***************************************************************************)
(* The explicit repair of a corrupt shard (repair_corrupt_shard in crates/  *)
(* chronicle-store/src/journal.rs, called through RecoveryManager::         *)
(* repair_journal by chronicle-admin), as the repair dies between any two   *)
(* of its durable writes, several shards are damaged, and the app is        *)
(* started, appends and is closed between the calls.                        *)
(*                                                                          *)
(* Abstractions.  A line is the record it was written for and the damage    *)
(* that keeps it from verifying, or 0 (two damages never leave the same     *)
(* bytes); a shard's name is its date and, for a successor, the bytes it was *)
(* made from (the code: their digest).  Appends are whole and synced, since *)
(* CanonicalJournal has their failures; the marker is then the shard it     *)
(* names.  A repair holds the exclusive store lock from its first step to   *)
(* its last, so only its death comes between them.  A shard that a receipt  *)
(* without an end names is not damaged again: the checksums in that receipt *)
(* then refuse every further call on purpose.                               *)
(***************************************************************************)
EXTENDS Naturals, Sequences, FiniteSets, SequencesExt

CONSTANTS
  Records, DateOf, \* canonical records and the date that names their shard
  Before,          \* those of its date that come first: they are interchangeable
  Devices,         \* device IDs a user may pass to repair-journal
  NoShard, NoBytes, NoDevice,
  MaxDamages, MaxFaults \* bounds on damaged lines, and on deaths and failures

ASSUME RepairAssumption ==
  /\ Before \in [Records -> SUBSET Records] /\ NoDevice \notin Devices
  /\ MaxDamages \in Nat /\ MaxFaults \in Nat

VARIABLES
  family,   \* "events" or "chunks"
  files,    \* the active shards and their lines
  marker,   \* the shard the pending-mutation marker names, or NoShard
  archive,  \* the originals sealed in diagnostics/corrupt-shards
  receipts, \* the repair receipts
  losses,   \* the losses of the chunk journal that the event journal has
  app,      \* the recorder: is it open, and its in-memory index
  step,     \* what the running repair does next
  job,      \* the original it repairs, with the device ID it was given
  acked,    \* records whose append returned (history)
  damages, faults \* so far (bounds)
vars == <<family, files, marker, archive, receipts, losses, app, step, job, acked, damages, faults>>

-----------------------------------------------------------------------------
(* Shards                                                                    *)

Dates == {DateOf[r] : r \in Records}
Original(d) == [date |-> d, of |-> NoBytes]
Line(r) == [of |-> r, damage |-> 0]

\* The event that says what was lost; its ID is the digest of the damaged bytes.
Loss(bytes, device) == Line([lost |-> bytes, device |-> device])

Sound(bytes) == \A i \in DOMAIN bytes : bytes[i].damage = 0
Corrupt == {s \in DOMAIN files : ~ Sound(files[s])}
OnePerDate == \A s, t \in DOMAIN files : s.date = t.date => s = t

\* A full scan succeeds: one active shard per date, and every line verifies.
Readable == OnePerDate /\ Corrupt = {}

\* The shard of each date, as a full scan puts it into an index.
ActiveShards ==
  [d \in {s.date : s \in DOMAIN files} |-> CHOOSE s \in DOMAIN files : s.date = d]

With(s, bytes) == [t \in DOMAIN files \cup {s} |-> IF t = s THEN bytes ELSE files[t]]
Without(s) == [t \in DOMAIN files \ {s} |-> files[t]]

\* How many lines are in front of the first one that does not verify.
Prefix(bytes) == SelectInSeq(bytes, LAMBDA l : l.damage # 0) - 1

NoJob == [shard |-> NoShard, bytes |-> <<>>, device |-> NoDevice]
Sealed(j) == [shard |-> j.shard, bytes |-> j.bytes]
Receipt(j, done) == [shard |-> j.shard, bytes |-> j.bytes, completed |-> done]
Successor(j) == [date |-> j.shard.date, of |-> j.bytes]

\* Faulty variant: the loss is not recorded.
SurvivorsUnmarked(j) == SubSeq(j.bytes, 1, Prefix(j.bytes))

\* What the successor starts with: the verified prefix and, for events, the loss.
Survivors(j) ==
  SubSeq(j.bytes, 1, Prefix(j.bytes))
    \o (IF family = "events" THEN <<Loss(j.bytes, j.device)>> ELSE <<>>)

Found(s) == {q \in receipts : q.shard = s}

-----------------------------------------------------------------------------
(* The repair                                                                *)

\* Faulty variant: the job outlives its end.
EndedWithJob(s) == step' = s /\ job' = job

Ended(s) == step' = s /\ job' = IF s = "idle" THEN NoJob ELSE job

\* Faulty variant: nothing says that the shards of the family change.
AnnounceNothing(s) == marker' = marker

\* The marker comes first: it makes every other process scan the whole family
\* before it appends.
Announce(s) == marker' = s

\* A repair of a shard that was completed before changes nothing, and is no step here.
Begin(s, device) ==
  /\ step = "idle" /\ \A q \in Found(s) : ~ q.completed
  /\ Announce(s)
  /\ \/ \E q \in Found(s) :
          /\ step' = "succeed"
          /\ job' = [shard |-> s, bytes |-> q.bytes, device |-> device]
     \/ /\ Found(s) = {} /\ s \in Corrupt
        /\ step' = "seal"
        /\ job' = [shard |-> s, bytes |-> files[s], device |-> device]
     \/ /\ Found(s) = {} /\ s \notin Corrupt
        /\ UNCHANGED <<step, job>>
  /\ UNCHANGED <<family, files, archive, receipts, losses, app, acked, damages, faults>>

Seal ==
  /\ step = "seal"
  /\ archive' = archive \cup {Sealed(job)}
  /\ Ended("promise")
  /\ UNCHANGED <<family, files, marker, receipts, losses, app, acked, damages, faults>>

Promise ==
  /\ step = "promise"
  /\ receipts' = receipts \cup {Receipt(job, FALSE)}
  /\ Ended("succeed")
  /\ UNCHANGED <<family, files, marker, archive, losses, app, acked, damages, faults>>

\* A successor with other bytes than these (the app has appended to it since, or the
\* device ID is another one) ends the call.
Succeed ==
  /\ step = "succeed"
  /\ LET n == Successor(job)
     IN IF n \in DOMAIN files
        THEN files' = files /\ Ended(IF files[n] = Survivors(job) THEN "unlink" ELSE "idle")
        ELSE files' = With(n, Survivors(job)) /\ Ended("unlink")
  /\ UNCHANGED <<family, marker, archive, receipts, losses, app, acked, damages, faults>>

Unlink ==
  /\ step = "unlink"
  /\ IF job.shard \notin DOMAIN files
     THEN files' = files /\ Ended("record")
     ELSE IF files[job.shard] = job.bytes
     THEN files' = Without(job.shard) /\ Ended("record")
     ELSE files' = files /\ Ended("idle")
  /\ UNCHANGED <<family, marker, archive, receipts, losses, app, acked, damages, faults>>

\* The loss in a chunk journal is recorded in the event journal, where a loss recorded
\* under another device ID has the same stable ID and another body.
RecordLoss ==
  /\ step = "record"
  /\ LET loss == Loss(job.bytes, job.device)
         conflicts == family = "chunks" /\ \E l \in losses \ {loss} : l.of.lost = job.bytes
     IN /\ losses' = IF family = "chunks" /\ ~ conflicts THEN losses \cup {loss} ELSE losses
        /\ Ended(IF conflicts THEN "idle" ELSE "scan")
  /\ UNCHANGED <<family, files, marker, archive, receipts, app, acked, damages, faults>>

\* A full scan clears the marker and rewrites the manifest, by which an open app
\* notices that its index is out of date.
Rescan ==
  /\ step = "scan"
  /\ IF Readable
     THEN marker' = NoShard /\ app' = [app EXCEPT !.stale = app.open] /\ Ended("complete")
     ELSE UNCHANGED <<marker, app>> /\ Ended("idle")
  /\ UNCHANGED <<family, files, archive, receipts, losses, acked, damages, faults>>

Complete ==
  /\ step = "complete"
  /\ receipts' = (receipts \ {Receipt(job, FALSE)}) \cup {Receipt(job, TRUE)}
  /\ Ended("idle")
  /\ UNCHANGED <<family, files, marker, archive, losses, app, acked, damages, faults>>

\* The process dies, or its next write fails.
Die ==
  /\ step # "idle" /\ faults < MaxFaults
  /\ faults' = faults + 1 /\ Ended("idle")
  /\ UNCHANGED <<family, files, marker, archive, receipts, losses, app, acked, damages>>

-----------------------------------------------------------------------------
(* The recorder                                                              *)

Closed == [open |-> FALSE, active |-> <<>>, stale |-> FALSE]
Scanned == [open |-> TRUE, active |-> ActiveShards, stale |-> FALSE]

\* Startup recovery scans everything and clears the marker, or refuses to start.
Start ==
  /\ step = "idle" /\ ~ app.open /\ Readable
  /\ app' = Scanned /\ marker' = NoShard
  /\ UNCHANGED <<family, files, archive, receipts, losses, step, job, acked, damages, faults>>

Close ==
  /\ app.open /\ app' = Closed
  /\ UNCHANGED <<family, files, marker, archive, receipts, losses, step, job, acked, damages, faults>>

\* An index that is out of date, and a repair's marker, ask for a full scan.
RefreshedIndex ==
  IF app.stale \/ marker # NoShard THEN Scanned ELSE app

Target(r) ==
  LET active == RefreshedIndex.active
  IN IF DateOf[r] \in DOMAIN active THEN active[DateOf[r]] ELSE Original(DateOf[r])

\* An append refreshes its index, which fails when the family is not readable, and
\* goes to the shard the index calls active, damaged or not.  A record that is still
\* there is not written again; one that was quarantined is.
Record(r) ==
  /\ step = "idle" /\ app.open
  /\ Before[r] \subseteq acked
  /\ \A s \in DOMAIN files : \A i \in DOMAIN files[s] : files[s][i].of # r
  /\ app.stale \/ marker # NoShard => Readable
  /\ LET s == Target(r)
     IN /\ files' = With(s, (IF s \in DOMAIN files THEN files[s] ELSE <<>>) \o <<Line(r)>>)
        /\ app' = [RefreshedIndex EXCEPT !.active =
                     [d \in DOMAIN @ \cup {s.date} |-> IF d = s.date THEN s ELSE @[d]]]
  /\ marker' = NoShard /\ acked' = acked \cup {r}
  /\ UNCHANGED <<family, archive, receipts, losses, step, job, damages, faults>>

\* A line of a shard goes bad that no unfinished repair is about.
Damage(s, i) ==
  /\ step = "idle" /\ damages < MaxDamages
  /\ \A q \in receipts : q.completed \/ s \notin {q.shard, Successor(q)}
  /\ files[s][i].damage = 0
  /\ damages' = damages + 1 /\ files' = [files EXCEPT ![s][i].damage = damages']
  /\ UNCHANGED <<family, marker, archive, receipts, losses, app, step, job, acked, faults>>

-----------------------------------------------------------------------------

Init ==
  /\ family \in {"events", "chunks"}
  /\ files = [s \in {} |-> <<>>] /\ marker = NoShard
  /\ archive = {} /\ receipts = {} /\ losses = {}
  /\ app = Closed /\ step = "idle" /\ job = NoJob
  /\ acked = {} /\ damages = 0 /\ faults = 0

\* The shards a user can name: those that are active, and those once repaired.
Named == DOMAIN files \cup {q.shard : q \in receipts}

Repair == Seal \/ Promise \/ Succeed \/ Unlink \/ RecordLoss \/ Rescan \/ Complete

Next ==
  \/ \E s \in Named, d \in Devices : Begin(s, d)
  \/ Repair \/ Die
  \/ Start \/ Close \/ \E r \in Records : Record(r)
  \/ \E s \in DOMAIN files : \E i \in DOMAIN files[s] : Damage(s, i)

\* The shard whose repair a refused startup asks for, or that a repair left behind.
Blocks(s) == s \in Corrupt \/ \E q \in Found(s) : ~ q.completed

\* A repair that has begun goes on, and as long as the store does not open the user
\* repeats each repair that is needed, with each device ID he has used.
Fairness ==
  /\ WF_vars(Repair)
  /\ \A date \in Dates, device \in Devices :
       SF_vars(~ Readable /\ \E s \in DOMAIN files :
                 s.date = date /\ Blocks(s) /\ Begin(s, device))

Spec == Init /\ [][Next]_vars /\ Fairness

-----------------------------------------------------------------------------
(* Properties                                                                *)

\* Every variable keeps its type, and a receipt names an original that is archived.
TypeOK ==
  /\ family \in {"events", "chunks"}
  /\ \A s \in DOMAIN files :
       s.date \in Dates /\ \A i \in DOMAIN files[s] : files[s][i].damage \in 0 .. damages
  /\ marker \in Named \cup {NoShard}
  /\ \A q \in receipts : Sealed(q) \in archive /\ q.completed \in BOOLEAN
  /\ losses \subseteq {Loss(o.bytes, d) : o \in archive, d \in Devices}
  /\ app.open \in BOOLEAN /\ app.stale \in BOOLEAN /\ DOMAIN app.active \subseteq Dates
  /\ step \in {"idle", "seal", "promise", "succeed", "unlink", "record", "scan", "complete"}
  /\ (step = "idle") <=> (job = NoJob)
  /\ acked \subseteq Records /\ damages \in 0 .. MaxDamages /\ faults \in 0 .. MaxFaults

\* Whatever a repair cuts off, and wherever it dies, the bytes of every record that was
\* acknowledged stay in an active shard or in the archive ("archives the complete
\* damaged shard", docs/recovery.md).
NothingDiscarded ==
  \A r \in acked :
    \/ \E s \in DOMAIN files : \E i \in DOMAIN files[s] : files[s][i].of = r
    \/ \E o \in archive : \E i \in DOMAIN o.bytes : o.bytes[i].of = r

\* The successor of the original that q names, or the archive in its place, begins with
\* the lines that had verified and the loss.
Honest(q) ==
  LET n == Successor(q)
      verified == {i \in DOMAIN q.bytes : \A h \in 1 .. i : q.bytes[h].damage = 0}
      next == Cardinality(verified) + 1
      Begins(bytes) ==
        /\ verified \subseteq DOMAIN bytes
        /\ \A i \in verified : bytes[i].of = q.bytes[i].of
        /\ family = "events" =>
             next \in DOMAIN bytes /\ \E d \in Devices : bytes[next].of = Loss(q.bytes, d).of
  IN \/ n \in DOMAIN files /\ Begins(files[n])
     \/ \E o \in archive : o.shard = n /\ Begins(o.bytes)

\* Once the damaged original is gone, its successor (or the archive, if that was
\* repaired in its turn) begins with exactly what had verified and, in the event
\* journal, the record of the loss; a repair of the chunk journal is not completed
\* before the event journal has that record.
SuccessorHonest ==
  \A q \in receipts :
    /\ family = "chunks" /\ q.completed => \E l \in losses : l.of.lost = q.bytes
    /\ q.shard \notin DOMAIN files => Honest(q)

\* Whatever a repair cuts off is kept and accounted for.
RepairHonest == NothingDiscarded /\ SuccessorHonest

\* No death of a repair, and nothing the app does between two calls, leaves a store
\* behind that neither opens nor can be repaired by the same command again.
Reopens == []<>Readable
=============================================================================
