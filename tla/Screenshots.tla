------------------------------ MODULE Screenshots ------------------------------
(***************************************************************************)
(* The screenshot store: an image is written beside its observation by an   *)
(* additive transaction (artifacts.rs), expires and is deleted by a          *)
(* confirmed retention batch (retention.rs), and whatever a failed step, a   *)
(* dead process or a power loss left half done is finished by recovery       *)
(* (recovery.rs), which also replays the lifecycle records into SQLite       *)
(* (projection.rs).                                                          *)
(*                                                                           *)
(* Every operation holds the store lock and the screenshot lock to its end,  *)
(* so operations do not overlap: what interleaves with their steps is        *)
(* failure, death, power loss, the clock and files removed by hand.          *)
(*                                                                           *)
(* Abstractions.  An instant is a number, two of them to a day; a journal is *)
(* a sequence of intact records per day (CanonicalJournal models how it      *)
(* stays intact), read in day order.  All images have one size and one       *)
(* lifetime.                                                                 *)
(***************************************************************************)
EXTENDS Integers, Sequences, FiniteSets, SequencesExt

CONSTANTS
  Images,       \* image artifact IDs, numbered as they come into use
  NoImage,      \* no operation is under way
  Lifetime,     \* instants from an observation to its image's expiry
  Quota,        \* images the managed-image quota has room for
  AcrossDays,   \* whether a clock correction may reach the day before
  MaxInstant,   \* bound on the clock
  MaxFaults     \* bound on failures, deaths and lost files

ASSUME ScreenshotsAssumption ==
  /\ Images \subseteq Nat /\ IsFiniteSet(Images) /\ NoImage \notin Images
  /\ Lifetime \in Nat \ {0} /\ Quota \in Nat
  /\ AcrossDays \in BOOLEAN
  /\ MaxInstant \in Nat \ {0} /\ MaxFaults \in Nat

Instants == 1 .. MaxInstant
Day(t) == (t + 1) \div 2
Days == 1 .. Day(MaxInstant)

WriteOutcomes == {"WriteCompleted", "WriteFailed"}
Terminals == WriteOutcomes \cup {"Missing"}
Actions == {"Observed", "DeleteRequested", "DeleteCompleted"} \cup Terminals
Event == [action : Actions, image : Images, recorded : Instants, requested : Instants \cup {0}]
Places == {"none", "provisional", "final"}
States == {"none", "write-pending", "retained", "write-failed", "missing",
           "delete-pending", "expired"}

VARIABLES
  now,         \* the wall clock
  journal,     \* the event records of each day
  file,        \* where the image's bytes are
  settled,     \* where a power loss would leave them: the last synced place
  rows,        \* retention_state: the projected state of each image
  cursor,      \* journal_cursors: records projected of each day
  open,        \* a process has recovered the store and uses it
  step, image, at, \* the step of the operation, the image and the instant it is about
  batch,       \* images the retention batch has still to delete
  preview,     \* the retention preview the user holds
  confirmed,   \* images of the previews that were applied (history)
  lost,        \* images whose file was removed by hand (history)
  faults       \* failures, deaths and lost files so far (bound)

disk   == <<file, settled>>
index  == <<rows, cursor>>
call   == <<open, step, image, at, batch>>
ghost  == <<confirmed, lost>>
vars   == <<now, journal, disk, index, call, preview, ghost, faults>>

-----------------------------------------------------------------------------
(* Records                                                                   *)

Logged == UNION {ToSet(journal[d]) : d \in Days}
Of(i) == {e \in Logged : e.image = i}
Has(i, action) == \E e \in Logged : e.image = i /\ e.action = action
HasTerminal(i) == \E a \in Terminals : Has(i, a)
Recorded(i, action) == CHOOSE e \in Logged : e.image = i /\ e.action = action

\* The order in which scan_all returns them: day by day, in file order.  A shard has a
\* record once.
Position(e) == CHOOSE k \in DOMAIN journal[Day(e.recorded)] : journal[Day(e.recorded)][k] = e
Earlier(e, f) ==
  \/ Day(e.recorded) < Day(f.recorded)
  \/ Day(e.recorded) = Day(f.recorded) /\ Position(e) < Position(f)
Before(e) == {f \in Of(e.image) : Earlier(f, e)}
Latest(events) == CHOOSE e \in events : \A f \in events \ {e} : Earlier(f, e)

NewEvent(action, i, t, requested) ==
  [action |-> action, image |-> i, recorded |-> t, requested |-> requested]

\* append_event: to the shard of the record's own date, once.
AppendEvent(e) ==
  journal' = [journal EXCEPT ![Day(e.recorded)] = IF e \in ToSet(@) THEN @ ELSE Append(@, e)]

\* The state an event leaves behind (ScreenshotLifecycle.projected_state).
StateAfter(action) ==
  CASE action = "Observed"        -> "write-pending"
    [] action = "WriteCompleted"  -> "retained"
    [] action = "WriteFailed"     -> "write-failed"
    [] action = "Missing"         -> "missing"
    [] action = "DeleteRequested" -> "delete-pending"
    [] action = "DeleteCompleted" -> "expired"

\* The state that records of one image leave behind.
StateIn(events) == IF events = {} THEN "none" ELSE StateAfter(Latest(events).action)

-----------------------------------------------------------------------------
(* Projection                                                                *)

\* validate_lifecycle_projection, for a projected state of the image.
Projectable(state, e) ==
  CASE e.action \in WriteOutcomes    -> state = "write-pending"
    [] e.action = "Missing"          -> state \in {"write-pending", "retained"}
    [] e.action = "DeleteRequested"  -> state \notin {"none", "delete-pending", "expired"}
    [] e.action = "DeleteCompleted"  -> state = "delete-pending"
    [] OTHER                         -> TRUE

Projected(states, e) == [states EXCEPT ![e.image] = StateAfter(e.action)]

\* Whether projecting every record in order into an empty index goes through, and what
\* that gives.
Replayable == \A e \in Logged : Projectable(StateIn(Before(e)), e)
Replayed == [i \in Images |-> StateIn(Of(i))]

AllProjected == \A d \in Days : cursor[d] = Len(journal[d])

\* project_record takes the next record of its shard, or one it has already.
Behind(e) == cursor[Day(e.recorded)] < Position(e)
Projects(e) ==
  Behind(e) => /\ cursor[Day(e.recorded)] + 1 = Position(e)
               /\ Projectable(rows[e.image], e)

Project(e) ==
  IF Behind(e)
  THEN /\ rows' = Projected(rows, e)
       /\ cursor' = [cursor EXCEPT ![Day(e.recorded)] = @ + 1]
  ELSE UNCHANGED index

-----------------------------------------------------------------------------
(* Files                                                                     *)

Move(i, place) == file' = [file EXCEPT ![i] = place] /\ UNCHANGED settled

\* Syncing a directory settles every image observed on its day; an unobserved image
\* has only the provisional file that atomic_write has synced.
DirectoryOf(i) == Day(Recorded(i, "Observed").recorded)
Neighbours(i) ==
  {i} \cup {j \in Images : Has(j, "Observed") /\ Has(i, "Observed") /\ DirectoryOf(j) = DirectoryOf(i)}
SyncDirectory(i) ==
  /\ settled' = [j \in Images |-> IF j \in Neighbours(i) THEN file[j] ELSE settled[j]]
  /\ UNCHANGED file

\* Moves the file and syncs its directory.
MoveSynced(i, place) ==
  /\ file' = [file EXCEPT ![i] = place]
  /\ settled' = [j \in Images |-> IF j = i THEN place
                                  ELSE IF j \in Neighbours(i) THEN file[j] ELSE settled[j]]

Used == {i \in Images : file[i] # "none"}

-----------------------------------------------------------------------------
(* The steps of an operation                                                 *)

Idle == open /\ step = "ready"
Go(s) == step' = s /\ UNCHANGED <<open, image, at, batch>>
Done == step' = "ready" /\ image' = NoImage /\ at' = 0 /\ batch' = <<>>
Finish == Done /\ UNCHANGED open

\* The operation returns the error of the step; what it has done so far stays.
Fault == faults < MaxFaults /\ faults' = faults + 1

\* An append that fails may have left its record behind or not.
AppendFails(e) == AppendEvent(e) \/ UNCHANGED journal

-----------------------------------------------------------------------------
(* Retaining an image: prepare_retain and PreparedScreenshotRetention::commit *)

Observation(i)     == NewEvent("Observed", i, at, 0)
WriteCompletion(i) == NewEvent("WriteCompleted", i, at, 0)

\* ensure_candidate_fits.
Fits == Cardinality(Used) < Quota

\* The ID is new, no file is in the way, the quota has room: the bytes are written
\* to the provisional file, atomically and synced.  IDs come into use in their order.
Provision(i) ==
  /\ Idle /\ ~ Has(i, "Observed") /\ file[i] = "none" /\ Fits
  /\ \A j \in Images : j < i => Has(j, "Observed") \/ file[j] # "none"
  /\ MoveSynced(i, "provisional")
  /\ step' = "observe" /\ image' = i /\ at' = now
  /\ UNCHANGED <<now, journal, index, open, batch, preview, ghost, faults>>

Observe ==
  /\ step = "observe"
  /\ AppendEvent(Observation(image)) /\ Go("promote")
  /\ UNCHANGED <<now, disk, index, preview, ghost, faults>>

\* A failed append takes the provisional file away, whatever became of the record.
ObserveFails ==
  /\ step = "observe" /\ Fault
  /\ AppendFails(Observation(image))
  /\ MoveSynced(image, "none")
  /\ Finish
  /\ UNCHANGED <<now, index, preview, ghost>>

Promote ==
  /\ step = "promote" /\ file[image] = "provisional"
  /\ Move(image, "final") /\ Go("settle")
  /\ UNCHANGED <<now, journal, index, preview, ghost, faults>>

Settle ==
  /\ step = "settle"
  /\ SyncDirectory(image) /\ Go("complete")
  /\ UNCHANGED <<now, journal, index, preview, ghost, faults>>

CompleteWrite ==
  /\ step = "complete"
  /\ AppendEvent(WriteCompletion(image)) /\ Go("projectWrite")
  /\ UNCHANGED <<now, disk, index, preview, ghost, faults>>

CompleteWriteFails ==
  /\ step = "complete" /\ Fault
  /\ AppendFails(WriteCompletion(image)) /\ Finish
  /\ UNCHANGED <<now, disk, index, preview, ghost>>

ProjectWrite ==
  /\ step = "projectWrite" /\ Projects(Observation(image))
  /\ Project(Observation(image)) /\ Go("projectCompletion")
  /\ UNCHANGED <<now, journal, disk, preview, ghost, faults>>

ProjectWriteCompletion ==
  /\ step = "projectCompletion" /\ Projects(WriteCompletion(image))
  /\ Project(WriteCompletion(image)) /\ Finish
  /\ UNCHANGED <<now, journal, disk, preview, ghost, faults>>

-----------------------------------------------------------------------------
(* Retention: preview_retention and apply_retention                          *)

\* The last lifecycle record in date order gives an image its state.
LastState(i) == StateIn({e \in Of(i) : e.action # "Observed"})
Expires(i) == Recorded(i, "Observed").recorded + Lifetime
Observed == {i \in Images : Has(i, "Observed")}

\* Faulty variant: an image whose deletion was requested is a candidate again.
EligibleAnyState(cutoff) ==
  {i \in Observed : /\ LastState(i) \in {"retained", "delete-pending"} /\ file[i] = "final"
                    /\ Expires(i) <= cutoff}

\* The inventory digest.
Inventory == [i \in Observed |-> <<LastState(i), file[i] = "final">>]
Eligible(cutoff) ==
  {i \in Observed : /\ LastState(i) = "retained" /\ file[i] = "final"
                    /\ Expires(i) <= cutoff}
NoPreview == [cutoff |-> 0, inventory |-> <<>>, candidates |-> {}]

Preview ==
  /\ Idle /\ Eligible(now) # {}
  /\ preview' = [cutoff |-> now, inventory |-> Inventory, candidates |-> Eligible(now)]
  /\ UNCHANGED <<now, journal, disk, index, call, ghost, faults>>

\* Faulty variant: the batch is what is eligible now, whatever was previewed.
CurrentPreviewAny == preview.cutoff <= now

\* The preview still describes the store.
CurrentPreview ==
  /\ preview.cutoff <= now
  /\ preview.inventory = Inventory
  /\ preview.candidates = Eligible(preview.cutoff)

\* The user confirms the preview; its batch goes in ID order, which no property tells
\* apart from any other.
Apply ==
  /\ Idle /\ preview # NoPreview /\ CurrentPreview
  /\ \E b \in SetToSeqs(Eligible(preview.cutoff)) :
       /\ b # <<>>
       /\ step' = "request" /\ image' = Head(b) /\ batch' = Tail(b)
  /\ at' = now
  /\ confirmed' = confirmed \cup preview.candidates
  /\ preview' = NoPreview
  /\ UNCHANGED <<now, journal, disk, index, open, lost, faults>>

Request(i)          == NewEvent("DeleteRequested", i, at, at)
DeleteCompletion(i) == NewEvent("DeleteCompleted", i, at, at)

Ask ==
  /\ step = "request"
  /\ AppendEvent(Request(image)) /\ Go("projectRequest")
  /\ UNCHANGED <<now, disk, index, preview, ghost, faults>>

AskFails ==
  /\ step = "request" /\ Fault
  /\ AppendFails(Request(image)) /\ Finish
  /\ UNCHANGED <<now, disk, index, preview, ghost>>

ProjectRequest ==
  /\ step = "projectRequest" /\ Projects(Request(image))
  /\ Project(Request(image)) /\ Go("unlink")
  /\ UNCHANGED <<now, journal, disk, preview, ghost, faults>>

\* A file that is already gone only has its directory synced.
Unlink ==
  /\ step = "unlink"
  /\ Move(image, "none") /\ Go("settleUnlink")
  /\ UNCHANGED <<now, journal, index, preview, ghost, faults>>

SettleUnlink ==
  /\ step = "settleUnlink"
  /\ SyncDirectory(image) /\ Go("completeDelete")
  /\ UNCHANGED <<now, journal, index, preview, ghost, faults>>

CompleteDelete ==
  /\ step = "completeDelete"
  /\ AppendEvent(DeleteCompletion(image)) /\ Go("projectDelete")
  /\ UNCHANGED <<now, disk, index, preview, ghost, faults>>

CompleteDeleteFails ==
  /\ step = "completeDelete" /\ Fault
  /\ AppendFails(DeleteCompletion(image)) /\ Finish
  /\ UNCHANGED <<now, disk, index, preview, ghost>>

\* The batch goes on with its next image.
ProjectDelete ==
  /\ step = "projectDelete" /\ Projects(DeleteCompletion(image))
  /\ Project(DeleteCompletion(image))
  /\ IF batch = <<>> THEN Finish
     ELSE /\ step' = "request" /\ image' = Head(batch) /\ batch' = Tail(batch)
          /\ UNCHANGED <<open, at>>
  /\ UNCHANGED <<now, journal, disk, preview, ghost, faults>>

\* The projector refuses a record; the operation returns its error, and what it made
\* durable stays.
Subject ==
  CASE step = "projectWrite"      -> Observation(image)
    [] step = "projectCompletion" -> WriteCompletion(image)
    [] step = "projectRequest"    -> Request(image)
    [] step = "projectDelete"     -> DeleteCompletion(image)
ProjectionRefuses ==
  /\ step \in {"projectWrite", "projectCompletion", "projectRequest", "projectDelete"}
  /\ ~ Projects(Subject)
  /\ Finish
  /\ UNCHANGED <<now, journal, disk, index, preview, ghost, faults>>

\* A rename, an unlink, a sync or a transaction fails.
OtherStepFails ==
  /\ step \in {"promote", "settle", "projectWrite", "projectCompletion", "projectRequest",
              "unlink", "settleUnlink", "projectDelete"}
  /\ Fault /\ Finish
  /\ UNCHANGED <<now, journal, disk, index, preview, ghost>>

-----------------------------------------------------------------------------
(* Recovery: recover_startup, at startup and when a live engine is behind    *)

\* validate_lifecycle_chains, for a record and those of its image that it has met before.
Chained(e) ==
  /\ e.action \in WriteOutcomes => \A f \in Before(e) : f.action \notin Terminals
  /\ e.action = "Missing" =>
       \A f \in Before(e) : f.action \in Terminals => f.action = "WriteCompleted"
  /\ e.action = "DeleteRequested" => \A f \in Before(e) : f.action # "DeleteRequested"
  /\ e.action = "DeleteCompleted" =>
       \E f \in Before(e) : f.action = "DeleteRequested" /\ f.requested = e.requested
ChainsValid == \A e \in Logged : Chained(e)

Unwritten == {i \in Observed : ~ HasTerminal(i)}
Undeleted == {i \in Images : Has(i, "DeleteRequested") /\ ~ Has(i, "DeleteCompleted")}
Stray == {i \in Images : file[i] = "provisional" /\ i \notin Unwritten}
Vanished ==
  {i \in Observed : /\ Has(i, "WriteCompleted") /\ ~ Has(i, "Missing")
                    /\ ~ Has(i, "DeleteRequested") /\ file[i] # "final"}

\* ensure_recovery_time: the clock has not passed the record that is waiting.
Reached(i, action) == Recorded(i, action).recorded <= at

Reconciled == Unwritten \cup Undeleted \cup Stray \cup Vanished = {}

\* A live engine recovers when the projection of an event failed and another event comes,
\* which may be soon or never: any time will do.  One that would find nothing to do is left
\* out.
Recover ==
  /\ step = "ready" /\ ChainsValid
  /\ open => ~ (Reconciled /\ AllProjected)
  /\ step' = "recover" /\ at' = now
  /\ UNCHANGED <<now, journal, disk, index, open, image, batch, preview, ghost, faults>>

RecoverPromotion(i) ==
  /\ step = "recover" /\ i \in Unwritten /\ Reached(i, "Observed")
  /\ file[i] = "provisional"
  /\ MoveSynced(i, "final")
  /\ UNCHANGED <<now, journal, index, call, preview, ghost, faults>>

\* Faulty variant: a final file that is already there is not synced again.
RecoverWriteUnsynced(i) ==
  /\ step = "recover" /\ i \in Unwritten /\ Reached(i, "Observed")
  /\ file[i] # "provisional"
  /\ AppendEvent(NewEvent(IF file[i] = "final" THEN "WriteCompleted" ELSE "WriteFailed",
                         i, at, 0))
  /\ UNCHANGED <<now, disk, index, call, preview, ghost, faults>>

\* The outcome is what the disk says, once the directory is synced.
RecoverWrite(i) ==
  /\ step = "recover" /\ i \in Unwritten /\ Reached(i, "Observed")
  /\ file[i] # "provisional"
  /\ IF file[i] = "final" THEN SyncDirectory(i) ELSE UNCHANGED disk
  /\ AppendEvent(NewEvent(IF file[i] = "final" THEN "WriteCompleted" ELSE "WriteFailed",
                         i, at, 0))
  /\ UNCHANGED <<now, index, call, preview, ghost, faults>>

RecoverMissing(i) ==
  /\ step = "recover" /\ i \in Vanished /\ Reached(i, "WriteCompleted")
  /\ AppendEvent(NewEvent("Missing", i, at, 0))
  /\ UNCHANGED <<now, disk, index, call, preview, ghost, faults>>

RecoverStray(i) ==
  /\ step = "recover" /\ i \in Stray
  /\ MoveSynced(i, "none")
  /\ UNCHANGED <<now, journal, index, call, preview, ghost, faults>>

\* Requests are finished when every image has its outcome and no stray is left.
RecoverUnlink(i) ==
  /\ step = "recover" /\ Unwritten = {} /\ Vanished = {} /\ Stray = {}
  /\ i \in Undeleted /\ Reached(i, "DeleteRequested")
  /\ file[i] # "none" \/ settled[i] # "none"
  /\ MoveSynced(i, "none")
  /\ UNCHANGED <<now, journal, index, call, preview, ghost, faults>>

\* Faulty variant: a file that an earlier attempt has unlinked is an error.
RecoverDeleteFound(i) ==
  /\ step = "recover" /\ Unwritten = {} /\ Vanished = {} /\ Stray = {}
  /\ i \in Undeleted /\ Reached(i, "DeleteRequested") /\ file[i] # "none"
  /\ MoveSynced(i, "none")
  /\ AppendEvent(NewEvent("DeleteCompleted", i, at, Recorded(i, "DeleteRequested").requested))
  /\ UNCHANGED <<now, index, call, preview, ghost, faults>>

RecoverDelete(i) ==
  /\ step = "recover" /\ Unwritten = {} /\ Vanished = {} /\ Stray = {}
  /\ i \in Undeleted /\ Reached(i, "DeleteRequested")
  /\ file[i] = "none" /\ settled[i] = "none"
  /\ AppendEvent(NewEvent("DeleteCompleted", i, at, Recorded(i, "DeleteRequested").requested))
  /\ UNCHANGED <<now, disk, index, call, preview, ghost, faults>>

\* project_unindexed: the next record of the earliest shard that has one.
Unindexed == {d \in Days : cursor[d] < Len(journal[d])}
RecoverProjection ==
  /\ step = "recover" /\ Reconciled
  /\ \E d \in Unindexed :
       LET e == journal[d][cursor[d] + 1]
       IN  /\ \A d2 \in Unindexed : d <= d2
           /\ Projectable(rows[e.image], e)
           /\ Project(e)
  /\ UNCHANGED <<now, journal, disk, call, preview, ghost, faults>>

\* Faulty variant: the rebuilt cursors are past the last record.
RebuildPastEnd ==
  /\ step = "recover" /\ Reconciled /\ ~ AllProjected /\ Replayable
  /\ rows' = Replayed /\ cursor' = [d \in Days |-> Len(journal[d]) + 1]
  /\ UNCHANGED <<now, journal, disk, call, preview, ghost, faults>>

\* A record the index refuses makes recovery build a new one.
Rebuild ==
  /\ step = "recover" /\ Reconciled
  /\ \E d \in Unindexed :
       LET e == journal[d][cursor[d] + 1]
       IN  (\A d2 \in Unindexed : d <= d2) /\ ~ Projectable(rows[e.image], e)
  /\ Replayable
  /\ rows' = Replayed /\ cursor' = [d \in Days |-> Len(journal[d])]
  /\ UNCHANGED <<now, journal, disk, call, preview, ghost, faults>>

Recovered ==
  /\ step = "recover" /\ Reconciled /\ AllProjected
  /\ Done /\ open' = TRUE
  /\ UNCHANGED <<now, journal, disk, index, preview, ghost, faults>>

\* Recovery gives up at a record its clock has not reached; a later one finishes.
Defer ==
  /\ step = "recover"
  /\ \/ \E i \in Unwritten : ~ Reached(i, "Observed")
     \/ \E i \in Vanished : ~ Reached(i, "WriteCompleted")
     \/ \E i \in Undeleted : ~ Reached(i, "DeleteRequested")
  /\ Finish
  /\ UNCHANGED <<now, journal, disk, index, preview, ghost, faults>>

RecoveryFails ==
  /\ step = "recover" /\ Fault /\ Finish
  /\ UNCHANGED <<now, journal, disk, index, preview, ghost>>

-----------------------------------------------------------------------------
(* The environment                                                           *)

\* The process dies; when the machine loses its power, unsynced files are where they
\* were last synced, or not.
Crash ==
  /\ open \/ step = "recover"
  /\ Fault
  /\ file' \in [Images -> Places]
  /\ \A i \in Images : file'[i] \in {file[i], settled[i]}
  /\ settled' = file'
  /\ Done /\ open' = FALSE /\ preview' = NoPreview
  /\ UNCHANGED <<now, journal, index, ghost>>

\* The app is closed between two operations, with whatever they left unfinished.
Quit ==
  /\ Idle /\ open' = FALSE /\ preview' = NoPreview
  /\ UNCHANGED <<now, journal, disk, index, step, image, at, batch, ghost, faults>>

\* A file is removed by hand.
Lose(i) ==
  /\ step = "ready" /\ file[i] = "final" /\ Fault
  /\ MoveSynced(i, "none")
  /\ lost' = lost \cup {i}
  /\ UNCHANGED <<now, journal, index, call, preview, confirmed>>

\* The index file is damaged or deleted while no process has it open.
LoseIndex ==
  /\ ~ open /\ step = "ready" /\ Fault /\ cursor # [d \in Days |-> 0]
  /\ rows' = [i \in Images |-> "none"] /\ cursor' = [d \in Days |-> 0]
  /\ UNCHANGED <<now, journal, disk, call, preview, ghost>>

Tick ==
  /\ now < MaxInstant /\ now' = now + 1
  /\ UNCHANGED <<journal, disk, index, call, preview, ghost, faults>>

\* The wall clock is corrected to an earlier instant.
Correct ==
  /\ Fault
  /\ \E t \in 1 .. now - 1 :
       /\ AcrossDays \/ Day(t) = Day(now)
       /\ now' = t
  /\ UNCHANGED <<journal, disk, index, call, preview, ghost>>

-----------------------------------------------------------------------------

Init ==
  /\ now = 1
  /\ journal = [d \in Days |-> <<>>]
  /\ file = [i \in Images |-> "none"] /\ settled = file
  /\ rows = [i \in Images |-> "none"] /\ cursor = [d \in Days |-> 0]
  /\ open = FALSE /\ step = "ready" /\ image = NoImage /\ at = 0 /\ batch = <<>>
  /\ preview = NoPreview /\ confirmed = {} /\ lost = {} /\ faults = 0

Retain ==
  \/ \E i \in Images : Provision(i)
  \/ Observe \/ Promote \/ Settle \/ CompleteWrite \/ ProjectWrite \/ ProjectWriteCompletion

Delete ==
  \/ Ask \/ ProjectRequest \/ Unlink \/ SettleUnlink \/ CompleteDelete \/ ProjectDelete

Recovery ==
  \/ \E i \in Images : \/ RecoverPromotion(i) \/ RecoverWrite(i) \/ RecoverMissing(i)
                      \/ RecoverStray(i) \/ RecoverUnlink(i) \/ RecoverDelete(i)
  \/ RecoverProjection \/ Rebuild \/ Recovered \/ Defer

Failure ==
  \/ ObserveFails \/ CompleteWriteFails \/ AskFails \/ CompleteDeleteFails
  \/ ProjectionRefuses \/ OtherStepFails \/ RecoveryFails

Environment ==
  \/ Crash \/ Quit \/ (\E i \in Images : Lose(i)) \/ LoseIndex \/ Tick \/ Correct

Next == Retain \/ Preview \/ Apply \/ Delete \/ Recover \/ Recovery \/ Failure \/ Environment

Spec == Init /\ [][Next]_vars

\* An operation that has begun goes on, an app that is closed is started again, and time
\* passes.  Nothing makes a live engine recover: a deletion that failed after its request
\* was projected leaves no projection behind, and no caller asks for the reconciliation.
Fairness ==
  /\ WF_vars(Tick)
  /\ WF_vars(step # "ready" /\ (Retain \/ Delete \/ ProjectionRefuses \/ Recovery))
  /\ WF_vars(~ open /\ Recover)
LiveSpec == Spec /\ Fairness

-----------------------------------------------------------------------------
(* Properties                                                                *)

Steps == {"ready", "observe", "promote", "settle", "complete", "projectWrite",
          "projectCompletion", "request", "projectRequest", "unlink", "settleUnlink",
          "completeDelete", "projectDelete", "recover"}

\* Every variable keeps its type.
TypeOK ==
  /\ now \in Instants /\ at \in Instants \cup {0}
  /\ journal \in [Days -> Seq(Event)]
  /\ file \in [Images -> Places] /\ settled \in [Images -> Places]
  /\ rows \in [Images -> States]
  /\ cursor \in [Days -> Nat] /\ \A d \in Days : cursor[d] <= Len(journal[d])
  /\ open \in BOOLEAN /\ step \in Steps /\ image \in Images \cup {NoImage} /\ batch \in Seq(Images)
  /\ preview.cutoff \in Instants \cup {0} /\ preview.candidates \subseteq Images
  /\ confirmed \subseteq Images /\ lost \subseteq Images
  /\ faults \in 0 .. MaxFaults

\* An image the journal calls retained has its bytes at the final path, where no power
\* loss can take them back, unless somebody removed the file by hand.
RetainedIsStored ==
  \A i \in Images \ lost :
    Has(i, "WriteCompleted") /\ ~ Has(i, "DeleteRequested")
      => file[i] = "final" /\ settled[i] = "final"

\* An image the journal calls deleted, or never written, has no file under its final
\* path, and no power loss brings one back.
DeletedIsGone ==
  \A i \in Images :
    Has(i, "DeleteCompleted") \/ Has(i, "WriteFailed")
      => file[i] # "final" /\ settled[i] # "final"

\* The files are what the canonical records say of them, whatever step failed or died
\* between the record and the file.
FilesAgree == RetainedIsStored /\ DeletedIsGone

\* No sequence of failures leaves lifecycle records behind that the next startup
\* refuses, which would keep the store closed for good; an empty index can always be
\* rebuilt from them, and the index that has projected all of them is that one.
RecordsReplayable ==
  ChainsValid /\ Replayable /\ (AllProjected => rows = Replayed)

\* Only recovery from a request in the journal, for an expired image of a preview the
\* user confirmed, or somebody's hand, removes a retained image.
OnlyConfirmedUnlinked ==
  [][\A i \in Images :
       file[i] = "final" /\ file'[i] # "final" /\ ~ Has(i, "WriteFailed")
         => \/ i \in lost'
            \/ i \in Unwritten
            \/ i \in confirmed /\ Has(i, "DeleteRequested")
               /\ Expires(i) <= Recorded(i, "DeleteRequested").recorded]_vars

\* Once the app is closed or has died, the next start gets through: it opens the store with
\* an outcome for every image that was begun and a completion for every deletion that was
\* requested, whatever earlier runs and earlier starts left half done.
PendingSettles == ~ open ~> (open /\ Unwritten \cup Undeleted = {})
=============================================================================
