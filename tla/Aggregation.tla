----------------------------- MODULE Aggregation -----------------------------
(***************************************************************************)
(* Five-minute aggregation: crates/chronicle-engine/src/reconcile.rs,       *)
(* chunker.rs and ingest.rs over the chunk journal and the projection.      *)
(* Events arrive late, through three entry points; a due bucket gets a      *)
(* chunk revision that is appended to the shard of its generation date and  *)
(* then projected; startup replays what is not projected and drains every   *)
(* due bucket.  Crashes, failed writes, a lost index, upgrades and a clock   *)
(* that goes back come between the steps.                                   *)
(*                                                                          *)
(* Abstractions.  One device and one store generation.  An append to a      *)
(* journal is one step: CanonicalJournal is about what happens inside it.   *)
(* The digest of a chunk is the set of its events.  Due[b] is the end of    *)
(* bucket b plus its effective cadence, which the query and build_chunk     *)
(* compute alike; no time stands between Due[b] - 1 and Due[b], so b has    *)
(* started when the clock is at Due[b] - 1.  Store lock and query snapshot  *)
(* are held throughout finalize_due: no query comes in between.             *)
(***************************************************************************)
EXTENDS Integers, Sequences, FiniteSets

CONSTANTS
  N,            \* buckets 1 .. N in the order of their start
  Due,          \* Due[b]: when bucket b may be finalized
  Events, Kind, \* the events, and what each is (Kinds)
  In,           \* In[e]: the buckets event e belongs to
  Versions, First, NoVersion, \* aggregator versions, the installed one, none
  MaxTime,      \* bound on the clock
  DayLength,    \* instants per journal shard
  BatchSize,    \* AGGREGATION_BATCH_SIZE
  Faults, MaxFaults \* which failures happen, and how many

Buckets == 1 .. N
Times   == 0 .. MaxTime
NoTime  == -1
Day(t)  == t \div DayLength
Days    == 0 .. Day(MaxTime)
Kinds   == {"observation", "image", "startup-gap", "runtime-gap"}
Gaps    == {e \in Events : Kind[e] \in {"startup-gap", "runtime-gap"}}
Later(s, t) == IF s < t THEN t ELSE s
Latest(S) == CHOOSE t \in S : \A u \in S : u <= t

ASSUME AggregationAssumption ==
  /\ N \in Nat \ {0} /\ MaxTime \in Nat /\ MaxFaults \in Nat
  /\ DayLength \in Nat \ {0} /\ BatchSize \in Nat \ {0}
  /\ Due \in [Buckets -> Times \ {0}] /\ \A b \in Buckets \ {1} : Due[b-1] < Due[b]
  /\ Kind \in [Events -> Kinds]
  /\ In \in [Events -> (SUBSET Buckets) \ {{}}]
  /\ First \in Versions /\ NoVersion \notin Versions

VARIABLES
  now, peak,  \* the clock, and the latest it has been
  version,    \* the installed aggregator version
  recorded,   \* recorded_at of every event that has been made
  open,       \* events whose ingest has not returned
  logged,     \* the event journal
  shards,     \* the chunk journal: one sequence of revisions per day
  index,      \* the projection
  pc, call,   \* the step of the engine, and the call it is in
  batch,      \* buckets that finalize_due still has to look at, in their order
  lagging,    \* projection_lagging
  faults      \* failures so far (bound)

clock   == <<now, peak>>
journal == <<logged, shards>>
engine  == <<pc, call, batch, lagging>>
vars    == <<clock, version, recorded, open, journal, index, engine, faults>>

\* A revision ID is a digest of these; the bytes of a revision add its prior one.
Id == [bucket : Buckets \cup {0}, input : SUBSET Events,
       version : Versions \cup {NoVersion}, at : Times \cup {NoTime}]
None == [bucket |-> 0, input |-> {}, version |-> NoVersion, at |-> NoTime]
Revision == [id : Id, prior : Id]

\* Rows of the projection: indexed events, cursor of every chunk shard, current
\* revisions, pending buckets with their generation_at, aggregation_build_state.
Unmarked == [dirty |-> FALSE, at |-> NoTime]
EmptyIndex ==
  [events  |-> {},
   cursor  |-> [d \in Days |-> 0],
   current |-> [b \in Buckets |-> None],
   pending |-> [b \in Buckets |-> Unmarked],
   built   |-> NoVersion]

Fault(name) == name \in Faults /\ faults < MaxFaults /\ faults' = faults + 1

NoCall == [at |-> NoTime, event |-> {}, startup |-> FALSE, covered |-> TRUE]

-----------------------------------------------------------------------------
(* The projection                                                           *)

Members(ix, b) == {e \in ix.events : b \in In[e]}

\* Projecting new events marks their buckets; a mark that is there keeps its
\* generation_at.
MarkAfter(ix, S, b) ==
  IF ix.pending[b].dirty \/ \A e \in S \ ix.events : b \notin In[e] THEN ix.pending[b]
  ELSE [dirty |-> TRUE, at |-> NoTime]

IndexEvents(ix, S) ==
  [ix EXCEPT !.events = @ \cup S, !.pending = [b \in Buckets |-> MarkAfter(ix, S, b)]]

Clean(ix, b) == [ix EXCEPT !.pending[b] = Unmarked]

\* project_chunk takes a revision only on top of the one it names as its prior.
Accepts(ix, r) == ix.current[r.id.bucket] = r.prior

\* Faulty variant: the mark goes whatever the revision covers.
CoversAny(ix, r) == r.id.bucket \in Buckets

\* The mark of a bucket goes when a revision covers its indexed events exactly.
Covers(ix, r) == r.id.input = Members(ix, r.id.bucket)

IndexChunk(ix, r) ==
  LET b == r.id.bucket
      new == [ix EXCEPT !.current[b] = r.id, !.cursor[Day(r.id.at)] = @ + 1]
  IN IF Covers(ix, r) THEN Clean(new, b) ELSE new

\* project_canonical: the events, then the chunks behind the cursors, shard after
\* shard in the order of their dates.  Positions of the chunk journal are pairs of
\* a day and a place.
Revisions(p) == shards[p[1]][p[2]]
Before(p, q) == p[1] < q[1] \/ (p[1] = q[1] /\ p[2] < q[2])
Behind(ix, b) ==
  {p \in UNION {{d} \X (ix.cursor[d] + 1 .. Len(shards[d])) : d \in Days} :
     Revisions(p).id.bucket = b}

\* What is current of b once the revisions at S, those of b so far, are replayed.
LastOf(S) == CHOOSE p \in S : \A q \in S \ {p} : Before(q, p)
CurrentAfter(ix, b, S) == IF S = {} THEN ix.current[b] ELSE Revisions(LastOf(S)).id

\* Every revision has to name the one that is current when its turn comes.
Follows(ix, b, p) ==
  Revisions(p).prior = CurrentAfter(ix, b, {q \in Behind(ix, b) : Before(q, p)})

Replay(ix) ==
  LET indexed == IndexEvents(ix, logged)
      covered(b) == \E p \in Behind(ix, b) : Covers(indexed, Revisions(p))
  IN [ok |-> \A b \in Buckets : \A p \in Behind(ix, b) : Follows(ix, b, p),
      ix |-> [indexed EXCEPT
                !.cursor  = [d \in Days |-> Len(shards[d])],
                !.current = [b \in Buckets |-> CurrentAfter(ix, b, Behind(ix, b))],
                !.pending = [b \in Buckets |-> IF covered(b) THEN Unmarked ELSE @[b]]]]

\* Recovery replays into the index there is and, if that fails, into a new one.
\* When this fails too the store does not open.
Recovered ==
  LET live == Replay(index) IN IF live.ok THEN live ELSE Replay(EmptyIndex)

-----------------------------------------------------------------------------
(* Startup and ingest                                                       *)

\* Faulty variant: startup does one batch, like an ingest.
DrainsOnce == call.startup /\ call.covered /\ ~ call.covered

\* The drain of a startup goes on as long as more buckets are due than fit a batch.
Drains == call.startup /\ ~ call.covered

\* IngestEngine::open_at; the clock is read once.
Start ==
  /\ pc = "down" /\ Recovered.ok
  /\ index' = Recovered.ix
  /\ pc' = "begin"
  /\ call' = [NoCall EXCEPT !.at = now, !.startup = TRUE]
  /\ UNCHANGED <<clock, version, recorded, open, journal, batch, lagging, faults>>

\* An event is made.  A gap goes into the session document first and outlives the
\* process: that of a startup is recorded at its end, which may lie ahead of a
\* corrected clock.
Record(e) ==
  /\ pc = "up" /\ recorded[e] = NoTime
  /\ \E t \in IF Kind[e] = "startup-gap" THEN {now, peak} ELSE {now} :
       /\ \A b \in In[e] : Due[b] - 1 <= (IF e \in Gaps THEN peak ELSE now)
       /\ recorded' = [recorded EXCEPT ![e] = t]
  /\ open' = open \cup {e}
  /\ UNCHANGED <<clock, version, journal, index, engine, faults>>

\* The instant an ingest works with: a pending runtime gap brings its own.
IngestTime(e) == IF Kind[e] = "runtime-gap" THEN recorded[e] ELSE Later(now, recorded[e])

\* Every entry point ingests a pending gap before it does anything else.  A live
\* event from the future is refused.
Admitted(e) ==
  /\ pc = "up" /\ e \in open
  /\ e \in Gaps \/ (open \cap Gaps = {} /\ recorded[e] <= now)

\* Faulty variant: the event is projected but not journaled.
LogNot(e) ==
  /\ logged' = logged
  /\ call' = [NoCall EXCEPT !.at = IngestTime(e), !.event = {e}]
  /\ pc' = "index"

\* The event goes to the journal; an exact retry finds it there.
Log(e) ==
  /\ logged' = logged \cup {e}
  /\ call' = [NoCall EXCEPT !.at = IngestTime(e), !.event = {e}]
  /\ pc' = "index"

RecoversFirst == lagging

\* ingest: a lagging projection is recovered first.
Ingest(e) ==
  /\ Admitted(e) /\ Kind[e] # "image"
  /\ IF RecoversFirst THEN Recovered.ok /\ index' = Recovered.ix ELSE UNCHANGED index
  /\ lagging' = FALSE
  /\ Log(e)
  /\ UNCHANGED <<clock, version, recorded, open, shards, batch, faults>>

\* retain_screenshot: an image-bearing observation goes around that.
Retain(e) ==
  /\ Admitted(e) /\ Kind[e] = "image"
  /\ Log(e)
  /\ UNCHANGED <<clock, version, recorded, open, shards, index, batch, lagging, faults>>

Return ==
  /\ pc' = "up" /\ call' = NoCall /\ batch' = {}
  /\ open' = open \ call.event

\* The event is projected when the cursor of its shard has come up to it.
AtCursor(e) ==
  e \in index.events \/ \A f \in logged \ (index.events \cup {e}) :
                           Day(recorded[f]) # Day(recorded[e])

IndexEvent ==
  /\ pc = "index"
  /\ \A e \in call.event : AtCursor(e)
  /\ index' = IndexEvents(index, call.event)
  /\ pc' = "begin"
  /\ UNCHANGED <<clock, version, recorded, open, journal, call, batch, lagging, faults>>

\* The projection fails: ingest remembers that it lags, retain_screenshot does not.
IndexEventFails ==
  /\ pc = "index"
  /\ \/ Fault("busy")
     \/ (\E e \in call.event : ~ AtCursor(e)) /\ UNCHANGED faults
  /\ lagging' = (lagging \/ \E e \in call.event : Kind[e] # "image")
  /\ Return
  /\ UNCHANGED <<clock, version, recorded, journal, index>>

-----------------------------------------------------------------------------
(* finalize_due                                                             *)

\* prepare_aggregation_build: another version makes every current chunk pending.
Prepared ==
  IF index.built = version THEN index
  ELSE [index EXCEPT !.built = version,
                     !.pending = [b \in Buckets |->
                        IF index.current[b] = None \/ index.current[b].version = version
                        THEN @[b] ELSE [dirty |-> TRUE, at |-> call.at]]]

DueBuckets(ix) == {b \in Buckets : ix.pending[b].dirty /\ Due[b] <= call.at}

Begin ==
  /\ pc = "begin"
  /\ index' = Prepared
  /\ LET due == DueBuckets(Prepared) IN
       /\ batch' = {b \in due : Cardinality({c \in due : c < b}) < BatchSize}
       /\ call' = [call EXCEPT !.covered = Cardinality(due) <= BatchSize]
  /\ pc' = "chunks"
  /\ UNCHANGED <<clock, version, recorded, open, journal, lagging, faults>>

\* The current revision of b stands: same digest and version.
Stands(b) ==
  /\ index.current[b] # None
  /\ index.current[b].input = Members(index, b)
  /\ index.current[b].version = version

\* Faulty variant: a new version generates at the time of the call.
GeneratedAtCall(b) ==
  IF Stands(b) THEN index.current[b].at
  ELSE Latest({Due[b], call.at} \cup {recorded[e] : e \in Members(index, b)})

\* generated_at of the chunk that build_chunk returns for b; a revision that only
\* changes the version takes the instant kept with the mark into account.
GeneratedAt(b) ==
  IF Stands(b) THEN index.current[b].at
  ELSE Latest({Due[b]} \cup {recorded[e] : e \in Members(index, b)}
              \cup (IF index.current[b].input = Members(index, b)
                    THEN {index.pending[b].at} ELSE {}))

Chunk(b) == [id |-> [bucket |-> b, input |-> Members(index, b), version |-> version,
                     at |-> GeneratedAt(b)],
             prior |-> index.current[b]]

InJournal == UNION {{shards[d][i] : i \in 1 .. Len(shards[d])} : d \in Days}

Turn(step, b) == pc = step /\ b \in batch /\ \A c \in batch : b <= c

\* The bucket stays pending when its chunk lies in the future.
Skip(b) ==
  /\ Turn("chunks", b) /\ call.at < GeneratedAt(b)
  /\ batch' = batch \ {b}
  /\ UNCHANGED <<clock, version, recorded, open, journal, index, pc, call, lagging, faults>>

AlreadyCurrent(b) ==
  /\ Turn("chunks", b) /\ GeneratedAt(b) <= call.at /\ Stands(b)
  /\ index' = Clean(index, b)
  /\ batch' = batch \ {b}
  /\ UNCHANGED <<clock, version, recorded, open, journal, pc, call, lagging, faults>>

\* append_chunk; a retry finds its own bytes in the journal.
AppendChunk(b) ==
  LET r == Chunk(b) IN
  /\ Turn("chunks", b) /\ GeneratedAt(b) <= call.at /\ ~ Stands(b)
  /\ \A s \in InJournal : s.id = r.id => s = r
  /\ shards' = IF r \in InJournal THEN shards
               ELSE [shards EXCEPT ![Day(r.id.at)] = Append(@, r)]
  /\ pc' = "project"
  /\ UNCHANGED <<clock, version, recorded, open, logged, index, call, batch, lagging, faults>>

\* The place of revision r in its shard.
Place(r) == CHOOSE i \in 1 .. Len(shards[Day(r.id.at)]) : shards[Day(r.id.at)][i] = r

\* project_record: at the cursor, on top of its prior.  A revision behind the cursor
\* has become current and never gets here.
ProjectChunk(b) ==
  LET r == Chunk(b) IN
  /\ Turn("project", b)
  /\ index.cursor[Day(r.id.at)] = Place(r) - 1 /\ Accepts(index, r)
  /\ index' = IndexChunk(index, r)
  /\ batch' = batch \ {b}
  /\ pc' = "chunks"
  /\ UNCHANGED <<clock, version, recorded, open, journal, call, lagging, faults>>

\* Any error ends finalize_due.  Startup then fails with it, an ingest is
\* acknowledged and its engine lags.
Fails ==
  IF call.startup
  THEN /\ pc' = "down" /\ call' = NoCall /\ batch' = {} /\ lagging' = FALSE
       /\ UNCHANGED open
  ELSE Return /\ lagging' = TRUE

\* The journal holds other bytes under the ID of the new revision.
AppendRejected ==
  /\ \E b \in Buckets :
       /\ Turn("chunks", b) /\ GeneratedAt(b) <= call.at /\ ~ Stands(b)
       /\ \E s \in InJournal : s.id = Chunk(b).id /\ s # Chunk(b)
  /\ Fails
  /\ UNCHANGED <<clock, version, recorded, journal, index, faults>>

\* The revision cannot be projected: a write fails, or bytes before it are not.
ProjectRejected ==
  /\ pc = "project"
  /\ \/ Fault("busy")
     \/ /\ \E b \in Buckets :
             /\ Turn("project", b)
             /\ index.cursor[Day(Chunk(b).id.at)] < Place(Chunk(b)) - 1
        /\ UNCHANGED faults
  /\ Fails
  /\ UNCHANGED <<clock, version, recorded, journal, index>>

\* The batch is done: a startup that has not seen every due bucket goes on.
EndBatch ==
  /\ pc = "chunks" /\ batch = {}
  /\ IF Drains THEN pc' = "begin" /\ UNCHANGED <<call, batch, open>> ELSE Return
  /\ UNCHANGED <<clock, version, recorded, journal, index, lagging, faults>>

-----------------------------------------------------------------------------
(* The world                                                                *)

Tick ==
  /\ now < MaxTime
  /\ now' = now + 1 /\ peak' = Later(peak, now')
  /\ UNCHANGED <<version, recorded, open, journal, index, engine, faults>>

\* The clock is set back.
Rollback ==
  /\ Fault("rollback")
  /\ now' \in {t \in Times : t < now}
  /\ UNCHANGED <<peak, version, recorded, open, journal, index, engine>>

\* The process ends; only gaps are kept in a document until they are ingested.
Quit ==
  /\ pc' = "down" /\ call' = NoCall /\ batch' = {} /\ lagging' = FALSE
  /\ open' = open \cap Gaps
  /\ recorded' = [e \in Events |-> IF e \in open \ (Gaps \cup logged) THEN NoTime
                                   ELSE recorded[e]]
  /\ UNCHANGED <<clock, version, journal, index>>

Close == pc = "up" /\ Quit /\ UNCHANGED faults
Crash == pc \notin {"down", "up"} /\ Fault("crash") /\ Quit

\* Another version of the app is installed.
Upgrade ==
  /\ pc = "down" /\ Fault("upgrade")
  /\ version' \in Versions \ {version}
  /\ UNCHANGED <<clock, recorded, open, journal, index, engine>>

\* The projection is lost, or unusable: recovery starts a new one.
LoseIndex ==
  /\ pc = "down" /\ Fault("index")
  /\ index' = EmptyIndex
  /\ UNCHANGED <<clock, version, recorded, open, journal, engine>>

-----------------------------------------------------------------------------

Init ==
  /\ now = 0 /\ peak = 0 /\ version = First
  /\ recorded = [e \in Events |-> NoTime] /\ open = {}
  /\ logged = {} /\ shards = [d \in Days |-> <<>>]
  /\ index = EmptyIndex
  /\ pc = "down" /\ call = NoCall /\ batch = {} /\ lagging = FALSE
  /\ faults = 0

\* What the engine does by itself once it is called.
Step ==
  \/ IndexEvent \/ Begin \/ AppendRejected \/ EndBatch
  \/ \E b \in Buckets : Skip(b) \/ AlreadyCurrent(b) \/ AppendChunk(b) \/ ProjectChunk(b)

Next ==
  \/ Start \/ \E e \in Events : Record(e) \/ Ingest(e) \/ Retain(e)
  \/ Step \/ IndexEventFails \/ ProjectRejected
  \/ Tick \/ Rollback \/ Close \/ Crash \/ Upgrade \/ LoseIndex

\* A call that was made runs to its end.
Spec == Init /\ [][Next]_vars /\ WF_vars(Step)

-----------------------------------------------------------------------------
(* Properties                                                               *)

\* Every variable has its type, and the steps of finalize_due have their call.
TypeOK ==
  /\ now \in Times /\ peak \in now .. MaxTime
  /\ version \in Versions
  /\ recorded \in [Events -> Times \cup {NoTime}]
  /\ open \subseteq Events /\ logged \subseteq Events
  /\ shards \in [Days -> Seq(Revision)]
  /\ index.events \subseteq logged
  /\ index.cursor \in [Days -> Nat]
  /\ \A d \in Days : index.cursor[d] <= Len(shards[d])
  /\ index.current \in [Buckets -> Id]
  /\ index.pending \in [Buckets -> [dirty : BOOLEAN, at : Times \cup {NoTime}]]
  /\ index.built \in Versions \cup {NoVersion}
  /\ pc \in {"down", "up", "index", "begin", "chunks", "project"}
  /\ call \in [at : Times \cup {NoTime}, event : SUBSET Events,
               startup : BOOLEAN, covered : BOOLEAN]
  /\ batch \subseteq Buckets /\ lagging \in BOOLEAN /\ faults \in Nat
  /\ pc \in {"begin", "chunks", "project"} => call.at # NoTime

\* The journals can be replayed at any moment, into a new projection and into the one
\* there is, with the same current revisions: what was projected in the order of time
\* is accepted in the order of the shards, and incremental projection and rebuild
\* never disagree about what is current.
RebuildAgrees ==
  LET live == Replay(index)
      new  == Replay(EmptyIndex)
  IN live.ok /\ new.ok /\ live.ix.current = new.ix.current /\ live.ix.events = new.ix.events

\* Whatever was interrupted, a bucket whose current revision does not cover exactly
\* the indexed events, or is of another version than the one last prepared for, is
\* marked pending: no later finalize_due overlooks it.
StaleIsPending ==
  \A b \in Buckets :
    \/ index.pending[b].dirty
    \/ index.current[b].input = Members(index, b)
       /\ (index.built # NoVersion /\ index.current[b] # None
              => index.current[b].version = index.built)

\* A revision is only written for a reason: it has more evidence than the one it
\* supersedes or another version.  No retry, crash or rebuild repeats a revision,
\* and no revision loses evidence of its prior one.
RevisionsHaveReason ==
  \A r \in InJournal :
    /\ r.prior.input \subseteq r.id.input
    /\ r.prior.input # r.id.input \/ r.prior.version # r.id.version

\* A bucket is revised when its revision is out of date, and only then.
RevisedWhenStale == StaleIsPending /\ RevisionsHaveReason

\* When startup lets the engine go, no bucket is pending that was due by then and
\* whose chunk does not lie in the future.
StartupDrains ==
  [][call.startup /\ pc' = "up" =>
       \A b \in Buckets : Due[b] <= call.at /\ GeneratedAt(b) <= call.at => ~ index.pending[b].dirty]_vars
=============================================================================
