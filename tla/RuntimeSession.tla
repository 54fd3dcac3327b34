---------------------------- MODULE RuntimeSession -----------------------------
(***************************************************************************)
(* The recording session kept in config.json: the heartbeat of the last      *)
(* durable event, the gaps recorded for sleep, outages, clock corrections    *)
(* and absences (runtime.rs), and the study window that admits evidence      *)
(* (study.rs).  Every change of the document is one atomic write under the   *)
(* configuration lock; a call of the recording coordinator is several of     *)
(* them with journal appends in between, and first finishes what a call      *)
(* that failed or died has left in the document.                             *)
(*                                                                           *)
(* Abstractions.  An instant is a number and an attempt is known by the      *)
(* instant it was recorded at, so there is one of each kind per instant.     *)
(* The journal is a set of durable records (EvidenceLog): an append that     *)
(* fails, or whose process dies, has left its record or not.  A projection   *)
(* that lags makes a later call fail and is otherwise left to Aggregation.   *)
(***************************************************************************)
EXTENDS Integers, Sequences, FiniteSets, SequencesExt, FiniteSetsExt

CONSTANTS
  Outages,         \* reasons of runtime gaps other than clock corrections
  Studies,         \* study windows <<start, end>> the user may choose
  MaxInstant,      \* bound on the clock
  MaxSessions,     \* bound on launches of the app
  MaxCorrections,  \* bound on clock corrections
  MaxMoves,        \* bound on moves of the clock, corrections included
  MaxSettings,     \* bound on changes of the preference and the study
  MaxAttempts,     \* bound on attempts to record evidence
  MaxFaults        \* bound on failures and deaths

ASSUME SessionAssumption ==
  /\ Outages \subseteq {"sleep", "storage-outage"}
  /\ MaxInstant \in Nat \ {0} /\ MaxSessions \in Nat \ {0}
  /\ MaxCorrections \in Nat /\ MaxMoves \in Nat /\ MaxSettings \in Nat /\ MaxAttempts \in Nat
  /\ MaxFaults \in Nat
  /\ \A s \in Studies : s \in (1 .. MaxInstant) \X (1 .. MaxInstant) /\ s[1] < s[2]

Instants == 1 .. MaxInstant
Sessions == 1 .. MaxSessions
RuntimeReasons == Outages \cup {"clock-correction"}

VARIABLES
  now,          \* the wall clock
  corrections,  \* clock corrections so far
  moves,        \* moves of the clock so far (bound)
  config,       \* config.json
  journal,      \* the durable events
  app,          \* "off", "failed" (startup returned an error) or "up"
  launches,     \* session IDs used so far
  op,           \* the call under way
  settings,     \* changes of the preference and the study so far (bound)
  attempts,     \* attempts to record evidence so far (bound)
  expired,      \* a check has found the study over (history)
  faults        \* failures and deaths so far (bound)

clock == <<now, corrections, moves>>
bounds == <<settings, attempts>>
vars  == <<clock, config, journal, app, launches, op, bounds, expired, faults>>

-----------------------------------------------------------------------------
(* Records                                                                   *)

\* ID 0: none.  closed 0: still open.
NoSession == [id |-> 0, started |-> 0, heartbeat |-> 0, closed |-> 0]
NewSession(id, t) == [id |-> id, started |-> t, heartbeat |-> t, closed |-> 0]
Active(session) == session.id # 0 /\ session.closed = 0

\* RecordingMode; the personal mode has no window.
Personal == [window |-> <<>>, expired |-> FALSE]
Study(window) == [window |-> window, expired |-> FALSE]
Modes == {Personal} \cup {Study(s) : s \in Studies}

Attempt(kind, observed, recorded) == [kind |-> kind, observed |-> observed, recorded |-> recorded]
Completion(recorded) == [kind |-> "completion", recorded |-> recorded]

\* runtime_gap_event and restart_gap_event (session 0); the latter are recorded at
\* the end of their interval.
Gap(session, start, end, reason, recorded) ==
  [kind |-> "gap", session |-> session, start |-> start, end |-> end, reason |-> reason,
   recorded |-> recorded]
RuntimeGap(session, from, to, reason) ==
  Gap(session, Min({from, to}), Max({from, to}), reason, to)
RestartGap(from, to) ==
  IF from < to THEN Gap(0, from, to, "quit", to) ELSE Gap(0, to, from, "clock-correction", from)

\* The event ID: a gap's is a digest of its session, interval and reason.
ID(e) ==
  CASE e.kind = "gap"        -> <<e.reason, e.session, e.start, e.end>>
    [] e.kind = "completion" -> <<"completion", e.recorded>>
    [] OTHER                 -> <<"attempt", e.recorded>>

Gaps == {e \in journal : e.kind = "gap"}
Evidence == journal \ Gaps
Canonical(id) == \E e \in journal : ID(e) = id

\* The documents of config.json that name an event not yet accounted for.
NoGap == [session |-> 0]
NoStartup == [session |-> NoSession, gaps |-> <<>>]
NoLast == [session |-> 0, reason |-> "none", at |-> 0]
Proof(e, t) == [id |-> ID(e), at |-> t]

-----------------------------------------------------------------------------
(* The steps of a call                                                       *)

NoOp == [call |-> "none", step |-> "none", at |-> 0, arg |-> 0]
Idle == op.call = "none"
At(step) == op.step = step
Go(step) == op' = [op EXCEPT !.step = step]

\* A call that succeeds leaves the app running, one that shuts it down does not.
Done == op' = NoOp /\ app' = IF op.call = "terminate" THEN "off" ELSE "up"
\* An error: a startup may be tried again, a shutdown goes on.
Refused ==
  /\ op' = NoOp
  /\ app' = CASE op.call = "startup" -> "failed" [] op.call = "terminate" -> "off" [] OTHER -> app

\* The step returns an error, or the process dies in it.
Aborted ==
  /\ faults < MaxFaults /\ faults' = faults + 1
  /\ Refused \/ (op' = NoOp /\ app' = "off")

Then(step) == IF step = "done" THEN Done ELSE Go(step) /\ UNCHANGED app

\* update_document: the changed document replaces the old one, or not.
Update(document, step) ==
  /\ \/ config' = document /\ Then(step) /\ UNCHANGED faults
     \/ config' \in {config, document} /\ Aborted
  /\ UNCHANGED <<clock, journal, launches, bounds>>

Refuse == Refused /\ UNCHANGED <<clock, config, journal, launches, bounds, faults, expired>>

\* IngestEngine::ingest: the same bytes again change nothing, other bytes under a
\* known ID are refused.
Ingest(e, step) ==
  /\ \/ /\ Canonical(ID(e)) => e \in journal
        /\ \/ journal' = journal \cup {e} /\ Then(step) /\ UNCHANGED faults
           \/ journal' \in {journal, journal \cup {e}} /\ Aborted
     \/ /\ Canonical(ID(e)) /\ e \notin journal
        /\ Refused /\ UNCHANGED <<journal, faults>>
  /\ UNCHANGED <<clock, config, launches, bounds, expired>>

-----------------------------------------------------------------------------
(* What every call does first                                                *)

\* resolve_heartbeat_intent: the latest proof among the canonical events.
Resolved(ids) ==
  LET proved == {p.at : p \in {q \in config.intent : q.id \in ids}}
  IN  [config EXCEPT !.intent = {},
                     !.session.heartbeat = Max({@} \cup proved)]

\* Faulty variant: an intent left behind is dropped.
ReconcileIntentDropped ==
  /\ At("intent")
  /\ Update(Resolved({}), IF config.gap = NoGap THEN "prepare" ELSE "record")
  /\ UNCHANGED expired

\* reconcile_heartbeat_intent: which of the announced events are in the journal.
ReconcileIntent ==
  /\ At("intent")
  /\ Update(Resolved({p.id : p \in {q \in config.intent : Canonical(q.id)}}),
            IF config.gap = NoGap THEN "prepare" ELSE "record")
  /\ UNCHANGED expired

\* reconcile_pending_runtime_gap, and the second half of a runtime gap: the gap is
\* recorded, then the heartbeat is moved over it.
RecordGap ==
  /\ op.step \in {"record", "append"} /\ config.gap # NoGap
  /\ Ingest(config.gap, IF At("record") THEN "settle" ELSE "commit")

\* Faulty variant: the start of the session is not moved back with the clock.
ReconciledForward ==
  [config EXCEPT !.gap = NoGap, !.session.heartbeat = config.gap.recorded,
                 !.last = [session |-> config.gap.session, reason |-> config.gap.reason,
                           at |-> config.gap.recorded]]

\* commit_runtime_gap.
Reconciled ==
  LET gap == config.gap
      back == gap.reason = "clock-correction" /\ gap.recorded < config.session.started
  IN  [config EXCEPT !.gap = NoGap,
                     !.session.heartbeat = gap.recorded,
                     !.session.started = IF back THEN gap.recorded ELSE @,
                     !.last = [session |-> gap.session, reason |-> gap.reason,
                               at |-> gap.recorded]]

CommitGap ==
  /\ op.step \in {"settle", "commit"} /\ config.gap # NoGap
  /\ Update(Reconciled, IF At("settle") THEN "prepare" ELSE "done")
  /\ UNCHANGED expired

-----------------------------------------------------------------------------
(* Startup: startup_reconcile, prepare_startup, commit_startup               *)

First == IF config.intent # {} THEN "intent"
         ELSE IF config.gap # NoGap THEN "record" ELSE "prepare"
Begin(call, arg) ==
  /\ op' = [call |-> call, step |-> First, at |-> now, arg |-> arg]
  /\ UNCHANGED <<clock, config, journal, app, expired, faults>>

\* The app is launched with a new session ID, or a failed startup is tried again.
Startup(id) ==
  /\ Idle /\ app # "up"
  /\ id = launches + 1 \/ (id = launches /\ app = "failed")
  /\ Begin("startup", id)
  /\ launches' = id /\ UNCHANGED bounds

Boundary(session) == IF session.closed # 0 THEN session.closed ELSE session.heartbeat

\* Faulty variant: a startup left unfinished is taken over as it is.
PreparedStartupKept ==
  LET pending == config.startup
      from == Boundary(config.session)
  IN  IF pending # NoStartup
      THEN [config EXCEPT !.startup = [session |-> NewSession(op.arg, op.at), gaps |-> pending.gaps]]
      ELSE IF config.session.id \in {0, op.arg} \/ from = op.at
      THEN IF config.session.id = op.arg THEN config
           ELSE [config EXCEPT !.session = NewSession(op.arg, op.at)]
      ELSE [config EXCEPT !.startup = [session |-> NewSession(op.arg, op.at),
                                       gaps |-> <<RestartGap(from, op.at)>>]]

\* The gap reaches from the end of the last session to this launch; when a launch
\* before this one did not finish, from the end of its last gap.
PreparedStartup ==
  LET pending == config.startup
      from == IF pending = NoStartup THEN Boundary(config.session) ELSE Last(pending.gaps).end
      gap == IF from = op.at THEN <<>> ELSE <<RestartGap(from, op.at)>>
      session == NewSession(op.arg, op.at)
      latest == IF pending = NoStartup THEN config.session ELSE pending.session
  IN  IF latest.id = op.arg THEN config
      ELSE IF pending = NoStartup /\ (config.session.id = 0 \/ gap = <<>>)
      THEN [config EXCEPT !.session = session]
      ELSE [config EXCEPT !.startup = [session |-> session, gaps |-> pending.gaps \o gap]]

PrepareStartup ==
  /\ op.call = "startup" /\ At("prepare")
  /\ Update(PreparedStartup, IF PreparedStartup.startup = NoStartup THEN "done" ELSE "append")
  /\ UNCHANGED expired

\* Faulty variant: the session is replaced before its gaps are recorded.
RecordStartupLate ==
  /\ op.call = "startup" /\ At("append")
  /\ Go("commit") /\ UNCHANGED <<clock, config, journal, app, launches, bounds, expired, faults>>

\* The gaps are recorded in their order; those already recorded are found again.
RecordStartup ==
  LET gaps == config.startup.gaps
      missing == {i \in DOMAIN gaps : gaps[i] \notin journal}
  IN  /\ op.call = "startup" /\ At("append")
      /\ \/ /\ missing = {} /\ Go("commit")
            /\ UNCHANGED <<clock, config, journal, app, launches, bounds, expired, faults>>
         \/ \E i \in missing : (\A j \in missing : i <= j) /\ Ingest(gaps[i], "append")

CommitStartup ==
  /\ op.call = "startup" /\ At("commit")
  /\ Update([config EXCEPT !.session = config.startup.session, !.startup = NoStartup], "done")
  /\ UNCHANGED expired

-----------------------------------------------------------------------------
(* Runtime gaps: reconcile_runtime_gap, prepare_runtime_gap                  *)

\* After a wake, a storage outage or a clock correction, with capture stopped.  (A clock
\* set forward is left out: its gap is that of a sleep.)
ReconcileRuntimeGap(reason) ==
  /\ Idle /\ app = "up"
  /\ reason = "clock-correction" => corrections > 0
  /\ Begin("gap", reason) /\ UNCHANGED <<launches, bounds>>

PrepareGap ==
  LET session == config.session
      repeated == config.last = [session |-> session.id, reason |-> op.arg, at |-> op.at]
  IN  /\ op.call = "gap" /\ At("prepare")
      /\ IF ~ Active(session) THEN Refuse
         ELSE IF repeated \/ op.at = session.heartbeat
         THEN Update(config, "done") /\ UNCHANGED expired
         ELSE IF op.at < session.heartbeat /\ op.arg # "clock-correction" THEN Refuse
         ELSE /\ Update([config EXCEPT !.gap =
                           RuntimeGap(session.id, session.heartbeat, op.at, op.arg)], "append")
              /\ UNCHANGED expired

-----------------------------------------------------------------------------
(* Evidence: ingest_with_runtime_faults, retain_screenshot_with_runtime_faults *)

\* Faulty variant: the study is over only as long as the clock says so.
LatchedNever(mode, t) == mode

\* mode_at with its latch: a study found over stays over.
Latched(mode, t) ==
  IF mode.window # <<>> /\ t >= mode.window[2] THEN [mode EXCEPT !.expired = TRUE] ELSE mode

\* require_capture.
Admits(mode, t) ==
  mode.window # <<>> => ~ mode.expired /\ mode.window[1] <= t /\ t < mode.window[2]

\* An attempt is observed, then recorded; it starts when the last attempt or gap has ended.
Since == IF config.gap # NoGap THEN config.gap.recorded ELSE config.session.heartbeat
Record(call) ==
  /\ Idle /\ app = "up"
  /\ \E kind \in {"captured", "user-paused"}, observed \in {now - 1, now} :
       /\ call = "retain" => kind = "captured"
       /\ observed = now \/ (observed > 0 /\ observed >= Since)
       /\ ~ Canonical(ID(Attempt(kind, observed, now)))
       /\ Begin(call, Attempt(kind, observed, now))
  /\ attempts < MaxAttempts /\ attempts' = attempts + 1
  /\ UNCHANGED <<launches, settings>>

\* require_live_event: the session, the preference, the study when the attempt was
\* observed and now.  Each of the last two finds a study over and says so for good.
Live == /\ Active(config.session)
        /\ config.preference = (op.arg.kind # "user-paused")

StudyChecked ==
  LET observed == Latched(config.mode, op.arg.observed)
  IN  IF Admits(observed, op.arg.observed) THEN Latched(observed, op.at) ELSE observed

Admitted ==
  /\ Admits(StudyChecked, op.arg.observed)
  /\ Admits(StudyChecked, op.at)

FoundOver ==
  /\ config.mode.window # <<>>
  /\ \/ op.arg.observed >= config.mode.window[2]
     \/ Admits(config.mode, op.arg.observed) /\ op.at >= config.mode.window[2]

Announced ==
  {Proof(op.arg, op.arg.recorded)}
    \cup IF op.call = "retain" THEN {Proof(Completion(op.at), op.at)} ELSE {}

\* prepare_heartbeat_intent, or an error with the study's end written down.
Announce ==
  /\ op.call \in {"ingest", "retain"} /\ At("prepare")
  /\ \/ ~ Live /\ Refuse
     \/ /\ Live /\ ~ Admitted
        /\ config' = [config EXCEPT !.mode = StudyChecked]
        /\ expired' = (expired \/ FoundOver)
        /\ Refused /\ UNCHANGED <<clock, journal, launches, bounds, faults>>
     \/ /\ Live /\ Admitted
        /\ Update([config EXCEPT !.intent = Announced], "append")
        /\ UNCHANGED expired

RecordAttempt ==
  /\ op.call \in {"ingest", "retain"} /\ At("append")
  /\ Ingest(op.arg, IF op.call = "retain" THEN "complete" ELSE "commit")

RecordCompletion ==
  /\ op.call = "retain" /\ At("complete")
  /\ Ingest(Completion(op.at), "commit")

\* The acknowledged event is the proof.
Acknowledge ==
  /\ op.call \in {"ingest", "retain"} /\ At("commit")
  /\ Update(Resolved({ID(IF op.call = "retain" THEN Completion(op.at) ELSE op.arg)}), "done")
  /\ UNCHANGED expired

-----------------------------------------------------------------------------
(* Shutdown and settings                                                     *)

Terminate == Idle /\ app = "up" /\ Begin("terminate", 0) /\ UNCHANGED <<launches, bounds>>

PrepareTermination ==
  LET session == config.session
  IN  /\ op.call = "terminate" /\ At("prepare")
      /\ IF op.at < session.started THEN Refuse
         ELSE /\ Update([config EXCEPT !.session.closed =
                           IF @ # 0 THEN @ ELSE Max({session.heartbeat, op.at})], "done")
              /\ UNCHANGED expired

Change ==
  /\ Idle /\ app = "up"
  /\ settings < MaxSettings /\ settings' = settings + 1 /\ UNCHANGED attempts

SetRecordingPreference ==
  /\ Change
  /\ config' = [config EXCEPT !.preference = ~ @]
  /\ UNCHANGED <<clock, journal, app, launches, op, expired, faults>>

\* configure_study, set_personal.
SetMode(mode) ==
  /\ Change /\ config.mode # mode
  /\ config' = [config EXCEPT !.mode = mode] /\ expired' = FALSE
  /\ UNCHANGED <<clock, journal, app, launches, op, faults>>

Extend(end) ==
  /\ Change /\ config.mode.window # <<>>
  /\ end > now /\ end > config.mode.window[2]
  /\ config' = [config EXCEPT !.mode = Study(<<@.window[1], end>>)] /\ expired' = FALSE
  /\ UNCHANGED <<clock, journal, app, launches, op, faults>>

\* capture_admission: a check before each attempt that may find the study over.
Admission ==
  /\ Idle /\ app = "up" /\ Active(config.session) /\ config.preference
  /\ config.mode.window # <<>> /\ now >= config.mode.window[2]
  /\ config' = [config EXCEPT !.mode = Latched(@, now)] /\ expired' = TRUE
  /\ UNCHANGED <<clock, journal, app, launches, op, bounds, faults>>

-----------------------------------------------------------------------------
(* The environment                                                           *)

\* Between two calls; a death in a call is one of Aborted's outcomes.
Crash ==
  /\ Idle /\ app = "up" /\ app' = "off"
  /\ UNCHANGED <<clock, config, journal, launches, op, bounds, expired, faults>>

\* The clock is read when a call is made, so it may as well move between calls.
Tick ==
  /\ Idle /\ now < MaxInstant /\ now' = now + 1
  /\ moves < MaxMoves /\ moves' = moves + 1
  /\ UNCHANGED <<corrections, config, journal, app, launches, op, bounds, expired, faults>>

Correct ==
  /\ Idle /\ corrections < MaxCorrections /\ corrections' = corrections + 1
  /\ now' \in 1 .. now - 1
  /\ moves < MaxMoves /\ moves' = moves + 1
  /\ UNCHANGED <<config, journal, app, launches, op, bounds, expired, faults>>

-----------------------------------------------------------------------------

Init ==
  /\ now = 1 /\ corrections = 0 /\ moves = 0
  /\ \E mode \in Modes : config = [preference |-> TRUE, mode |-> mode, session |-> NoSession, intent |-> {},
               gap |-> NoGap, last |-> NoLast, startup |-> NoStartup]
  /\ journal = {} /\ app = "off" /\ launches = 0 /\ op = NoOp
  /\ settings = 0 /\ attempts = 0 /\ expired = FALSE /\ faults = 0

Calls ==
  \/ \E id \in Sessions : Startup(id)
  \/ \E reason \in RuntimeReasons : ReconcileRuntimeGap(reason)
  \/ Record("ingest") \/ Record("retain") \/ Terminate

Steps ==
  \/ ReconcileIntent \/ RecordGap \/ CommitGap
  \/ PrepareStartup \/ RecordStartup \/ CommitStartup
  \/ PrepareGap
  \/ Announce \/ RecordAttempt \/ RecordCompletion \/ Acknowledge
  \/ PrepareTermination

Settings ==
  \/ SetRecordingPreference
  \/ \E mode \in Modes : SetMode(mode)
  \/ \E end \in Instants \cup {MaxInstant + 1} : Extend(end)
  \/ Admission

Environment == Crash \/ Tick \/ Correct

Next == Calls \/ Steps \/ Settings \/ Environment

Spec == Init /\ [][Next]_vars

-----------------------------------------------------------------------------
(* Properties                                                                *)

Covered(t, events) == \E g \in events : g.kind = "gap" /\ g.start <= t /\ t < g.end
Between(a, b) == Min({a, b}) .. Max({a, b}) - 1

\* Every variable keeps its type, and at most one unfinished document waits.
TypeOK ==
  /\ now \in Instants /\ corrections \in 0 .. MaxCorrections /\ moves \in 0 .. MaxMoves
  /\ config.preference \in BOOLEAN
  /\ config.session \in [id : {0} \cup Sessions, started : {0} \cup Instants,
                         heartbeat : {0} \cup Instants, closed : {0} \cup Instants]
  /\ config.session.started <= config.session.heartbeat
  /\ Cardinality(config.intent) <= 2
  /\ config.gap # NoGap => config.intent = {} /\ config.startup = NoStartup
  /\ app \in {"off", "failed", "up"} /\ launches \in {0} \cup Sessions
  /\ settings \in 0 .. MaxSettings /\ attempts \in 0 .. MaxAttempts
  /\ expired \in BOOLEAN /\ faults \in 0 .. MaxFaults

\* Within a session the heartbeat only moves to the time of an event that is in the
\* journal, or across a gap that is.
HeartbeatProved ==
  config'.session.id = config.session.id
    /\ config'.session.heartbeat # config.session.heartbeat
  => \/ \E e \in journal : e.kind # "gap" /\ e.recorded = config'.session.heartbeat
     \/ \A t \in Between(config.session.heartbeat, config'.session.heartbeat) :
          Covered(t, journal)

\* When a new session replaces another, however many launches that took, the journal
\* has gaps for all the time between the two.
AbsenceRecorded ==
  config.session.id # 0 /\ config'.session.id # config.session.id
  => \A t \in Between(Boundary(config.session), config'.session.started) :
       Covered(t, journal)

\* The session document never claims time that the journal does not account for.
SessionProved == [][HeartbeatProved /\ AbsenceRecorded]_vars

\* As long as the clock is not set back, no time is recorded missing twice, and no
\* evidence was observed or recorded while recording was missing.
GapsHonest ==
  corrections = 0 =>
    /\ \A g, h \in Gaps : g = h \/ g.end <= h.start \/ h.end <= g.start
    /\ \A g \in Gaps, e \in Evidence :
         /\ e.recorded <= g.start \/ g.end <= e.recorded
         /\ e.kind # "completion" => e.observed <= g.start \/ g.end <= e.observed

\* Once a check has found the study over no evidence is recorded, wherever the clock
\* is set, until the user extends the study or leaves it.
ExpiryHolds ==
  [][expired => \A e \in journal' \ journal : e.kind = "gap" \/ e.kind = "completion"]_vars
=============================================================================
