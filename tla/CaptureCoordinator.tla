-------------------------- MODULE CaptureCoordinator ---------------------------
(***************************************************************************)
(* The recording actors of the macOS app: the capture coordinator with its   *)
(* lifecycle operations, the execution epoch that decides which attempts     *)
(* may still be written, the attempt pipeline, and AppCaptureRuntime, which  *)
(* passes on the notifications of the system and the wishes of the user.     *)
(*                                                                           *)
(* Other tasks run at every await of an actor, so an action takes a task     *)
(* from one await to the next.  A call of the engine is two of them: its     *)
(* effect, and the return to a caller that may no longer own the lifecycle   *)
(* operation it made the call for.                                           *)
(*                                                                           *)
(* Abstractions.  A task is the main task (start, shutdown), the one call of *)
(* the user interface, the chain of notifications (LifecycleMonitor: each    *)
(* waits for the one before, so no wake arrives during a suspension) or the  *)
(* attempt of the capture loop; it has at most one lifecycle operation and   *)
(* stands for its number.  Times are left out: an attempt only knows whether *)
(* the clock is behind its plan.  A pending preference is applied in the     *)
(* step that sets it.  Both study states are one, so are both storage limits.*)
(* An actor takes what waits for it in the order it came (all these tasks    *)
(* have one priority).                                                       *)
(***************************************************************************)
EXTENDS Integers

CONSTANTS
  Notices,    \* notifications that may arrive, of "sleep", "lock", "clock"
  Wishes,     \* what the user may ask for, of "preference", "retry"
  MaxNotices, \* bound on notifications
  MaxWishes,  \* bound on calls of the user interface
  MaxFaults   \* bound on failing calls and changes of the environment

ASSUME CoordinatorAssumption ==
  /\ Notices \subseteq {"sleep", "lock", "clock"} /\ Wishes \subseteq {"preference", "retry"}
  /\ MaxNotices \in Nat /\ MaxWishes \in Nat /\ MaxFaults \in Nat

Tasks == {"main", "ui", "notices", "attempt"}
States == {"stopped", "running", "suspended", "studyExpired", "storageFailure", "repairRequired"}

VARIABLES
  coordinator, \* CaptureCoordinator: state, generation, armed, operation, clockChange
  epoch,       \* CaptureExecutionEpoch: the current generation, the permit's generation
  task,        \* where each task is
  queue,       \* <<t, u>>: both wait for an actor, t has waited longer
  env,         \* SystemCaptureEnvironmentSource: paused, locked, asleep
  core,        \* the engine: preference, session, study window, room for images
  behind,      \* the clock is behind the plan
  refused,     \* what the engine has refused to record (history)
  spent        \* notifications, calls and faults so far (bounds)

vars == <<coordinator, epoch, task, queue, env, core, behind, refused, spent>>

-----------------------------------------------------------------------------
(* Tasks and lifecycle operations                                            *)

\* generation: the attempt's, or the one just begun; old: the one to invalidate;
\* then: what follows an invalidation or a correction; result: of a call;
\* saved: a preference is in the engine, whatever comes of the recovery after it.
Rest == [at |-> "rest", generation |-> 0, old |-> 0, then |-> "none",
         result |-> "none", wish |-> FALSE, saved |-> FALSE, kind |-> "none"]

At(t, step) == task[t].at = step
Waiting(t) == task[t].result = "none"
Result(t, r) == task[t].result = r
Failures == {"retryable", "study", "fatal", "contract"}

\* isCurrentLifecycleOperation.
Current(t) == coordinator.operation = t
Free == coordinator.operation = "none"

Step(t, at) == [task[t] EXCEPT !.at = at, !.result = "none"]

\* Faulty variant: an attempt that is being written is not waited for.
DrainedNever(t) == TRUE

\* The waiters of invalidate resume when no permit of the generation is left.
Drained(t) == task[t].old = 0 \/ epoch.permit # task[t].old

\* The actor that takes the step a task is at.
Actor(r) ==
  CASE r.at \in {"rest", "gone", "look", "capture", "pause"} -> "none"
    [] r.at \in {"health", "gap", "correct", "admit", "admission", "set", "ingest", "terminate"}
         /\ r.result = "none" -> "engine"
    [] r.at \in {"invalidate", "begin", "bound", "claim", "ingest"} -> "epoch"
    [] OTHER -> "coordinator"

\* The tasks that wait for an actor, all but t.
Others(t) == {u \in Tasks \ {t} : Actor(task[u]) # "none"}

\* The next step of a task waits behind all the others.
Becomes(t, r) ==
  /\ task' = [task EXCEPT ![t] = r]
  /\ queue' = (queue \cap (Others(t) \X Others(t)))
                \cup (IF Actor(r) = "none" THEN {} ELSE Others(t) \X {t})

\* Nothing that is ready has waited longer than t for the actor.
Turn(t, actor) ==
  \A u \in Tasks \ {t} :
    \/ Actor(task[u]) # actor \/ <<t, u>> \in queue
    \/ At(u, "drain") /\ ~ Drained(u)
Owns(t) == Turn(t, "coordinator")

\* The environment learns of a preference that is in the engine, and of no retry.
Saved(t, outcome) == t = "ui" /\ (outcome = "persisted" \/ task[t].saved)

\* Faulty variant: finishLifecycleOperation is left out.
ReturnKept(t, c, outcome) ==
  /\ coordinator' = c
  /\ Becomes(t, CASE Saved(t, outcome) -> Step(t, "pause")
                  [] t = "main" /\ outcome = "stopped" -> Step(t, "terminate")
                  [] OTHER -> Rest)

\* finishLifecycleOperation, and the return to the caller; a stop is followed by the
\* termination.
Return(t, c, outcome) ==
  /\ coordinator' = [c EXCEPT !.operation = IF @ = t THEN "none" ELSE @]
  /\ Becomes(t, CASE Saved(t, outcome) -> Step(t, "pause")
                  [] t = "main" /\ outcome = "stopped" -> Step(t, "terminate")
                  [] OTHER -> Rest)

\* transition: the state changes at once, the invalidation follows.
Transition(t, c, state, then) ==
  /\ coordinator' = [c EXCEPT !.state = state, !.armed = FALSE]
  /\ Becomes(t, [Step(t, "invalidate") EXCEPT !.old = c.generation, !.then = then])

\* handle(failure:).
Handle(t) ==
  Transition(t, coordinator,
             CASE Result(t, "retryable") -> "storageFailure"
               [] Result(t, "study") -> "studyExpired"
               [] OTHER -> "repairRequired",
             "failed")

-----------------------------------------------------------------------------
(* CaptureExecutionEpoch                                                     *)

Valid(t) == task[t].generation = epoch.current
Invalidated(g) == [epoch EXCEPT !.current = IF g = @ THEN @ + 1 ELSE @]

Invalidate(t) ==
  /\ At(t, "invalidate") /\ Turn(t, "epoch")
  /\ epoch' = Invalidated(task[t].old)
  /\ Becomes(t, Step(t, "drain"))
  /\ UNCHANGED <<coordinator, env, core, behind, refused, spent>>

\* beginGeneration.
BeginGeneration(t) ==
  /\ At(t, "begin") /\ Turn(t, "epoch")
  /\ epoch' = [epoch EXCEPT !.current = @ + 1]
  /\ Becomes(t, [Step(t, "begun") EXCEPT !.generation = epoch.current + 1])
  /\ UNCHANGED <<coordinator, env, core, behind, refused, spent>>

-----------------------------------------------------------------------------
(* Recovery and activation                                                   *)

\* The gap of the outage, after a clock change reported before it; then those
\* reported since; then the question whether capture may run.  A preference that got to
\* the recovery is persisted whatever this one ends with.
Recover(t, c, then) ==
  /\ coordinator' = [c EXCEPT !.clockChange = FALSE]
  /\ Becomes(t, [Step(t, IF c.clockChange THEN "correct"
                         ELSE IF then = "gap" THEN "gap" ELSE "admit") EXCEPT
                   !.then = then, !.saved = @ \/ (t = "ui" /\ task[t].then = "recover")])

Sheltered == [coordinator EXCEPT !.generation = 0]
Forgotten(t) == [coordinator EXCEPT !.generation = IF @ = task[t].old THEN 0 ELSE @]

\* The end of a transition.
TransitionDone(t) ==
  /\ At(t, "drain") /\ Drained(t) /\ Owns(t)
  /\ \/ /\ task[t].then = "failed" /\ Return(t, Forgotten(t), "failed")
     \/ /\ task[t].then = "suspended" /\ Return(t, Forgotten(t), "suspended")
     \/ /\ task[t].then = "stopped"
        /\ Return(t, [Forgotten(t) EXCEPT !.clockChange = FALSE], "stopped")
     \/ /\ task[t].then = "recover"
        /\ IF Current(t) THEN Recover(t, Forgotten(t), "admit")
                         ELSE Return(t, Forgotten(t), "notApplied")
  /\ UNCHANGED <<epoch, env, core, behind, refused, spent>>

\* resumeAfterStorageRecovery: what storageHealth answered.  Two of the answers are
\* acted on whoever has the operation now.
Checked(t) ==
  /\ At(t, "health") /\ Owns(t)
  /\ \/ Result(t, "blocked")
        /\ Return(t, [coordinator EXCEPT !.state = "storageFailure"], "failed")
     \/ task[t].result \in Failures /\ Handle(t)
     \/ Result(t, "writable")
        /\ IF Current(t) THEN Recover(t, coordinator, "gap") ELSE Return(t, coordinator, "failed")
  /\ UNCHANGED <<epoch, env, core, behind, refused, spent>>

\* A gap or a correction was recorded, or not.
Recorded(t) ==
  /\ task[t].at \in {"gap", "correct"} /\ Owns(t)
  /\ \/ task[t].result \in Failures /\ Handle(t)
     \/ Result(t, "done")
        /\ IF Current(t)
           THEN Recover(t, coordinator, IF At(t, "gap") THEN "admit" ELSE task[t].then)
           ELSE Return(t, coordinator, "notApplied")
  /\ UNCHANGED <<epoch, env, core, behind, refused, spent>>

\* activateAfterAdmission, first half: capture starts in the modes where it may.
Activate(t) ==
  /\ At(t, "admit") /\ ~ Waiting(t) /\ Owns(t)
  /\ IF ~ Current(t) THEN Return(t, coordinator, "notApplied") /\ UNCHANGED behind
     ELSE IF coordinator.clockChange /\ t # "main"
     THEN Recover(t, coordinator, "admit") /\ UNCHANGED behind
     ELSE \/ /\ task[t].result \in {"allowed", "userPaused"}
             /\ Becomes(t, Step(t, "begin")) /\ behind' = FALSE
             /\ UNCHANGED coordinator
          \/ /\ Result(t, "inactive") /\ Transition(t, coordinator, "stopped", "failed")
             /\ UNCHANGED behind
          \/ task[t].result \in Failures /\ Handle(t) /\ UNCHANGED behind
  /\ UNCHANGED <<epoch, env, core, refused, spent>>

\* Second half: the new generation is used unless the operation was preempted or the
\* clock changed meanwhile.
Activated(t) ==
  /\ At(t, "begun") /\ task[t].then # "preference" /\ Owns(t)
  /\ IF ~ Current(t)
     THEN Return(t, coordinator, "notApplied") /\ epoch' = Invalidated(task[t].generation)
     ELSE IF coordinator.clockChange
     THEN Recover(t, coordinator, "admit") /\ epoch' = Invalidated(task[t].generation)
     ELSE /\ Return(t, [coordinator EXCEPT !.state = "running", !.armed = TRUE,
                                           !.generation = task[t].generation], "running")
          /\ UNCHANGED epoch
  /\ UNCHANGED <<env, core, behind, refused, spent>>

-----------------------------------------------------------------------------
(* The user                                                                  *)

\* setRecordingEnabled and retryStorageRecovery, one at a time.
Wish(wish) ==
  /\ At("ui", "rest") /\ At("main", "rest")
  /\ spent.wishes < MaxWishes /\ spent' = [spent EXCEPT !.wishes = @ + 1]
  /\ \/ /\ wish = "preference"
        /\ \E enabled \in BOOLEAN : Becomes("ui", [Rest EXCEPT !.at = "want", !.wish = enabled])
        /\ UNCHANGED coordinator
     \/ /\ wish = "retry" /\ Owns("ui") /\ coordinator.state = "storageFailure" /\ Free
        /\ coordinator' = [coordinator EXCEPT !.operation = "ui"]
        /\ Becomes("ui", [Rest EXCEPT !.at = "health"])
  /\ UNCHANGED <<epoch, env, core, behind, refused>>

\* Faulty variant: the engine is told at once, attempts are left to the next admission.
SetPreferenceAtOnce ==
  /\ At("ui", "want") /\ Owns("ui")
  /\ \/ /\ coordinator.state # "running" /\ Return("ui", coordinator, "notApplied")
     \/ /\ coordinator.state = "running" /\ ~ Free
        /\ UNCHANGED coordinator /\ Becomes("ui", task["ui"])
     \/ /\ coordinator.state = "running" /\ Free
        /\ coordinator' = [coordinator EXCEPT !.operation = "ui"]
        /\ Becomes("ui", [Step("ui", "set") EXCEPT !.then = "preference"])
  /\ UNCHANGED <<epoch, env, core, behind, refused, spent>>

\* recordingPreferenceChanged: while capture runs, the operation is waited for by
\* letting the others go first.
SetPreference ==
  /\ At("ui", "want") /\ Owns("ui")
  /\ \/ /\ coordinator.state # "running" /\ Return("ui", coordinator, "notApplied")
     \/ /\ coordinator.state = "running" /\ ~ Free
        /\ UNCHANGED coordinator /\ Becomes("ui", task["ui"])
     \/ /\ coordinator.state = "running" /\ Free
        /\ coordinator' = [coordinator EXCEPT !.operation = "ui"]
        /\ Becomes("ui", [Step("ui", "invalidate") EXCEPT !.old = coordinator.generation,
                                                           !.then = "preference"])
  /\ UNCHANGED <<epoch, env, core, behind, refused, spent>>

\* applyPendingRecordingPreference: tried again when it was preempted.
Preempted == UNCHANGED coordinator /\ Becomes("ui", Step("ui", "want"))

PreferenceInvalidated ==
  /\ At("ui", "drain") /\ task["ui"].then = "preference" /\ Drained("ui") /\ Owns("ui")
  /\ IF Current("ui")
     THEN coordinator' = Sheltered /\ Becomes("ui", Step("ui", "set"))
     ELSE Preempted
  /\ UNCHANGED <<epoch, env, core, behind, refused, spent>>

PreferenceSet ==
  /\ At("ui", "set") /\ Owns("ui")
  /\ \/ task["ui"].result \in Failures /\ Handle("ui")
     \/ /\ Result("ui", "done")
        /\ IF ~ Current("ui") THEN Preempted
           ELSE IF coordinator.state = "running"
           THEN Becomes("ui", Step("ui", "begin")) /\ UNCHANGED coordinator
           ELSE Return("ui", coordinator, "persisted")
  /\ UNCHANGED <<epoch, env, core, behind, refused, spent>>

PreferenceApplied ==
  LET begun == [coordinator EXCEPT !.generation = task["ui"].generation]
  IN  /\ At("ui", "begun") /\ task["ui"].then = "preference" /\ Owns("ui")
      /\ IF ~ Current("ui")
         THEN coordinator' = begun /\ Becomes("ui", Step("ui", "want"))
         ELSE IF coordinator.state # "running" \/ ~ coordinator.clockChange
         THEN Return("ui", begun, "persisted")
         ELSE Transition("ui", begun, "suspended", "recover")
      /\ UNCHANGED <<epoch, env, core, behind, refused, spent>>

\* The pipeline learns of the preference last.
Pause ==
  /\ At("ui", "pause")
  /\ env' = [env EXCEPT !.paused = ~ task["ui"].wish]
  /\ Becomes("ui", Rest)
  /\ UNCHANGED <<coordinator, epoch, core, behind, refused, spent>>

-----------------------------------------------------------------------------
(* Notifications                                                             *)

\* LifecycleMonitor starts after the runtime and stops before it; the environment is
\* told first.
Notice(notice) ==
  /\ At("notices", "rest") /\ At("main", "rest")
  /\ spent.notices < MaxNotices /\ spent' = [spent EXCEPT !.notices = @ + 1]
  /\ \/ /\ notice = "sleep" /\ env' = [env EXCEPT !.asleep = ~ @]
        /\ Becomes("notices", [Rest EXCEPT !.at = IF env.asleep THEN "wake" ELSE "sleep"])
     \/ /\ notice = "lock" /\ env' = [env EXCEPT !.locked = ~ @]
        /\ Becomes("notices", [Rest EXCEPT !.at = "boundary"])
     \/ /\ notice = "clock" /\ UNCHANGED env
        /\ Becomes("notices", [Rest EXCEPT !.at = "clock"])
  /\ UNCHANGED <<coordinator, epoch, core, behind, refused>>

\* suspend, which takes the operation from whoever has it.
Suspend ==
  /\ At("notices", "sleep") /\ Owns("notices")
  /\ IF coordinator.state = "running"
     THEN Transition("notices", [coordinator EXCEPT !.operation = "notices"], "suspended", "suspended")
     ELSE Becomes("notices", Rest) /\ UNCHANGED coordinator
  /\ UNCHANGED <<epoch, env, core, behind, refused, spent>>

\* resume.
Resume ==
  /\ At("notices", "wake") /\ Owns("notices")
  /\ IF coordinator.state = "suspended" /\ Free
     THEN LET c == [coordinator EXCEPT !.operation = "notices"]
          IN  /\ coordinator' = [c EXCEPT !.clockChange = FALSE]
              /\ Becomes("notices", [Step("notices", IF c.clockChange THEN "correct" ELSE "gap")
                                       EXCEPT !.then = "gap"])
     ELSE Becomes("notices", Rest) /\ UNCHANGED coordinator
  /\ UNCHANGED <<epoch, env, core, behind, refused, spent>>

\* wallClockChanged, captureClockDiscontinuityDetected: recorded for later when
\* another operation is under way.
ClockChanged(t) ==
  LET changed == [coordinator EXCEPT !.clockChange = TRUE]
  IN  CASE coordinator.state \notin {"running", "suspended", "storageFailure"} ->
             Becomes(t, Rest) /\ UNCHANGED coordinator
        [] coordinator.state = "running" /\ Free ->
             Transition(t, [changed EXCEPT !.operation = t], "suspended", "recover")
        [] OTHER -> Becomes(t, Rest) /\ coordinator' = changed

WallClockChanged ==
  /\ At("notices", "clock") /\ ClockChanged("notices") /\ Owns("notices")
  /\ UNCHANGED <<epoch, env, core, behind, refused, spent>>

\* privacyBoundaryChanged: what was seen before the lock is not written after it.
PrivacyBoundaryChanged ==
  /\ At("notices", "boundary") /\ Owns("notices")
  /\ IF coordinator.state = "running" /\ Free
     THEN /\ coordinator' = [coordinator EXCEPT !.operation = "notices"]
          /\ Becomes("notices", [Step("notices", "invalidate") EXCEPT
                                   !.old = coordinator.generation, !.then = "boundary"])
     ELSE Becomes("notices", Rest) /\ UNCHANGED coordinator
  /\ UNCHANGED <<epoch, env, core, behind, refused, spent>>

BoundaryInvalidated ==
  /\ At("notices", "drain") /\ task["notices"].then = "boundary" /\ Drained("notices") /\ Owns("notices")
  /\ IF /\ Current("notices") /\ coordinator.state = "running"
        /\ coordinator.generation = task["notices"].old
     THEN Becomes("notices", Step("notices", "bound")) /\ UNCHANGED coordinator
     ELSE Return("notices", coordinator, "none")
  /\ UNCHANGED <<epoch, env, core, behind, refused, spent>>

\* Faulty variant: the new generation is begun and dropped.
BoundaryCrossedDropped ==
  /\ At("notices", "bound") /\ Turn("notices", "epoch")
  /\ epoch' = [epoch EXCEPT !.current = @ + 1]
  /\ Return("notices", coordinator, "none")
  /\ UNCHANGED <<env, core, behind, refused, spent>>

\* The generation is taken over as soon as it has begun.
BoundaryCrossed ==
  /\ At("notices", "bound") /\ Turn("notices", "epoch")
  /\ epoch' = [epoch EXCEPT !.current = @ + 1]
  /\ Return("notices", [coordinator EXCEPT !.generation = epoch.current + 1], "none")
  /\ UNCHANGED <<env, core, behind, refused, spent>>

-----------------------------------------------------------------------------
(* The capture loop and the attempt pipeline                                 *)

Denial == IF env.paused THEN "user-paused"
          ELSE IF env.locked \/ env.asleep THEN "protected" ELSE "none"

\* processDue.
Due ==
  /\ At("attempt", "rest") /\ coordinator.state = "running" /\ Free /\ Owns("attempt")
  /\ coordinator.armed /\ coordinator.generation # 0
  /\ Becomes("attempt", [Rest EXCEPT !.at = "admission", !.generation = coordinator.generation])
  /\ UNCHANGED <<coordinator, epoch, env, core, behind, refused, spent>>

Abandon == Becomes("attempt", Rest) /\ UNCHANGED coordinator

\* execute, up to the attempt.
Admitted ==
  /\ At("attempt", "admission") /\ ~ Waiting("attempt") /\ Owns("attempt")
  /\ \/ ~ Valid("attempt") /\ Abandon
     \/ /\ Valid("attempt")
        /\ \/ /\ Result("attempt", "allowed")
              /\ Becomes("attempt", Step("attempt", "look")) /\ UNCHANGED coordinator
           \/ /\ Result("attempt", "userPaused")
              /\ Becomes("attempt", [Step("attempt", "claim") EXCEPT !.kind = "user-paused"])
              /\ UNCHANGED coordinator
           \/ /\ Result("attempt", "inactive")
              /\ Transition("attempt", coordinator, "stopped", "failed")
           \/ task["attempt"].result \in Failures /\ Handle("attempt")
  /\ UNCHANGED <<epoch, env, core, behind, refused, spent>>

Discontinuity == Becomes("attempt", [task["attempt"] EXCEPT !.at = "outcome", !.result = "clock"])

\* The environment is asked before the pixels are taken,
Look ==
  /\ At("attempt", "look")
  /\ Becomes("attempt", IF ~ Valid("attempt") THEN Rest
                        ELSE IF Denial = "none" THEN Step("attempt", "capture")
                        ELSE [Step("attempt", "claim") EXCEPT !.kind = Denial])
  /\ UNCHANGED <<coordinator, epoch, env, core, behind, refused, spent>>

\* and again after; an attempt before its scheduled time shows a clock set back.
Capture ==
  /\ At("attempt", "capture")
  /\ \/ Becomes("attempt", IF ~ Valid("attempt") THEN Rest
                           ELSE [Step("attempt", "claim") EXCEPT
                                   !.kind = IF Denial = "none" THEN "captured" ELSE Denial])
     \/ behind /\ Valid("attempt") /\ Discontinuity
  /\ UNCHANGED <<coordinator, epoch, env, core, behind, refused, spent>>

\* persist: claimPersistence.
Claim ==
  /\ At("attempt", "claim") /\ Turn("attempt", "epoch")
  /\ \/ /\ Valid("attempt") /\ epoch' = [epoch EXCEPT !.permit = task["attempt"].generation]
        /\ Becomes("attempt", Step("attempt", "ingest"))
     \/ ~ Valid("attempt") /\ Becomes("attempt", Rest) /\ UNCHANGED epoch
     \/ behind /\ Discontinuity /\ UNCHANGED epoch
  /\ UNCHANGED <<coordinator, env, core, behind, refused, spent>>

Release ==
  /\ At("attempt", "ingest") /\ ~ Waiting("attempt") /\ Turn("attempt", "epoch")
  /\ epoch' = [epoch EXCEPT !.permit = 0]
  /\ task' = [task EXCEPT !["attempt"].at = "outcome"]
  /\ LET resumed == {t \in Tasks : At(t, "drain") /\ ~ Drained(t)}
         ready == Others("attempt") \ resumed
     IN  queue' = (queue \cap (ready \X ready \cup resumed \X resumed))
                    \cup ready \X resumed \cup Others("attempt") \X {"attempt"}
  /\ UNCHANGED <<coordinator, env, core, behind, refused, spent>>

\* execute, after the attempt.  What was written, or failed to be, counts even when
\* the generation has gone.
Outcome ==
  /\ At("attempt", "outcome") /\ Owns("attempt")
  /\ \/ Result("attempt", "stored") /\ Abandon
     \/ task["attempt"].result \in Failures /\ Handle("attempt")
     \/ /\ Result("attempt", "clock")
        /\ IF Valid("attempt") THEN ClockChanged("attempt") ELSE Abandon
  /\ UNCHANGED <<epoch, env, core, behind, refused, spent>>

-----------------------------------------------------------------------------
(* The engine: one call at a time, each with its answer                      *)

Answer(t, r) == Becomes(t, [task[t] EXCEPT !.result = r])

Failing(t) ==
  /\ spent.faults < MaxFaults /\ spent' = [spent EXCEPT !.faults = @ + 1]
  /\ \E r \in {"retryable", "fatal"} : Answer(t, r)

Health(t) ==
  /\ At(t, "health") /\ Waiting(t) /\ Turn(t, "engine")
  /\ \/ Answer(t, IF core.room THEN "writable" ELSE "blocked") /\ UNCHANGED spent
     \/ Failing(t)
  /\ UNCHANGED <<coordinator, epoch, env, core, behind, refused>>

\* reconcile-runtime-gap; a closed session has none.
RecordGap(t) ==
  /\ task[t].at \in {"gap", "correct"} /\ Waiting(t) /\ Turn(t, "engine")
  /\ \/ Answer(t, IF core.open THEN "done" ELSE "contract") /\ UNCHANGED spent
     \/ Failing(t)
  /\ UNCHANGED <<coordinator, epoch, env, core, behind, refused>>

\* capture-admission.
Admission(t) ==
  /\ task[t].at \in {"admit", "admission"} /\ Waiting(t) /\ Turn(t, "engine")
  /\ \/ /\ Answer(t, CASE ~ core.open -> "inactive" [] ~ core.enabled -> "userPaused"
                       [] core.over -> "study" [] ~ core.room -> "retryable"
                       [] OTHER -> "allowed")
        /\ UNCHANGED spent
     \/ Failing(t)
  /\ UNCHANGED <<coordinator, epoch, env, core, behind, refused>>

\* set-recording-preference; one that fails may have been written.
Prefer ==
  /\ At("ui", "set") /\ Waiting("ui") /\ Turn("ui", "engine")
  /\ \/ /\ core' = [core EXCEPT !.enabled = task["ui"].wish]
        /\ Answer("ui", "done") /\ UNCHANGED spent
     \/ core' \in {core, [core EXCEPT !.enabled = task["ui"].wish]} /\ Failing("ui")
  /\ UNCHANGED <<coordinator, epoch, env, behind, refused>>

\* ingest: require_live_event; the ingestor asks the clock again before it calls.
Ingest ==
  LET attempt == task["attempt"]
      fits == core.open /\ core.enabled = (attempt.kind # "user-paused")
  IN  /\ At("attempt", "ingest") /\ Waiting("attempt") /\ Turn("attempt", "engine")
      /\ \/ /\ Answer("attempt",
                      CASE ~ fits -> "contract" [] core.over -> "study"
                        [] attempt.kind = "captured" /\ ~ core.room -> "retryable"
                        [] OTHER -> "stored")
            /\ refused' = IF fits THEN refused ELSE refused \cup {attempt.kind}
            /\ UNCHANGED spent
         \/ Failing("attempt") /\ UNCHANGED refused
         \/ behind /\ Answer("attempt", "clock") /\ UNCHANGED <<refused, spent>>
      /\ UNCHANGED <<coordinator, epoch, env, core, behind>>

-----------------------------------------------------------------------------
(* Start, shutdown and the world                                             *)

\* AppCaptureRuntime.shutdown: stop takes the operation from whoever has it.
Stop ==
  /\ At("main", "rest") /\ Owns("main")
  /\ \E c \in {[coordinator EXCEPT !.operation = "main"]} : Transition("main", c, "stopped", "stopped")
  /\ UNCHANGED <<epoch, env, core, behind, refused, spent>>

\* prepare-termination, whose failure is only reported.
Terminate ==
  /\ At("main", "terminate") /\ Turn("main", "engine")
  /\ \/ core' = [core EXCEPT !.open = FALSE] /\ UNCHANGED spent
     \/ /\ spent.faults < MaxFaults /\ spent' = [spent EXCEPT !.faults = @ + 1]
        /\ UNCHANGED core
  /\ Becomes("main", [Rest EXCEPT !.at = "gone"])
  /\ UNCHANGED <<coordinator, epoch, env, behind, refused>>

\* The clock is set back, the study ends, the disk fills up or is cleared.
World ==
  /\ spent.faults < MaxFaults /\ spent' = [spent EXCEPT !.faults = @ + 1]
  /\ \/ ~ behind /\ behind' = TRUE /\ UNCHANGED core
     \/ ~ core.over /\ core' = [core EXCEPT !.over = TRUE] /\ UNCHANGED behind
     \/ core' = [core EXCEPT !.room = ~ @] /\ UNCHANGED behind
  /\ UNCHANGED <<coordinator, epoch, task, queue, env, refused>>

Init ==
  /\ \E enabled \in BOOLEAN :
       /\ core = [enabled |-> enabled, open |-> TRUE, over |-> FALSE, room |-> TRUE]
       /\ env = [paused |-> ~ enabled, locked |-> FALSE, asleep |-> FALSE]
  /\ coordinator = [state |-> "stopped", generation |-> 0, armed |-> FALSE,
                    operation |-> "main", clockChange |-> FALSE]
  /\ epoch = [current |-> 0, permit |-> 0]
  /\ task = [t \in Tasks |-> IF t = "main" THEN [Rest EXCEPT !.at = "admit"] ELSE Rest]
  /\ queue = {} /\ behind = FALSE /\ refused = {}
  /\ spent = [notices |-> 0, wishes |-> 0, faults |-> 0]

\* Steps of the actors, which are all taken in time.
Serve(t) ==
  \/ Invalidate(t) \/ BeginGeneration(t) \/ TransitionDone(t)
  \/ Checked(t) \/ Recorded(t) \/ Activate(t) \/ Activated(t)
  \/ Health(t) \/ RecordGap(t) \/ Admission(t)

Next ==
  \/ \E t \in Tasks : Serve(t)
  \/ \E wish \in Wishes : Wish(wish)
  \/ SetPreference \/ PreferenceInvalidated \/ Prefer \/ PreferenceSet \/ PreferenceApplied \/ Pause
  \/ \E notice \in Notices : Notice(notice)
  \/ Suspend \/ Resume \/ WallClockChanged
  \/ PrivacyBoundaryChanged \/ BoundaryInvalidated \/ BoundaryCrossed
  \/ Due \/ Admitted \/ Look \/ Capture \/ Claim \/ Ingest \/ Release \/ Outcome
  \/ Stop \/ Terminate \/ World

Spec == Init /\ [][Next]_vars

-----------------------------------------------------------------------------
(* Properties                                                                *)

\* Generations are those the epoch has counted; a lifecycle operation belongs to a task
\* that is still under way; capture runs only while the session is open.
TypeOK ==
  /\ coordinator \in [state : States, generation : Nat, armed : BOOLEAN,
                      operation : Tasks \cup {"none"}, clockChange : BOOLEAN]
  /\ coordinator.generation <= epoch.current /\ epoch.permit <= epoch.current
  /\ coordinator.operation # "none" => ~ At(coordinator.operation, "rest")
  /\ coordinator.state = "running" => core.open

\* Whenever a gap or a clock correction is being recorded, no attempt is being written:
\* evidence of before the outage is in the journal before the gap that ends it, whoever
\* stopped the capture and whichever operation took over from another.
GapAfterEvidence ==
  \A t \in Tasks : task[t].at \in {"gap", "correct"} /\ Waiting(t) => epoch.permit = 0

\* Once everybody has returned, capture that is shown as running has a loop and a
\* generation that attempts may be written in: preempted, refused and repeated operations
\* never leave a recorder that records nothing.
RunningIsArmed ==
  coordinator.state = "running" /\ (\A t \in {"main", "ui", "notices"} : At(t, "rest")) /\ Free =>
    coordinator.armed /\ coordinator.generation = epoch.current

\* The engine refuses what does not fit the user's preference or comes after the session
\* was closed.  That is never a screen that was read, nor a denial for a lock or a sleep:
\* only the notice that the user pauses may come when it must be refused.
NothingSeenRefused == refused \subseteq {"user-paused"}
=============================================================================
