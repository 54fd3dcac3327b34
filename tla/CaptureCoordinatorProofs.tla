----------------------- MODULE CaptureCoordinatorProofs ------------------------
(***************************************************************************)
(* Proofs about CaptureCoordinator, for any number of notifications, wishes *)
(* and failures in any order: the type invariant, that no gap is recorded   *)
(* while an attempt is being written, that nothing which was seen is        *)
(* offered to an engine that refuses it, and that capture which is shown as *)
(* running can record.                                                      *)
(***************************************************************************)
EXTENDS CaptureCoordinator, TLAPS

\* The steps a task may be at, and the answers it may get.
Steps ==
  {"rest", "gone", "look", "capture", "pause", "health", "gap", "correct", "admit", "admission",
   "set", "ingest", "terminate", "invalidate", "begin", "begun", "bound", "claim", "want",
   "sleep", "wake", "clock", "boundary", "outcome", "drain"}
Outcomes ==
  Failures \cup {"none", "blocked", "writable", "done", "inactive", "userPaused", "allowed",
                 "stored", "clock"}

\* The state of a task.
TaskState ==
  [at : Steps, generation : Nat, old : Nat,
   then : {"none", "failed", "suspended", "stopped", "recover", "admit", "gap", "preference",
           "boundary"},
   result : Outcomes, wish : BOOLEAN, saved : BOOLEAN, kind : {"none", "user-paused", "protected", "captured"}]

\* The state of the coordinator.
Coordinators ==
  [state : States, generation : Nat, armed : BOOLEAN, operation : Tasks \cup {"none"},
   clockChange : BOOLEAN]

\* The values of the variables; no task knows a generation that has not begun.
Typed ==
  /\ coordinator \in Coordinators
  /\ epoch \in [current : Nat, permit : Nat]
  /\ task \in [Tasks -> TaskState]
  /\ env \in [paused : BOOLEAN, locked : BOOLEAN, asleep : BOOLEAN]
  /\ core \in [enabled : BOOLEAN, open : BOOLEAN, over : BOOLEAN, room : BOOLEAN]
  /\ behind \in BOOLEAN
  /\ coordinator.generation <= epoch.current /\ epoch.permit <= epoch.current
  /\ \A t \in Tasks : task[t].generation <= epoch.current /\ task[t].old <= epoch.current

Ending(t) == task[t].at \in {"invalidate", "drain"}
For(t, thens) == task[t].then \in thens

\* A task between an outage and the capture that follows it.
Recovering(t) ==
  \/ task[t].at \in {"health", "gap", "correct", "admit"}
  \/ task[t].at \in {"begin", "begun"} /\ ~ For(t, {"preference"})

\* A preference is being given to the engine, after the attempts have been waited for.
Preferring ==
  At("ui", "set") \/ (task["ui"].at \in {"begin", "begun"} /\ For("ui", {"preference"}))

\* The app is shutting down.
Stopping ==
  (Ending("main") /\ For("main", {"stopped"})) \/ task["main"].at \in {"terminate", "gone"}

\* Each task has steps of its own.
OwnSteps ==
  /\ \A t \in Tasks :
       /\ task[t].at \in {"want", "set", "pause", "health"} => t = "ui"
       /\ task[t].at \in {"sleep", "wake", "clock", "boundary", "bound"} => t = "notices"
       /\ task[t].at \in {"admission", "look", "capture", "claim", "ingest", "outcome"} =>
            t = "attempt"
       /\ task[t].at \in {"terminate", "gone"} => t = "main"
       /\ Ending(t) /\ For(t, {"preference"}) => t = "ui"
       /\ Ending(t) /\ For(t, {"boundary", "suspended"}) => t = "notices"
       /\ Ending(t) /\ For(t, {"stopped"}) => t = "main"
       /\ task[t].at \in {"begin", "begun"} /\ For(t, {"preference"}) => t = "ui"
       /\ At(t, "set") => For(t, {"preference"})
       /\ task[t].at \in {"health", "gap", "correct", "admit"} => ~ For(t, {"preference"})
       /\ At(t, "correct") => For(t, {"admit", "gap"})
       /\ At(t, "drain") => task[t].old < epoch.current

\* Whose operation it is, is in one; and who recovers or waits in order to recover has the
\* operation, unless a shutdown took it.
Operations ==
  /\ \A t \in Tasks :
       /\ coordinator.operation = t =>
            Ending(t) \/ Recovering(t) \/ At(t, "bound") \/ (t = "ui" /\ Preferring)
       /\ Recovering(t) \/ (Ending(t) /\ For(t, {"recover", "suspended"})) =>
            (coordinator.operation = t \/ Stopping) /\ coordinator.state # "running"
       /\ Ending(t) /\ For(t, {"failed"}) /\ coordinator.operation = t =>
            coordinator.state # "running"
       /\ At(t, "bound") \/ (Ending(t) /\ For(t, {"boundary"})) =>
            coordinator.operation = t \/ Stopping
  /\ Stopping => /\ coordinator.state \notin {"running", "suspended"}
                 /\ coordinator.operation \in {"main", "none"}
                 /\ coordinator.operation = "main" => Ending("main")

\* The attempt may still be written.
Alive ==
  \/ At("attempt", "ingest")
  \/ task["attempt"].at \in {"admission", "look", "capture", "claim"} /\ Valid("attempt")

\* An attempt that may be written is of the coordinator's generation, and whoever has the
\* operation is waiting for it; nobody is past that.
AttemptKnown ==
  /\ epoch.permit = (IF At("attempt", "ingest") THEN task["attempt"].generation ELSE 0)
  /\ Alive =>
       /\ task["attempt"].generation # 0
       /\ task["attempt"].generation = coordinator.generation
       /\ coordinator.operation = "none" => coordinator.state = "running"
       /\ \A t \in Tasks : coordinator.operation = t =>
            Ending(t) /\ task[t].old = task["attempt"].generation
       /\ \A t \in Tasks : ~ Recovering(t) /\ ~ At(t, "bound")
       /\ ~ Preferring

\* The notifications are not in front of the user's call.
Served == <<"notices", "ui">> \notin queue

\* A preference that lost the operation to a suspension is in front of it wherever both
\* need the same actor, so that it has ended before capture resumes.
PreferenceFirst ==
  LET notices == task["notices"]
      outside == notices.at \in {"rest", "sleep", "wake", "clock", "boundary"}
      recording == notices.at \in {"gap", "correct"}
  IN  Preferring /\ coordinator.operation # "ui" /\ ~ Stopping =>
        /\ coordinator.state # "running"
        /\ coordinator.operation \in {"none", "notices"}
        /\ \/ /\ task["ui"].at = "begin"
              /\ notices.at = "invalidate" /\ For("notices", {"suspended"}) /\ Served
           \/ /\ task["ui"].at = "begun"
              /\ Ending("notices") /\ For("notices", {"suspended"})
              /\ notices.at = "drain" => Served
           \/ /\ task["ui"].at = "set" /\ Waiting("ui")
              /\ \/ outside \/ (Ending("notices") /\ For("notices", {"suspended"}))
                 \/ recording /\ Waiting("notices") /\ Served
           \/ /\ task["ui"].at = "set" /\ ~ Waiting("ui")
              /\ \/ outside \/ (Ending("notices") /\ For("notices", {"suspended"}))
                 \/ recording /\ (Waiting("notices") \/ Served)

\* What was seen was seen with the session open and recording enabled.
SeenAllowed ==
  Alive /\ \/ At("attempt", "admission") /\ Result("attempt", "allowed")
           \/ task["attempt"].at \in {"look", "capture"}
           \/ task["attempt"].at \in {"claim", "ingest"} /\ task["attempt"].kind # "user-paused"
  => core.open /\ core.enabled

\* Nobody but t is about to invalidate the generation g.
Lasting(t, g) == \A u \in Tasks \ {t} : Ending(u) => task[u].old < g

\* A generation that has just begun is the current one when it is used, and while capture
\* runs and nobody has the operation, the coordinator's is.
Generations ==
  /\ coordinator.state = "running" =>
       /\ coordinator.armed
       /\ coordinator.operation = "none" =>
            coordinator.generation = epoch.current /\ Lasting("none", epoch.current)
       /\ \A t \in Tasks : coordinator.operation = t /\ Ending(t) =>
            coordinator.generation = task[t].old /\ Lasting(t, task[t].old)
  /\ \A t \in Tasks : coordinator.operation = t /\ At(t, "begun") =>
       /\ task[t].generation = epoch.current
       /\ coordinator.generation < epoch.current /\ Lasting(t, epoch.current)

\* The session is closed by the termination.
ClosedWhenGone == core.open \/ At("main", "gone")

\* The inductive invariant.
CoordinatorInv ==
  /\ Typed /\ OwnSteps /\ Operations /\ AttemptKnown /\ PreferenceFirst /\ SeenAllowed
  /\ Generations /\ ClosedWhenGone /\ NothingSeenRefused

-----------------------------------------------------------------------------
(* What the helpers of the model do to the variables                         *)

\* One task takes a step; the notifications come in front of the user's call only
\* when that call takes a step of its own.
Moved(t) ==
  /\ task' \in [Tasks -> TaskState]
  /\ \A u \in Tasks : u # t => task'[u] = task[u]
  /\ t # "ui" /\ Served /\ ~ At("ui", "drain") => Served'
  /\ t = "notices" => Served'

\* Becomes moves one task, behind all the others that wait.
LEMMA Moves ==
  ASSUME NEW t \in Tasks, NEW r \in TaskState, task \in [Tasks -> TaskState], Becomes(t, r)
  PROVE  task'[t] = r /\ Moved(t)
  BY DEF Becomes, Served, Others, Tasks, Moved, At

\* A task state stays one when its step and its result change.
LEMMA StepState ==
  ASSUME NEW r \in TaskState, NEW at \in Steps, NEW result \in Outcomes
  PROVE  [r EXCEPT !.at = at, !.result = result] \in TaskState
  BY DEF TaskState

\* Rest is a task state.
LEMMA RestState == Rest \in TaskState
  BY DEF TaskState, Outcomes, Rest, Steps

\* r is the state of t with another step.
StepOf(t, at, r) ==
  /\ r \in TaskState /\ r.at = at /\ r.result = "none"
  /\ r.generation = task[t].generation /\ r.old = task[t].old
  /\ r.then = task[t].then /\ r.kind = task[t].kind

\* What a task knows stays when it takes a step.
LEMMA StepFields ==
  ASSUME Typed, NEW t \in Tasks, NEW at \in Steps
  PROVE  StepOf(t, at, Step(t, at))
<1>1. task[t] \in TaskState
  BY DEF Typed
<1>2. Step(t, at) \in TaskState
  BY <1>1, StepState DEF Step, Outcomes
<1> QED BY <1>1, <1>2 DEF StepOf, Step, TaskState

\* The step that a task is at, when nothing else of it changes.
Stepped(t, at) ==
  /\ Moved(t) /\ task'[t].at = at /\ task'[t].result = "none"
  /\ task'[t].generation = task[t].generation /\ task'[t].old = task[t].old
  /\ task'[t].then = task[t].then /\ task'[t].kind = task[t].kind

\* Becomes with Step is a Stepped.
LEMMA Stepping ==
  ASSUME Typed, NEW t \in Tasks, NEW at \in Steps, Becomes(t, Step(t, at))
  PROVE  Stepped(t, at)
<1>1. task[t] \in TaskState
  BY DEF Typed
<1>2. Step(t, at) \in TaskState
  BY <1>1, StepState DEF Step, Outcomes
<1>3. task'[t] = Step(t, at) /\ Moved(t)
  BY <1>2, Moves DEF Typed
<1> QED BY <1>1, <1>3 DEF Stepped, Step, TaskState

\* A task at rest.
Rested(t) ==
  /\ Moved(t) /\ task'[t].at = "rest" /\ task'[t].result = "none"
  /\ task'[t].generation = 0 /\ task'[t].old = 0

\* Becomes with Rest is a Rested.
LEMMA Rests ==
  ASSUME Typed, NEW t \in Tasks, Becomes(t, Rest)
  PROVE  Rested(t)
  BY Moves, RestState DEF Typed, Rested, Rest

\* An operation that has returned, and what follows it.
Returned(t, c, outcome) ==
  /\ Moved(t) /\ coordinator' \in Coordinators
  /\ task'[t].at \in (IF t = "ui" THEN {"pause", "rest"}
                      ELSE IF t = "main" /\ outcome = "stopped" THEN {"terminate"}
                      ELSE {"rest"})
  /\ task'[t].result = "none"
  /\ task'[t].generation \in {task[t].generation, 0}
  /\ task'[t].old \in {task[t].old, 0}
  /\ coordinator'.state = c.state /\ coordinator'.armed = c.armed
  /\ coordinator'.generation = c.generation
  /\ coordinator'.operation = IF c.operation = t THEN "none" ELSE c.operation

\* What Return does, read field by field.
LEMMA Returns ==
  ASSUME Typed, NEW t \in Tasks, NEW c \in Coordinators, NEW outcome, Return(t, c, outcome)
  PROVE  Returned(t, c, outcome)
<1> DEFINE r == CASE Saved(t, outcome) -> Step(t, "pause")
                  [] t = "main" /\ outcome = "stopped" -> Step(t, "terminate")
                  [] OTHER -> Rest
<1>1. task[t] \in TaskState
  BY DEF Typed
<1>2. Step(t, "pause") \in TaskState /\ Step(t, "terminate") \in TaskState
  BY StepFields DEF StepOf, Steps
<1>3. r \in TaskState
  BY <1>2, RestState
<1>4. task'[t] = r /\ Moved(t)
  BY <1>3, Moves DEF Return, Typed
<1>5. coordinator' = [c EXCEPT !.operation = IF @ = t THEN "none" ELSE @]
  BY DEF Return
<1>6. coordinator' \in Coordinators
  BY <1>5 DEF Coordinators
<1>7. /\ task'[t].at \in (IF t = "ui" THEN {"pause", "rest"}
                          ELSE IF t = "main" /\ outcome = "stopped" THEN {"terminate"}
                          ELSE {"rest"})
      /\ task'[t].result = "none"
      /\ task'[t].generation \in {task[t].generation, 0}
      /\ task'[t].old \in {task[t].old, 0}
  BY <1>1, <1>4 DEF Step, Rest, TaskState, Saved
<1> QED BY <1>4, <1>5, <1>6, <1>7 DEF Coordinators, Returned

\* The coordinator but for the change of its clock.
Same(c) ==
  /\ coordinator' \in Coordinators
  /\ coordinator'.state = c.state /\ coordinator'.armed = c.armed
  /\ coordinator'.generation = c.generation /\ coordinator'.operation = c.operation

\* A recovery goes on.
Recovered(t, c, then) ==
  /\ Moved(t) /\ Same(c)
  /\ task'[t].at \in {"correct", "gap", "admit"} /\ (task'[t].at = "admit" => then = "admit")
  /\ task'[t].result = "none" /\ task'[t].then = then
  /\ task'[t].generation = task[t].generation /\ task'[t].old = task[t].old

\* What Recover does, read field by field.
LEMMA Recovers ==
  ASSUME Typed, NEW t \in Tasks, NEW c \in Coordinators, NEW then \in {"admit", "gap"},
         Recover(t, c, then)
  PROVE  Recovered(t, c, then)
<1> DEFINE at == IF c.clockChange THEN "correct" ELSE IF then = "gap" THEN "gap" ELSE "admit"
           r == [Step(t, at) EXCEPT !.then = then,
                                    !.saved = @ \/ (t = "ui" /\ task[t].then = "recover")]
<1>1. task[t] \in TaskState /\ at \in Steps
  BY DEF Typed, Steps
<1>2. r \in TaskState
  BY <1>1 DEF Step, TaskState, Outcomes
<1>3. task'[t] = r /\ Moved(t)
  BY <1>2, Moves DEF Recover, Typed
<1>4. coordinator' = [c EXCEPT !.clockChange = FALSE]
  BY DEF Recover
<1>5. Same(c)
  BY <1>4 DEF Coordinators, Same
<1>6. /\ r.at = at /\ r.result = "none" /\ r.then = then
      /\ r.generation = task[t].generation /\ r.old = task[t].old
  BY <1>1 DEF Step, TaskState
<1> QED BY <1>3, <1>5, <1>6 DEF Recovered

\* A transition begins.
Transitioned(t, c, state, then) ==
  /\ Moved(t) /\ coordinator' \in Coordinators
  /\ task'[t].at = "invalidate" /\ task'[t].result = "none" /\ task'[t].then = then
  /\ task'[t].generation = task[t].generation /\ task'[t].old = c.generation
  /\ coordinator'.state = state /\ ~ coordinator'.armed
  /\ coordinator'.generation = c.generation /\ coordinator'.operation = c.operation

\* What Transition does, read field by field.
LEMMA Transitions ==
  ASSUME Typed, NEW t \in Tasks, NEW c \in Coordinators, NEW state \in States,
         NEW then \in {"failed", "suspended", "stopped", "recover"},
         Transition(t, c, state, then)
  PROVE  Transitioned(t, c, state, then)
<1> DEFINE r == [Step(t, "invalidate") EXCEPT !.old = c.generation, !.then = then]
<1>1. StepOf(t, "invalidate", Step(t, "invalidate")) /\ c.generation \in Nat
  BY StepFields DEF Coordinators, Steps
<1>2. r \in TaskState
  BY <1>1 DEF StepOf, TaskState
<1>3. task'[t] = r /\ Moved(t)
  BY <1>2, Moves DEF Transition, Typed
<1>4. coordinator' = [c EXCEPT !.state = state, !.armed = FALSE]
  BY DEF Transition
<1>5. coordinator' \in Coordinators
  BY <1>4 DEF Coordinators
<1>6. /\ r.at = "invalidate" /\ r.result = "none" /\ r.then = then
      /\ r.generation = task[t].generation /\ r.old = c.generation
  BY <1>1 DEF StepOf, TaskState
<1> QED BY <1>3, <1>4, <1>5, <1>6 DEF Coordinators, Transitioned

\* A failure stops the capture.
Handled(t) ==
  \E state \in {"storageFailure", "studyExpired", "repairRequired"} :
    Transitioned(t, coordinator, state, "failed")

\* A failure that is handled stops the capture.
LEMMA Handles ==
  ASSUME Typed, NEW t \in Tasks, Handle(t)
  PROVE  Handled(t)
<1> DEFINE state == CASE Result(t, "retryable") -> "storageFailure"
                      [] Result(t, "study") -> "studyExpired"
                      [] OTHER -> "repairRequired"
<1>1. state \in {"storageFailure", "studyExpired", "repairRequired"} /\ state \in States
  BY DEF States
<1>2. Transition(t, coordinator, state, "failed")
  BY DEF Handle
<1>3. Transitioned(t, coordinator, state, "failed")
  <2> HIDE DEF state
  <2> QED BY <1>1, <1>2, Transitions DEF Typed
<1> QED BY <1>1, <1>3 DEF Handled

\* An answer of the engine.
Answered(t, r) ==
  /\ Moved(t) /\ task'[t].at = task[t].at /\ task'[t].result = r
  /\ task'[t].generation = task[t].generation /\ task'[t].old = task[t].old
  /\ task'[t].then = task[t].then /\ task'[t].kind = task[t].kind

\* An answer of the engine changes the result and nothing else.
LEMMA Answers ==
  ASSUME Typed, NEW t \in Tasks, NEW r \in Outcomes, Answer(t, r)
  PROVE  Answered(t, r)
<1>1. task[t] \in TaskState
  BY DEF Typed
<1>2. [task[t] EXCEPT !.result = r] \in TaskState
  BY <1>1 DEF TaskState
<1>3. task'[t] = [task[t] EXCEPT !.result = r] /\ Moved(t)
  BY <1>2, Moves DEF Answer, Typed
<1> QED BY <1>1, <1>3 DEF Answered, TaskState

\* The numbers and names in the variables.
LEMMA Values ==
  ASSUME Typed
  PROVE  /\ \A t \in Tasks : /\ task[t].generation \in Nat /\ task[t].old \in Nat
                             /\ task[t].at \in Steps /\ task[t] \in TaskState
         /\ epoch.current \in Nat /\ epoch.permit \in Nat
         /\ coordinator.generation \in Nat /\ coordinator.operation \in Tasks \cup {"none"}
         /\ coordinator.state \in States /\ coordinator \in Coordinators
         /\ coordinator.clockChange \in BOOLEAN
         /\ coordinator.generation <= epoch.current /\ epoch.permit <= epoch.current
         /\ \A t \in Tasks : task[t].generation <= epoch.current /\ task[t].old <= epoch.current
  BY DEF Typed, TaskState, Coordinators

\* A generation is invalidated, or the next one begins.
Advanced(n) ==
  /\ epoch' \in [current : Nat, permit : Nat]
  /\ epoch'.current = n /\ epoch'.permit = epoch.permit

\* The generation counter never goes back.
LEMMA Advances ==
  ASSUME Typed
  PROVE  /\ \A g \in Nat : epoch' = Invalidated(g) =>
              Advanced(IF g = epoch.current THEN epoch.current + 1 ELSE epoch.current)
         /\ epoch' = [epoch EXCEPT !.current = @ + 1] => Advanced(epoch.current + 1)
  BY DEF Typed, Invalidated, Advanced

\* Where the user's call waits for the same actor, the notifications are in front of it
\* when they have their turn.
InFront(actor) ==
  /\ actor = "epoch" /\ At("ui", "begin") => ~ Served
  /\ actor = "engine" /\ At("ui", "set") /\ Waiting("ui") => ~ Served
  /\ actor = "coordinator" /\ (At("ui", "begun") \/ (At("ui", "set") /\ ~ Waiting("ui"))) =>
       ~ Served

\* An actor serves the user's call first where it has waited longer.
LEMMA TurnInFront ==
  ASSUME NEW actor, Turn("notices", actor)
  PROVE  InFront(actor)
  BY DEF Turn, InFront, Actor, At, Waiting, Served, Tasks

\* A task that leaves its rest.
Started(t, at) ==
  /\ Moved(t) /\ task'[t].at = at /\ task'[t].result = "none" /\ task'[t].then = "none"
  /\ task'[t].generation = 0 /\ task'[t].old = 0

\* A task that leaves its rest forgets its generations.
LEMMA Starting ==
  ASSUME Typed, NEW t \in Tasks, NEW at \in Steps, NEW enabled \in BOOLEAN,
         \/ Becomes(t, [Rest EXCEPT !.at = at])
         \/ Becomes(t, [Rest EXCEPT !.at = at, !.wish = enabled])
  PROVE  Started(t, at)
<1> DEFINE started == [Rest EXCEPT !.at = at]
           wished == [Rest EXCEPT !.at = at, !.wish = enabled]
<1>1. /\ Rest \in TaskState /\ Rest.result = "none" /\ Rest.then = "none"
      /\ Rest.generation = 0 /\ Rest.old = 0
  BY RestState DEF Rest
<1>2. \A r \in {started, wished} :
        /\ r \in TaskState /\ r.at = at /\ r.result = "none" /\ r.then = "none"
        /\ r.generation = 0 /\ r.old = 0
  BY <1>1 DEF TaskState
<1>3. \E r \in {started, wished} : Becomes(t, r)
  OBVIOUS
<1> HIDE DEF started, wished
<1> QED BY <1>2, <1>3, Moves DEF Started, Typed

\* An attempt that finds the clock behind its plan has ended.
LEMMA Discontinues ==
  ASSUME Typed, Discontinuity
  PROVE  /\ Moved("attempt") /\ task'["attempt"].at = "outcome"
         /\ task'["attempt"].generation = task["attempt"].generation
         /\ task'["attempt"].old = task["attempt"].old
<1>1. /\ task["attempt"] \in TaskState /\ "attempt" \in Tasks
      /\ "outcome" \in Steps /\ "clock" \in Outcomes
  BY Values DEF Tasks, Steps, Outcomes
<1> DEFINE r == [task["attempt"] EXCEPT !.at = "outcome", !.result = "clock"]
<1>2. r \in TaskState
  BY <1>1, StepState
<1>3. /\ r.at = "outcome"
      /\ r.generation = task["attempt"].generation /\ r.old = task["attempt"].old
  BY <1>1 DEF TaskState
<1>4. Becomes("attempt", r)
  BY DEF Discontinuity
<1> HIDE DEF r
<1> QED BY <1>1, <1>2, <1>3, <1>4, Moves DEF Typed

\* The coordinator but for its clock, when one of its fields changes.
Became(state, generation, operation) ==
  /\ coordinator' \in Coordinators
  /\ coordinator'.state = state /\ coordinator'.armed = coordinator.armed
  /\ coordinator'.generation = generation /\ coordinator'.operation = operation

\* A clock change is noted, or it interrupts the capture.
ClockNoted(t) ==
  \/ Rested(t) /\ Same(coordinator)
  \/ /\ coordinator.state = "running" /\ Free
     /\ \E c \in Coordinators :
          /\ c.generation = coordinator.generation /\ c.operation = t
          /\ Transitioned(t, c, "suspended", "recover")

\* What a clock change does, read field by field.
LEMMA ClockChanges ==
  ASSUME Typed, NEW t \in Tasks, ClockChanged(t)
  PROVE  ClockNoted(t)
<1> DEFINE changed == [coordinator EXCEPT !.clockChange = TRUE]
           c == [changed EXCEPT !.operation = t]
<1>1. /\ changed \in Coordinators /\ changed.state = coordinator.state
      /\ changed.armed = coordinator.armed /\ changed.generation = coordinator.generation
      /\ changed.operation = coordinator.operation
      /\ c \in Coordinators /\ c.generation = coordinator.generation /\ c.operation = t
  BY Values DEF Coordinators
<1>2. CASE coordinator.state = "running" /\ Free
  <2>1. Transition(t, c, "suspended", "recover")
    BY <1>2 DEF ClockChanged
  <2>2. "suspended" \in States
    BY DEF States
  <2> HIDE DEF c
  <2>3. Transitioned(t, c, "suspended", "recover")
    BY <1>1, <2>1, <2>2, Transitions
  <2> QED BY <1>1, <1>2, <2>3 DEF ClockNoted
<1>3. CASE ~ (coordinator.state = "running" /\ Free)
  <2>1. Becomes(t, Rest) /\ coordinator' \in {coordinator, changed}
    BY <1>3 DEF ClockChanged
  <2>2. Rested(t)
    BY <2>1, Rests
  <2> QED BY <1>1, <2>1, <2>2, Values DEF ClockNoted, Same
<1> QED BY <1>2, <1>3

-----------------------------------------------------------------------------
(* Each step keeps the invariant: recovery and activation                    *)

\* The epoch counts on only for the generation that is current.
LEMMA InvalidateKeeps ==
  ASSUME CoordinatorInv, NEW t \in Tasks, Invalidate(t)
  PROVE  CoordinatorInv'
<1> USE DEF CoordinatorInv, At, Waiting, Result, Current, Free, Valid, Ending, For, Recovering,
            Preferring, Stopping, Alive, Moved, Tasks, Stepped, Advanced
<1>1. /\ At(t, "invalidate") /\ Turn(t, "epoch")
      /\ Advanced(IF task[t].old = epoch.current THEN epoch.current + 1 ELSE epoch.current)
      /\ Stepped(t, "drain") /\ UNCHANGED <<coordinator, env, core, behind, refused>>
  BY SMTT(30), Stepping, Values, Advances DEF Invalidate, Steps
<1>2. Typed'
  BY <1>1, Values DEF Typed
<1>3. OwnSteps'
  BY <1>1, Values DEF OwnSteps
<1>4. Operations'
  BY <1>1, Values DEF OwnSteps, Operations, PreferenceFirst
<1>5. AttemptKnown' /\ SeenAllowed'
  BY <1>1, Values DEF OwnSteps, Operations, AttemptKnown, SeenAllowed
<1>6. PreferenceFirst'
  BY <1>1, Values, TurnInFront DEF OwnSteps, Operations, PreferenceFirst, InFront
<1>7. Generations'
  BY SMTT(30), <1>1, Values DEF OwnSteps, Operations, PreferenceFirst, Generations, Lasting
<1>8. ClosedWhenGone' /\ NothingSeenRefused'
  BY <1>1, Values DEF OwnSteps, ClosedWhenGone, NothingSeenRefused
<1> QED BY <1>2, <1>3, <1>4, <1>5, <1>6, <1>7, <1>8

\* A new generation is above all the others.
LEMMA BeginKeeps ==
  ASSUME CoordinatorInv, NEW t \in Tasks, BeginGeneration(t)
  PROVE  CoordinatorInv'
<1> USE DEF CoordinatorInv, At, Waiting, Result, Current, Free, Valid, Ending, For, Recovering,
            Preferring, Stopping, Alive, Moved, Tasks, Advanced
<1>1. /\ At(t, "begin") /\ Turn(t, "epoch") /\ Advanced(epoch.current + 1)
      /\ Moved(t) /\ task'[t].at = "begun" /\ task'[t].generation = epoch.current + 1
      /\ task'[t].then = task[t].then /\ task'[t].old = task[t].old
      /\ UNCHANGED <<coordinator, env, core, behind, refused>>
  <2> DEFINE r == [Step(t, "begun") EXCEPT !.generation = epoch.current + 1]
  <2>1. r \in TaskState /\ r.at = "begun" /\ r.generation = epoch.current + 1
        /\ r.then = task[t].then /\ r.old = task[t].old
    <3>1. /\ epoch.current + 1 \in Nat
          /\ StepOf(t, "begun", Step(t, "begun"))
      BY StepFields, Values DEF Steps
    <3> QED BY <3>1 DEF StepOf, TaskState
  <2> HIDE DEF r
  <2>2. Becomes(t, r)
    BY DEF BeginGeneration, r
  <2> QED BY <2>1, <2>2, Moves, Advances DEF BeginGeneration, Typed
<1>2. Typed'
  BY <1>1, Values DEF Typed
<1>3. OwnSteps'
  BY <1>1, Values DEF OwnSteps
<1>4. Operations'
  BY <1>1, Values DEF OwnSteps, Operations, PreferenceFirst
<1>5. AttemptKnown' /\ SeenAllowed'
  BY <1>1, Values DEF OwnSteps, Operations, AttemptKnown, SeenAllowed
<1>6. PreferenceFirst'
  BY <1>1, Values, TurnInFront DEF OwnSteps, Operations, PreferenceFirst, InFront
<1>7. Generations'
  BY <1>1, Values DEF OwnSteps, Operations, PreferenceFirst, Generations, Lasting
<1>8. ClosedWhenGone' /\ NothingSeenRefused'
  BY <1>1, Values DEF OwnSteps, ClosedWhenGone, NothingSeenRefused
<1> QED BY <1>2, <1>3, <1>4, <1>5, <1>6, <1>7, <1>8

\* A transition ends after the attempt of its generation.
LEMMA TransitionDoneKeeps ==
  ASSUME CoordinatorInv, NEW t \in Tasks, TransitionDone(t)
  PROVE  CoordinatorInv'
<1> USE DEF CoordinatorInv, At, Waiting, Result, Current, Free, Valid, Ending, For, Recovering,
            Preferring, Stopping, Alive, Moved, Tasks, Returned, Recovered, Same, Drained
<1>1. /\ At(t, "drain") /\ Drained(t) /\ Turn(t, "coordinator")
      /\ UNCHANGED <<epoch, env, core, behind, refused>>
      /\ \/ For(t, {"failed"}) /\ Returned(t, Forgotten(t), "failed")
         \/ For(t, {"suspended"}) /\ Returned(t, Forgotten(t), "suspended")
         \/ For(t, {"stopped"}) /\ Returned(t, Forgotten(t), "stopped")
         \/ For(t, {"recover"}) /\ Current(t) /\ Recovered(t, Forgotten(t), "admit")
         \/ For(t, {"recover"}) /\ ~ Current(t) /\ Returned(t, Forgotten(t), "notApplied")
      /\ Forgotten(t) \in Coordinators
      /\ Forgotten(t).state = coordinator.state /\ Forgotten(t).armed = coordinator.armed
      /\ Forgotten(t).operation = coordinator.operation
      /\ Forgotten(t).generation
           = IF coordinator.generation = task[t].old THEN 0 ELSE coordinator.generation
  <2>1. /\ Forgotten(t) \in Coordinators
        /\ [Forgotten(t) EXCEPT !.clockChange = FALSE] \in Coordinators
        /\ Forgotten(t).state = coordinator.state /\ Forgotten(t).armed = coordinator.armed
        /\ Forgotten(t).operation = coordinator.operation
        /\ Forgotten(t).generation
             = IF coordinator.generation = task[t].old THEN 0 ELSE coordinator.generation
    BY Values DEF Forgotten, Coordinators
  <2>2. \A o : Returned(t, [Forgotten(t) EXCEPT !.clockChange = FALSE], o)
         => Returned(t, Forgotten(t), o)
    BY <2>1 DEF Returned, Coordinators
  <2>3. CASE For(t, {"failed"})
    BY <2>1, <2>3, Returns DEF TransitionDone, Owns
  <2>4. CASE For(t, {"suspended"})
    BY <2>1, <2>4, Returns DEF TransitionDone, Owns
  <2>5. CASE For(t, {"stopped"})
    <3>1. Return(t, [Forgotten(t) EXCEPT !.clockChange = FALSE], "stopped")
      BY <2>5 DEF TransitionDone
    <3>2. Returned(t, [Forgotten(t) EXCEPT !.clockChange = FALSE], "stopped")
      BY <2>1, <3>1, Returns
    <3> QED BY <2>1, <2>2, <2>5, <3>2 DEF TransitionDone, Owns
  <2>6. CASE For(t, {"recover"})
    BY <2>1, <2>6, Returns, Recovers DEF TransitionDone, Owns
  <2> QED BY <2>3, <2>4, <2>5, <2>6 DEF TransitionDone
<1>2. Typed'
  BY <1>1, Values DEF Typed
<1>3. OwnSteps'
  BY SMTT(30), <1>1, Values DEF OwnSteps
<1>4. Operations'
  BY SMTT(30), <1>1, Values DEF OwnSteps, Operations, PreferenceFirst
<1>5. AttemptKnown' /\ SeenAllowed'
  BY SMTT(30), <1>1, Values DEF OwnSteps, Operations, AttemptKnown, SeenAllowed
<1>6. PreferenceFirst'
  BY SMTT(30), <1>1, Values, TurnInFront DEF OwnSteps, Operations, PreferenceFirst, InFront
<1>7. Generations'
  BY SMTT(30), <1>1, Values DEF OwnSteps, Operations, PreferenceFirst, Generations, Lasting
<1>8. ClosedWhenGone' /\ NothingSeenRefused'
  BY <1>1, Values DEF OwnSteps, ClosedWhenGone, NothingSeenRefused
<1> QED BY <1>2, <1>3, <1>4, <1>5, <1>6, <1>7, <1>8

\* The storage check goes on only for the owner of the operation.
LEMMA CheckedKeeps ==
  ASSUME CoordinatorInv, NEW t \in Tasks, Checked(t)
  PROVE  CoordinatorInv'
<1> USE DEF CoordinatorInv, At, Waiting, Result, Current, Free, Valid, Ending, For, Recovering,
            Preferring, Stopping, Alive, Moved, Tasks, Returned, Recovered, Same,
            Handled, Transitioned
<1>1. /\ At(t, "health") /\ Turn(t, "coordinator")
      /\ UNCHANGED <<epoch, env, core, behind, refused>>
      /\ \/ \E c \in Coordinators :
              /\ c.state = "storageFailure" /\ c.armed = coordinator.armed
              /\ c.generation = coordinator.generation /\ c.operation = coordinator.operation
              /\ Returned(t, c, "failed")
         \/ Handled(t)
         \/ Current(t) /\ Recovered(t, coordinator, "gap")
         \/ ~ Current(t) /\ Returned(t, coordinator, "failed")
  <2> DEFINE c == [coordinator EXCEPT !.state = "storageFailure"]
  <2>1. /\ c \in Coordinators /\ c.state = "storageFailure" /\ c.armed = coordinator.armed
        /\ c.generation = coordinator.generation /\ c.operation = coordinator.operation
    BY Values DEF Coordinators, States
  <2>2. CASE Result(t, "blocked")
    <3> HIDE DEF c
    <3>1. Return(t, c, "failed")
      BY <2>2 DEF Checked, Failures, c
    <3> QED BY <2>1, <3>1, Returns DEF Checked, Owns
  <2>3. CASE ~ Result(t, "blocked")
    BY <2>3, Values, Handles, Returns, Recovers DEF Checked, Owns
  <2> QED BY <2>2, <2>3
<1>2. Typed'
  BY <1>1, Values DEF Typed
<1>3. OwnSteps'
  BY SMTT(30), <1>1, Values DEF OwnSteps
<1>4. Operations'
  BY SMTT(30), <1>1, Values DEF OwnSteps, Operations, PreferenceFirst
<1>5. AttemptKnown' /\ SeenAllowed'
  BY SMTT(30), <1>1, Values DEF OwnSteps, Operations, AttemptKnown, SeenAllowed
<1>6. PreferenceFirst'
  BY SMTT(30), <1>1, Values, TurnInFront DEF OwnSteps, Operations, PreferenceFirst, InFront
<1>7. Generations'
  BY SMTT(30), <1>1, Values DEF OwnSteps, Operations, PreferenceFirst, Generations, Lasting
<1>8. ClosedWhenGone' /\ NothingSeenRefused'
  BY SMTT(30), <1>1, Values DEF OwnSteps, ClosedWhenGone, NothingSeenRefused
<1> QED BY <1>2, <1>3, <1>4, <1>5, <1>6, <1>7, <1>8

\* So does a recorded gap.
LEMMA RecordedKeeps ==
  ASSUME CoordinatorInv, NEW t \in Tasks, Recorded(t)
  PROVE  CoordinatorInv'
<1> USE DEF CoordinatorInv, At, Waiting, Result, Current, Free, Valid, Ending, For, Recovering,
            Preferring, Stopping, Alive, Moved, Tasks, Returned, Recovered, Same,
            Handled, Transitioned
<1>1. /\ task[t].at \in {"gap", "correct"} /\ ~ Waiting(t) /\ Turn(t, "coordinator")
      /\ UNCHANGED <<epoch, env, core, behind, refused>>
      /\ \/ Handled(t)
         \/ /\ Current(t)
            /\ \E then \in {"admit", "gap"} : Recovered(t, coordinator, then)
         \/ ~ Current(t) /\ Returned(t, coordinator, "notApplied")
  <2>1. (IF At(t, "gap") THEN "admit" ELSE task[t].then) \in {"admit", "gap"}
    BY DEF Recorded, OwnSteps
  <2> QED BY <2>1, Values, Handles, Returns, Recovers DEF Recorded, Owns, Failures
<1>2. Typed'
  BY <1>1, Values DEF Typed
<1>3. OwnSteps'
  BY SMTT(30), <1>1, Values DEF OwnSteps
<1>4. Operations'
  BY SMTT(30), <1>1, Values DEF OwnSteps, Operations, PreferenceFirst
<1>5. AttemptKnown' /\ SeenAllowed'
  BY <1>1, Values DEF OwnSteps, Operations, AttemptKnown, SeenAllowed
<1>6. PreferenceFirst'
  BY SMTT(30), <1>1, Values, TurnInFront DEF OwnSteps, Operations, PreferenceFirst, InFront
<1>7. Generations'
  BY SMTT(30), <1>1, Values DEF OwnSteps, Operations, PreferenceFirst, Generations, Lasting
<1>8. ClosedWhenGone' /\ NothingSeenRefused'
  BY <1>1, Values DEF OwnSteps, ClosedWhenGone, NothingSeenRefused
<1> QED BY <1>2, <1>3, <1>4, <1>5, <1>6, <1>7, <1>8

\* Capture is admitted, clock changes that came meanwhile first.
LEMMA ActivateKeeps ==
  ASSUME CoordinatorInv, NEW t \in Tasks, Activate(t)
  PROVE  CoordinatorInv'
<1> USE DEF CoordinatorInv, At, Waiting, Result, Current, Free, Valid, Ending, For, Recovering,
            Preferring, Stopping, Alive, Moved, Tasks, Returned, Recovered, Same,
            Handled, Transitioned, Stepped
<1>1. /\ At(t, "admit") /\ ~ Waiting(t) /\ Turn(t, "coordinator")
      /\ behind' \in BOOLEAN /\ UNCHANGED <<epoch, env, core, refused>>
      /\ \/ ~ Current(t) /\ Returned(t, coordinator, "notApplied")
         \/ Current(t) /\ Recovered(t, coordinator, "admit")
         \/ Current(t) /\ Stepped(t, "begin") /\ UNCHANGED coordinator
         \/ Current(t) /\ Transitioned(t, coordinator, "stopped", "failed")
         \/ Current(t) /\ Handled(t)
  <2>1. behind' \in BOOLEAN /\ UNCHANGED <<epoch, env, core, refused>> /\ At(t, "admit")
        /\ ~ Waiting(t) /\ Turn(t, "coordinator")
    BY DEF Activate, Typed, Owns
  <2>2. CASE ~ Current(t)
    BY <2>1, <2>2, Values, Returns DEF Activate
  <2>3. CASE Current(t) /\ coordinator.clockChange /\ t # "main"
    BY <2>1, <2>3, Values, Recovers DEF Activate
  <2>4. CASE Current(t) /\ ~ (coordinator.clockChange /\ t # "main")
    <3>1. CASE task[t].result \in {"allowed", "userPaused"}
      BY SMTT(30), <2>1, <2>4, <3>1, Stepping DEF Activate, Steps, Failures
    <3>2. CASE Result(t, "inactive")
      <4>1. Transition(t, coordinator, "stopped", "failed")
        BY <2>4, <3>2 DEF Activate, Failures
      <4>2. "stopped" \in States /\ coordinator \in Coordinators
        BY Values DEF States
      <4>3. Transitioned(t, coordinator, "stopped", "failed")
        BY <4>1, <4>2, Transitions
      <4> QED BY <2>1, <2>4, <4>3
    <3>3. CASE task[t].result \in Failures
      <4>1. Handle(t)
        BY <2>4, <3>3 DEF Activate, Failures
      <4> QED BY <2>1, <2>4, <4>1, Handles
    <3> QED BY SMTT(30), <2>4, <3>1, <3>2, <3>3 DEF Activate
  <2> QED BY <2>2, <2>3, <2>4
<1>2. Typed'
  BY <1>1, Values DEF Typed
<1>3. OwnSteps'
  BY <1>1, Values DEF OwnSteps
<1>4. Operations'
  BY SMTT(30), <1>1, Values DEF OwnSteps, Operations, PreferenceFirst
<1>5. AttemptKnown' /\ SeenAllowed'
  BY <1>1, Values DEF OwnSteps, Operations, AttemptKnown, SeenAllowed
<1>6. PreferenceFirst'
  BY SMTT(30), <1>1, Values, TurnInFront DEF OwnSteps, Operations, PreferenceFirst, InFront
<1>7. Generations'
  BY SMTT(30), <1>1, Values DEF OwnSteps, Operations, PreferenceFirst, Generations, Lasting
<1>8. ClosedWhenGone' /\ NothingSeenRefused'
  BY <1>1, Values DEF OwnSteps, ClosedWhenGone, NothingSeenRefused
<1> QED BY <1>2, <1>3, <1>4, <1>5, <1>6, <1>7, <1>8

\* Capture runs with the generation that has just begun.
LEMMA ActivatedKeeps ==
  ASSUME CoordinatorInv, NEW t \in Tasks, Activated(t)
  PROVE  CoordinatorInv'
<1> USE DEF CoordinatorInv, At, Waiting, Result, Current, Free, Valid, Ending, For, Recovering,
            Preferring, Stopping, Alive, Moved, Tasks, Returned, Recovered, Same, Advanced
<1>1. /\ At(t, "begun") /\ ~ For(t, {"preference"}) /\ Turn(t, "coordinator")
      /\ UNCHANGED <<env, core, behind, refused>>
      /\ \/ /\ ~ Current(t) /\ Returned(t, coordinator, "notApplied")
            /\ Advanced(IF task[t].generation = epoch.current THEN epoch.current + 1
                                                             ELSE epoch.current)
         \/ /\ Current(t) /\ Recovered(t, coordinator, "admit")
            /\ Advanced(IF task[t].generation = epoch.current THEN epoch.current + 1
                                                             ELSE epoch.current)
         \/ /\ Current(t) /\ UNCHANGED epoch
            /\ \E c \in Coordinators :
                 /\ c.state = "running" /\ c.armed /\ c.generation = task[t].generation
                 /\ c.operation = coordinator.operation /\ Returned(t, c, "running")
  <2> DEFINE c == [coordinator EXCEPT !.state = "running", !.armed = TRUE,
                                      !.generation = task[t].generation]
  <2>1. /\ c \in Coordinators /\ c.state = "running" /\ c.armed
        /\ c.generation = task[t].generation /\ c.operation = coordinator.operation
    <3>1. coordinator \in Coordinators /\ task[t].generation \in Nat
      BY Values
    <3> QED BY <3>1 DEF Coordinators, States
  <2>2. CASE Current(t) /\ ~ coordinator.clockChange
    <3> HIDE DEF c
    <3>1. Return(t, c, "running") /\ UNCHANGED epoch
      BY <2>2 DEF Activated, c
    <3> QED BY <2>1, <2>2, <3>1, Returns DEF Activated, Owns
  <2>3. CASE ~ Current(t) \/ coordinator.clockChange
    BY <2>3, Values, Advances, Returns, Recovers DEF Activated, Owns
  <2> QED BY <2>2, <2>3, Values
<1>2. Typed'
  BY <1>1, Values DEF Typed
<1>3. OwnSteps'
  BY SMTT(30), <1>1, Values DEF OwnSteps
<1>4. Operations'
  BY SMTT(30), <1>1, Values DEF OwnSteps, Operations, PreferenceFirst
<1>5. AttemptKnown' /\ SeenAllowed'
  BY SMTT(30), <1>1, Values DEF OwnSteps, Operations, AttemptKnown, SeenAllowed
<1>6. PreferenceFirst'
  BY SMTT(30), <1>1, Values, TurnInFront DEF OwnSteps, Operations, PreferenceFirst, InFront
<1>7. Generations'
  BY SMTT(30), <1>1, Values DEF OwnSteps, Operations, PreferenceFirst, Generations, Lasting
<1>8. ClosedWhenGone' /\ NothingSeenRefused'
  BY <1>1, Values DEF OwnSteps, ClosedWhenGone, NothingSeenRefused
<1> QED BY <1>2, <1>3, <1>4, <1>5, <1>6, <1>7, <1>8

-----------------------------------------------------------------------------
(* The user                                                                  *)

\* The user asks for something once the app has started.
LEMMA WishKeeps ==
  ASSUME CoordinatorInv, NEW wish, Wish(wish)
  PROVE  CoordinatorInv'
<1> USE DEF CoordinatorInv, At, Waiting, Result, Current, Free, Valid, Ending, For, Recovering,
            Preferring, Stopping, Alive, Moved, Tasks, Started, Became
<1>1. /\ At("ui", "rest") /\ At("main", "rest")
      /\ UNCHANGED <<epoch, env, core, behind, refused>>
      /\ \/ Started("ui", "want") /\ UNCHANGED coordinator
         \/ /\ Started("ui", "health") /\ Turn("ui", "coordinator")
            /\ coordinator.state = "storageFailure" /\ coordinator.operation = "none"
            /\ Became("storageFailure", coordinator.generation, "ui")
  <2>1. CASE wish = "preference"
    BY <2>1, Starting DEF Wish, Steps
  <2>2. CASE wish = "retry"
    <3>1. Started("ui", "health")
      BY <2>2, Starting DEF Wish, Steps
    <3>2. /\ coordinator.state = "storageFailure" /\ coordinator.operation = "none"
          /\ coordinator' = [coordinator EXCEPT !.operation = "ui"]
      BY <2>2 DEF Wish
    <3>3. Became("storageFailure", coordinator.generation, "ui")
      BY <3>2, Values DEF Became, Coordinators
    <3> QED BY <2>2, <3>1, <3>2, <3>3 DEF Wish, Owns
  <2> QED BY <2>1, <2>2 DEF Wish
<1>2. Typed'
  BY <1>1, Values DEF Typed
<1>3. OwnSteps'
  BY <1>1, Values DEF OwnSteps
<1>4. Operations'
  BY <1>1, Values DEF OwnSteps, Operations, PreferenceFirst
<1>5. AttemptKnown' /\ SeenAllowed'
  BY <1>1, Values DEF OwnSteps, Operations, AttemptKnown, SeenAllowed
<1>6. PreferenceFirst'
  BY <1>1, Values, TurnInFront DEF OwnSteps, Operations, PreferenceFirst, InFront
<1>7. Generations'
  BY <1>1, Values DEF OwnSteps, Operations, PreferenceFirst, Generations, Lasting
<1>8. ClosedWhenGone' /\ NothingSeenRefused'
  BY <1>1, Values DEF OwnSteps, ClosedWhenGone, NothingSeenRefused
<1> QED BY <1>2, <1>3, <1>4, <1>5, <1>6, <1>7, <1>8

\* A preference waits for the operation while capture runs.
LEMMA SetPreferenceKeeps ==
  ASSUME CoordinatorInv, SetPreference
  PROVE  CoordinatorInv'
<1> USE DEF CoordinatorInv, At, Waiting, Result, Current, Free, Valid, Ending, For, Recovering,
            Preferring, Stopping, Alive, Moved, Tasks, Returned, Became
<1>1. /\ At("ui", "want") /\ Turn("ui", "coordinator")
      /\ UNCHANGED <<epoch, env, core, behind, refused>>
      /\ \/ coordinator.state # "running" /\ Returned("ui", coordinator, "notApplied")
         \/ /\ coordinator.state = "running" /\ coordinator.operation # "none"
            /\ Moved("ui") /\ task'["ui"] = task["ui"] /\ UNCHANGED coordinator
         \/ /\ coordinator.state = "running" /\ coordinator.operation = "none"
            /\ Moved("ui") /\ task'["ui"].at = "invalidate" /\ task'["ui"].then = "preference"
            /\ task'["ui"].old = coordinator.generation
            /\ task'["ui"].generation = task["ui"].generation
            /\ Became("running", coordinator.generation, "ui")
  <2>1. CASE coordinator.state # "running"
    BY <2>1, Values, Returns DEF SetPreference, Owns
  <2>2. CASE coordinator.state = "running" /\ ~ Free
    BY <2>2, Values, Moves DEF SetPreference, Owns, Typed
  <2>3. CASE coordinator.state = "running" /\ Free
    <3> DEFINE r == [Step("ui", "invalidate") EXCEPT !.old = coordinator.generation,
                                                     !.then = "preference"]
    <3>1. /\ r \in TaskState /\ r.at = "invalidate" /\ r.then = "preference"
          /\ r.old = coordinator.generation /\ r.generation = task["ui"].generation
      <4>1. /\ coordinator.generation \in Nat
            /\ StepOf("ui", "invalidate", Step("ui", "invalidate"))
        BY StepFields, Values DEF Steps
      <4> QED BY <4>1 DEF StepOf, TaskState
    <3> HIDE DEF r
    <3>2. Becomes("ui", r) /\ coordinator' = [coordinator EXCEPT !.operation = "ui"]
      BY <2>3 DEF SetPreference, r
    <3>3. Became("running", coordinator.generation, "ui")
      BY <2>3, <3>2, Values DEF Became, Coordinators
    <3> QED BY <2>3, <3>1, <3>2, <3>3, Moves DEF SetPreference, Owns, Typed
  <2> QED BY <2>1, <2>2, <2>3
<1>2. Typed'
  BY <1>1, Values DEF Typed
<1>3. OwnSteps'
  BY <1>1, Values DEF OwnSteps
<1>4. Operations'
  BY <1>1, Values DEF OwnSteps, Operations, PreferenceFirst
<1>5. AttemptKnown' /\ SeenAllowed'
  BY <1>1, Values DEF OwnSteps, Operations, AttemptKnown, SeenAllowed
<1>6. PreferenceFirst'
  BY <1>1, Values, TurnInFront DEF OwnSteps, Operations, PreferenceFirst, InFront
<1>7. Generations'
  BY SMTT(30), <1>1, Values DEF OwnSteps, Operations, PreferenceFirst, Generations, Lasting
<1>8. ClosedWhenGone' /\ NothingSeenRefused'
  BY <1>1, Values DEF OwnSteps, ClosedWhenGone, NothingSeenRefused
<1> QED BY <1>2, <1>3, <1>4, <1>5, <1>6, <1>7, <1>8

\* The engine is told after the attempt has been waited for.
LEMMA PreferenceInvalidatedKeeps ==
  ASSUME CoordinatorInv, PreferenceInvalidated
  PROVE  CoordinatorInv'
<1> USE DEF CoordinatorInv, At, Waiting, Result, Current, Free, Valid, Ending, For, Recovering,
            Preferring, Stopping, Alive, Moved, Tasks, Drained, Stepped, Became
<1>1. /\ At("ui", "drain") /\ For("ui", {"preference"}) /\ Drained("ui")
      /\ Turn("ui", "coordinator") /\ UNCHANGED <<epoch, env, core, behind, refused>>
      /\ \/ /\ Current("ui") /\ Stepped("ui", "set")
            /\ Became(coordinator.state, 0, coordinator.operation)
         \/ ~ Current("ui") /\ Stepped("ui", "want") /\ UNCHANGED coordinator
  <2>1. Sheltered \in Coordinators /\ Sheltered.state = coordinator.state
        /\ Sheltered.armed = coordinator.armed /\ Sheltered.generation = 0
        /\ Sheltered.operation = coordinator.operation
    BY Values DEF Sheltered, Coordinators
  <2> QED BY SMTT(30), <2>1, Values, Stepping DEF PreferenceInvalidated, Preempted, Owns, Steps
<1>2. Typed'
  BY <1>1, Values DEF Typed
<1>3. OwnSteps'
  BY <1>1, Values DEF OwnSteps
<1>4. Operations'
  BY <1>1, Values DEF OwnSteps, Operations, PreferenceFirst
<1>5. AttemptKnown' /\ SeenAllowed'
  BY <1>1, Values DEF OwnSteps, Operations, AttemptKnown, SeenAllowed
<1>6. PreferenceFirst'
  BY <1>1, Values, TurnInFront DEF OwnSteps, Operations, PreferenceFirst, InFront
<1>7. Generations'
  BY <1>1, Values DEF OwnSteps, Operations, PreferenceFirst, Generations, Lasting
<1>8. ClosedWhenGone' /\ NothingSeenRefused'
  BY <1>1, Values DEF OwnSteps, ClosedWhenGone, NothingSeenRefused
<1> QED BY <1>2, <1>3, <1>4, <1>5, <1>6, <1>7, <1>8

\* No attempt is alive when the engine is told of the preference.
LEMMA PreferKeeps ==
  ASSUME CoordinatorInv, Prefer
  PROVE  CoordinatorInv'
<1> USE DEF CoordinatorInv, At, Waiting, Result, Current, Free, Valid, Ending, For, Recovering,
            Preferring, Stopping, Alive, Moved, Tasks, Answered
<1>1. /\ At("ui", "set") /\ Waiting("ui") /\ Turn("ui", "engine")
      /\ UNCHANGED <<coordinator, epoch, env, behind, refused>>
      /\ core' \in [enabled : BOOLEAN, open : BOOLEAN, over : BOOLEAN, room : BOOLEAN]
      /\ core'.open = core.open
      /\ \E r \in Outcomes \ {"none"} : Answered("ui", r)
  <2>1. /\ task["ui"] \in TaskState
        /\ core \in [enabled : BOOLEAN, open : BOOLEAN, over : BOOLEAN, room : BOOLEAN]
    BY DEF Typed
  <2>2. core' \in {core, [core EXCEPT !.enabled = task["ui"].wish]}
    BY DEF Prefer
  <2>3. /\ core' \in [enabled : BOOLEAN, open : BOOLEAN, over : BOOLEAN, room : BOOLEAN]
        /\ core'.open = core.open
    BY <2>1, <2>2 DEF TaskState
  <2>4. PICK r \in Outcomes \ {"none"} : Answer("ui", r)
    BY DEF Prefer, Failing, Outcomes, Failures
  <2>5. Answered("ui", r)
    BY <2>4, Answers
  <2> QED BY <2>3, <2>5 DEF Prefer
<1>2. Typed'
  BY <1>1, Values DEF Typed
<1>3. OwnSteps'
  BY <1>1, Values DEF OwnSteps
<1>4. Operations'
  BY <1>1, Values DEF OwnSteps, Operations, PreferenceFirst
<1>5. AttemptKnown' /\ SeenAllowed'
  BY <1>1, Values DEF OwnSteps, Operations, AttemptKnown, SeenAllowed
<1>6. PreferenceFirst'
  BY <1>1, Values, TurnInFront DEF OwnSteps, Operations, PreferenceFirst, InFront
<1>7. Generations'
  BY <1>1, Values DEF OwnSteps, Operations, PreferenceFirst, Generations, Lasting
<1>8. ClosedWhenGone' /\ NothingSeenRefused'
  BY <1>1, Values DEF OwnSteps, ClosedWhenGone, NothingSeenRefused
<1> QED BY <1>2, <1>3, <1>4, <1>5, <1>6, <1>7, <1>8

\* Capture goes on in a new generation.
LEMMA PreferenceSetKeeps ==
  ASSUME CoordinatorInv, PreferenceSet
  PROVE  CoordinatorInv'
<1> USE DEF CoordinatorInv, At, Waiting, Result, Current, Free, Valid, Ending, For, Recovering,
            Preferring, Stopping, Alive, Moved, Tasks, Handled, Transitioned, Stepped, Returned
<1>1. /\ At("ui", "set") /\ ~ Waiting("ui") /\ Turn("ui", "coordinator")
      /\ UNCHANGED <<epoch, env, core, behind, refused>>
      /\ \/ Handled("ui")
         \/ ~ Current("ui") /\ Stepped("ui", "want") /\ UNCHANGED coordinator
         \/ /\ Current("ui") /\ coordinator.state = "running"
            /\ Stepped("ui", "begin") /\ UNCHANGED coordinator
         \/ /\ Current("ui") /\ coordinator.state # "running"
            /\ Returned("ui", coordinator, "persisted")
  <2>1. CASE task["ui"].result \in Failures /\ Handle("ui")
    BY SMTT(30), <2>1, Handles DEF PreferenceSet, Owns, Failures
  <2>2. CASE Result("ui", "done")
    BY SMTT(30), <2>2, Values, Stepping, Returns
      DEF PreferenceSet, Preempted, Owns, Steps, Failures
  <2> QED BY <2>1, <2>2 DEF PreferenceSet
<1>2. Typed'
  BY <1>1, Values DEF Typed
<1>3. OwnSteps'
  BY <1>1, Values DEF OwnSteps
<1>4. Operations'
  BY SMTT(30), <1>1, Values DEF OwnSteps, Operations, PreferenceFirst
<1>5. AttemptKnown' /\ SeenAllowed'
  BY <1>1, Values DEF OwnSteps, Operations, AttemptKnown, SeenAllowed
<1>6. PreferenceFirst'
  BY SMTT(30), <1>1, Values, TurnInFront DEF OwnSteps, Operations, PreferenceFirst, InFront
<1>7. Generations'
  BY SMTT(30), <1>1, Values DEF OwnSteps, Operations, PreferenceFirst, Generations, Lasting
<1>8. ClosedWhenGone' /\ NothingSeenRefused'
  BY <1>1, Values DEF OwnSteps, ClosedWhenGone, NothingSeenRefused
<1> QED BY <1>2, <1>3, <1>4, <1>5, <1>6, <1>7, <1>8

\* The new generation is used, or a clock change is recorded first.
LEMMA PreferenceAppliedKeeps ==
  ASSUME CoordinatorInv, PreferenceApplied
  PROVE  CoordinatorInv'
<1> USE DEF CoordinatorInv, At, Waiting, Result, Current, Free, Valid, Ending, For, Recovering,
            Preferring, Stopping, Alive, Moved, Tasks, Transitioned, Stepped, Returned, Became
<1>1. /\ At("ui", "begun") /\ For("ui", {"preference"}) /\ Turn("ui", "coordinator")
      /\ UNCHANGED <<epoch, env, core, behind, refused>>
      /\ \/ /\ ~ Current("ui") /\ Stepped("ui", "want")
            /\ Became(coordinator.state, task["ui"].generation, coordinator.operation)
         \/ /\ Current("ui")
            /\ \E c \in Coordinators :
                 /\ c.state = coordinator.state /\ c.armed = coordinator.armed
                 /\ c.generation = task["ui"].generation /\ c.operation = coordinator.operation
                 /\ \/ Returned("ui", c, "persisted")
                    \/ Transitioned("ui", c, "suspended", "recover")
  <2> DEFINE c == [coordinator EXCEPT !.generation = task["ui"].generation]
  <2>1. /\ c \in Coordinators /\ c.state = coordinator.state /\ c.armed = coordinator.armed
        /\ c.generation = task["ui"].generation /\ c.operation = coordinator.operation
    <3>1. coordinator \in Coordinators /\ task["ui"].generation \in Nat
      BY Values
    <3> QED BY <3>1 DEF Coordinators
  <2>2. "suspended" \in States
    BY DEF States
  <2>3. \/ ~ Current("ui") /\ coordinator' = c /\ Becomes("ui", Step("ui", "want"))
        \/ Current("ui") /\ Return("ui", c, "persisted")
        \/ Current("ui") /\ Transition("ui", c, "suspended", "recover")
    BY SMTT(30) DEF PreferenceApplied
  <2> HIDE DEF c
  <2>4. CASE ~ Current("ui")
    BY <2>1, <2>3, <2>4, Stepping DEF PreferenceApplied, Owns, Steps
  <2>5. CASE Current("ui") /\ Return("ui", c, "persisted")
    BY <2>1, <2>5, Returns DEF PreferenceApplied, Owns
  <2>6. CASE Current("ui") /\ Transition("ui", c, "suspended", "recover")
    <3>1. Transitioned("ui", c, "suspended", "recover")
      BY <2>1, <2>2, <2>6, Transitions
    <3> QED BY <2>1, <2>6, <3>1 DEF PreferenceApplied, Owns
  <2> QED BY <2>3, <2>4, <2>5, <2>6
<1>2. Typed'
  BY <1>1, Values DEF Typed
<1>3. OwnSteps'
  BY <1>1, Values DEF OwnSteps
<1>4. Operations'
  BY <1>1, Values DEF OwnSteps, Operations, PreferenceFirst
<1>5. AttemptKnown' /\ SeenAllowed'
  BY <1>1, Values DEF OwnSteps, Operations, AttemptKnown, SeenAllowed
<1>6. PreferenceFirst'
  BY SMTT(30), <1>1, Values, TurnInFront DEF OwnSteps, Operations, PreferenceFirst, InFront
<1>7. Generations'
  BY SMTT(30), <1>1, Values DEF OwnSteps, Operations, PreferenceFirst, Generations, Lasting
<1>8. ClosedWhenGone' /\ NothingSeenRefused'
  BY <1>1, Values DEF OwnSteps, ClosedWhenGone, NothingSeenRefused
<1> QED BY <1>2, <1>3, <1>4, <1>5, <1>6, <1>7, <1>8

\* The pipeline learns of the preference.
LEMMA PauseKeeps ==
  ASSUME CoordinatorInv, Pause
  PROVE  CoordinatorInv'
<1> USE DEF CoordinatorInv, At, Waiting, Result, Current, Free, Valid, Ending, For, Recovering,
            Preferring, Stopping, Alive, Moved, Tasks, Rested
<1>1. /\ At("ui", "pause") /\ Rested("ui")
      /\ UNCHANGED <<coordinator, epoch, core, behind, refused>>
      /\ env' \in [paused : BOOLEAN, locked : BOOLEAN, asleep : BOOLEAN]
  <2>1. /\ task["ui"] \in TaskState
        /\ env \in [paused : BOOLEAN, locked : BOOLEAN, asleep : BOOLEAN]
    BY DEF Typed
  <2> QED BY <2>1, Rests DEF Pause, TaskState
<1>2. Typed'
  BY <1>1, Values DEF Typed
<1>3. OwnSteps'
  BY <1>1, Values DEF OwnSteps
<1>4. Operations'
  BY <1>1, Values DEF OwnSteps, Operations, PreferenceFirst
<1>5. AttemptKnown' /\ SeenAllowed'
  BY <1>1, Values DEF OwnSteps, Operations, AttemptKnown, SeenAllowed
<1>6. PreferenceFirst'
  BY <1>1, Values, TurnInFront DEF OwnSteps, Operations, PreferenceFirst, InFront
<1>7. Generations'
  BY <1>1, Values DEF OwnSteps, Operations, PreferenceFirst, Generations, Lasting
<1>8. ClosedWhenGone' /\ NothingSeenRefused'
  BY <1>1, Values DEF OwnSteps, ClosedWhenGone, NothingSeenRefused
<1> QED BY <1>2, <1>3, <1>4, <1>5, <1>6, <1>7, <1>8

-----------------------------------------------------------------------------
(* Notifications                                                             *)

\* A notification arrives.
LEMMA NoticeKeeps ==
  ASSUME CoordinatorInv, NEW notice, Notice(notice)
  PROVE  CoordinatorInv'
<1> USE DEF CoordinatorInv, At, Waiting, Result, Current, Free, Valid, Ending, For, Recovering,
            Preferring, Stopping, Alive, Moved, Tasks, Started
<1>1. /\ At("notices", "rest") /\ At("main", "rest")
      /\ UNCHANGED <<coordinator, epoch, core, behind, refused>>
      /\ env' \in [paused : BOOLEAN, locked : BOOLEAN, asleep : BOOLEAN]
      /\ \E at \in {"wake", "sleep", "boundary", "clock"} : Started("notices", at)
  <2>1. PICK at \in {"wake", "sleep", "boundary", "clock"} :
          Becomes("notices", [Rest EXCEPT !.at = at])
    BY DEF Notice
  <2>2. Started("notices", at)
    BY <2>1, Starting DEF Steps
  <2> QED BY <2>1, <2>2 DEF Notice, Typed
<1>2. Typed'
  BY <1>1, Values DEF Typed
<1>3. OwnSteps'
  BY <1>1, Values DEF OwnSteps
<1>4. Operations'
  BY <1>1, Values DEF OwnSteps, Operations, PreferenceFirst
<1>5. AttemptKnown' /\ SeenAllowed'
  BY <1>1, Values DEF OwnSteps, Operations, AttemptKnown, SeenAllowed
<1>6. PreferenceFirst'
  BY <1>1, Values, TurnInFront DEF OwnSteps, Operations, PreferenceFirst, InFront
<1>7. Generations'
  BY <1>1, Values DEF OwnSteps, Operations, PreferenceFirst, Generations, Lasting
<1>8. ClosedWhenGone' /\ NothingSeenRefused'
  BY <1>1, Values DEF OwnSteps, ClosedWhenGone, NothingSeenRefused
<1> QED BY <1>2, <1>3, <1>4, <1>5, <1>6, <1>7, <1>8

\* A suspension takes the operation.
LEMMA SuspendKeeps ==
  ASSUME CoordinatorInv, Suspend
  PROVE  CoordinatorInv'
<1> USE DEF CoordinatorInv, At, Waiting, Result, Current, Free, Valid, Ending, For, Recovering,
            Preferring, Stopping, Alive, Moved, Tasks, Transitioned, Rested
<1>1. /\ At("notices", "sleep") /\ Turn("notices", "coordinator")
      /\ UNCHANGED <<epoch, env, core, behind, refused>>
      /\ \/ /\ coordinator.state = "running"
            /\ \E c \in Coordinators :
                 /\ c.generation = coordinator.generation /\ c.operation = "notices"
                 /\ Transitioned("notices", c, "suspended", "suspended")
         \/ Rested("notices") /\ UNCHANGED coordinator
  <2> DEFINE c == [coordinator EXCEPT !.operation = "notices"]
  <2>1. /\ c \in Coordinators /\ c.generation = coordinator.generation
        /\ c.operation = "notices" /\ "suspended" \in States
    BY Values DEF Coordinators, States
  <2>2. CASE coordinator.state = "running"
    <3>1. Transition("notices", c, "suspended", "suspended")
      BY <2>2 DEF Suspend
    <3> HIDE DEF c
    <3>2. Transitioned("notices", c, "suspended", "suspended")
      BY <2>1, <3>1, Transitions
    <3> QED BY <2>1, <2>2, <3>2 DEF Suspend, Owns
  <2>3. CASE coordinator.state # "running"
    BY <2>3, Rests DEF Suspend, Owns
  <2> QED BY <2>2, <2>3
<1>2. Typed'
  BY <1>1, Values DEF Typed
<1>3. OwnSteps'
  BY <1>1, Values DEF OwnSteps
<1>4. Operations'
  BY <1>1, Values DEF OwnSteps, Operations, PreferenceFirst
<1>5. AttemptKnown' /\ SeenAllowed'
  BY <1>1, Values DEF OwnSteps, Operations, AttemptKnown, SeenAllowed
<1>6. PreferenceFirst'
  BY <1>1, Values, TurnInFront DEF OwnSteps, Operations, PreferenceFirst, InFront
<1>7. Generations'
  BY SMTT(30), <1>1, Values DEF OwnSteps, Operations, PreferenceFirst, Generations, Lasting
<1>8. ClosedWhenGone' /\ NothingSeenRefused'
  BY <1>1, Values DEF OwnSteps, ClosedWhenGone, NothingSeenRefused
<1> QED BY <1>2, <1>3, <1>4, <1>5, <1>6, <1>7, <1>8

\* A wake takes the operation only when it is free.
LEMMA ResumeKeeps ==
  ASSUME CoordinatorInv, Resume
  PROVE  CoordinatorInv'
<1> USE DEF CoordinatorInv, At, Waiting, Result, Current, Free, Valid, Ending, For, Recovering,
            Preferring, Stopping, Alive, Moved, Tasks, Became, Rested
<1>1. /\ At("notices", "wake") /\ Turn("notices", "coordinator")
      /\ UNCHANGED <<epoch, env, core, behind, refused>>
      /\ \/ /\ coordinator.state = "suspended" /\ coordinator.operation = "none"
            /\ Became("suspended", coordinator.generation, "notices")
            /\ Moved("notices") /\ task'["notices"].at \in {"correct", "gap"}
            /\ task'["notices"].then = "gap" /\ task'["notices"].result = "none"
            /\ task'["notices"].generation = task["notices"].generation
            /\ task'["notices"].old = task["notices"].old
         \/ Rested("notices") /\ UNCHANGED coordinator
  <2>1. CASE coordinator.state = "suspended" /\ Free
    <3> DEFINE c == [coordinator EXCEPT !.operation = "notices"]
               at == IF c.clockChange THEN "correct" ELSE "gap"
               r == [Step("notices", at) EXCEPT !.then = "gap"]
    <3>1. coordinator' = [c EXCEPT !.clockChange = FALSE] /\ Becomes("notices", r)
      BY <2>1 DEF Resume
    <3>2. Became("suspended", coordinator.generation, "notices")
      BY <2>1, <3>1, Values DEF Became, Coordinators
    <3>3. /\ at \in {"correct", "gap"}
          /\ StepOf("notices", at, Step("notices", at))
      BY StepFields, Values DEF Steps
    <3>4. /\ r \in TaskState /\ r.at \in {"correct", "gap"} /\ r.then = "gap"
          /\ r.result = "none" /\ r.generation = task["notices"].generation
          /\ r.old = task["notices"].old
      BY <3>3 DEF StepOf, TaskState
    <3> HIDE DEF r
    <3> QED BY <2>1, <3>1, <3>2, <3>4, Moves DEF Resume, Owns, Typed
  <2>2. CASE ~ (coordinator.state = "suspended" /\ Free)
    BY <2>2, Rests DEF Resume, Owns
  <2> QED BY <2>1, <2>2
<1>2. Typed'
  BY <1>1, Values DEF Typed
<1>3. OwnSteps'
  BY <1>1, Values DEF OwnSteps
<1>4. Operations'
  BY <1>1, Values DEF OwnSteps, Operations, PreferenceFirst
<1>5. AttemptKnown' /\ SeenAllowed'
  BY <1>1, Values DEF OwnSteps, Operations, AttemptKnown, SeenAllowed
<1>6. PreferenceFirst'
  BY <1>1, Values, TurnInFront DEF OwnSteps, Operations, PreferenceFirst, InFront
<1>7. Generations'
  BY <1>1, Values DEF OwnSteps, Operations, PreferenceFirst, Generations, Lasting
<1>8. ClosedWhenGone' /\ NothingSeenRefused'
  BY <1>1, Values DEF OwnSteps, ClosedWhenGone, NothingSeenRefused
<1> QED BY <1>2, <1>3, <1>4, <1>5, <1>6, <1>7, <1>8

\* A clock change that the system reports.
LEMMA WallClockChangedKeeps ==
  ASSUME CoordinatorInv, WallClockChanged
  PROVE  CoordinatorInv'
<1> USE DEF CoordinatorInv, At, Waiting, Result, Current, Free, Valid, Ending, For, Recovering,
            Preferring, Stopping, Alive, Moved, Tasks, ClockNoted, Transitioned, Rested, Same
<1>1. /\ At("notices", "clock") /\ Turn("notices", "coordinator") /\ ClockNoted("notices")
      /\ UNCHANGED <<epoch, env, core, behind, refused>>
  BY ClockChanges DEF WallClockChanged, Owns
<1>2. Typed'
  BY <1>1, Values DEF Typed
<1>3. OwnSteps'
  BY <1>1, Values DEF OwnSteps
<1>4. Operations'
  BY <1>1, Values DEF OwnSteps, Operations, PreferenceFirst
<1>5. AttemptKnown' /\ SeenAllowed'
  BY <1>1, Values DEF OwnSteps, Operations, AttemptKnown, SeenAllowed
<1>6. PreferenceFirst'
  BY <1>1, Values, TurnInFront DEF OwnSteps, Operations, PreferenceFirst, InFront
<1>7. Generations'
  BY SMTT(30), <1>1, Values DEF OwnSteps, Operations, PreferenceFirst, Generations, Lasting
<1>8. ClosedWhenGone' /\ NothingSeenRefused'
  BY <1>1, Values DEF OwnSteps, ClosedWhenGone, NothingSeenRefused
<1> QED BY <1>2, <1>3, <1>4, <1>5, <1>6, <1>7, <1>8

\* A lock invalidates the generation.
LEMMA PrivacyBoundaryChangedKeeps ==
  ASSUME CoordinatorInv, PrivacyBoundaryChanged
  PROVE  CoordinatorInv'
<1> USE DEF CoordinatorInv, At, Waiting, Result, Current, Free, Valid, Ending, For, Recovering,
            Preferring, Stopping, Alive, Moved, Tasks, Became, Rested
<1>1. /\ At("notices", "boundary") /\ Turn("notices", "coordinator")
      /\ UNCHANGED <<epoch, env, core, behind, refused>>
      /\ \/ /\ coordinator.state = "running" /\ coordinator.operation = "none"
            /\ Became("running", coordinator.generation, "notices")
            /\ Moved("notices") /\ task'["notices"].at = "invalidate"
            /\ task'["notices"].then = "boundary"
            /\ task'["notices"].old = coordinator.generation
            /\ task'["notices"].generation = task["notices"].generation
         \/ Rested("notices") /\ UNCHANGED coordinator
  <2>1. CASE coordinator.state = "running" /\ Free
    <3> DEFINE r == [Step("notices", "invalidate") EXCEPT !.old = coordinator.generation,
                                                          !.then = "boundary"]
    <3>1. /\ coordinator.generation \in Nat
          /\ StepOf("notices", "invalidate", Step("notices", "invalidate"))
      BY StepFields, Values DEF Steps
    <3>2. /\ r \in TaskState /\ r.at = "invalidate" /\ r.then = "boundary"
          /\ r.old = coordinator.generation /\ r.generation = task["notices"].generation
      BY <3>1 DEF StepOf, TaskState
    <3> HIDE DEF r
    <3>3. Becomes("notices", r) /\ coordinator' = [coordinator EXCEPT !.operation = "notices"]
      BY <2>1 DEF PrivacyBoundaryChanged, r
    <3>4. Became("running", coordinator.generation, "notices")
      BY <2>1, <3>3, Values DEF Became, Coordinators
    <3> QED BY <2>1, <3>2, <3>3, <3>4, Moves DEF PrivacyBoundaryChanged, Owns, Typed
  <2>2. CASE ~ (coordinator.state = "running" /\ Free)
    BY <2>2, Rests DEF PrivacyBoundaryChanged, Owns
  <2> QED BY <2>1, <2>2
<1>2. Typed'
  BY <1>1, Values DEF Typed
<1>3. OwnSteps'
  BY <1>1, Values DEF OwnSteps
<1>4. Operations'
  BY <1>1, Values DEF OwnSteps, Operations, PreferenceFirst
<1>5. AttemptKnown' /\ SeenAllowed'
  BY <1>1, Values DEF OwnSteps, Operations, AttemptKnown, SeenAllowed
<1>6. PreferenceFirst'
  BY <1>1, Values, TurnInFront DEF OwnSteps, Operations, PreferenceFirst, InFront
<1>7. Generations'
  BY <1>1, Values DEF OwnSteps, Operations, PreferenceFirst, Generations, Lasting
<1>8. ClosedWhenGone' /\ NothingSeenRefused'
  BY <1>1, Values DEF OwnSteps, ClosedWhenGone, NothingSeenRefused
<1> QED BY <1>2, <1>3, <1>4, <1>5, <1>6, <1>7, <1>8

\* The next generation begins unless capture has stopped meanwhile.
LEMMA BoundaryInvalidatedKeeps ==
  ASSUME CoordinatorInv, BoundaryInvalidated
  PROVE  CoordinatorInv'
<1> USE DEF CoordinatorInv, At, Waiting, Result, Current, Free, Valid, Ending, For, Recovering,
            Preferring, Stopping, Alive, Moved, Tasks, Drained, Stepped, Returned
<1>1. /\ At("notices", "drain") /\ For("notices", {"boundary"}) /\ Drained("notices")
      /\ Turn("notices", "coordinator") /\ UNCHANGED <<epoch, env, core, behind, refused>>
      /\ \/ /\ Current("notices") /\ coordinator.state = "running"
            /\ coordinator.generation = task["notices"].old
            /\ Stepped("notices", "bound") /\ UNCHANGED coordinator
         \/ /\ ~ (/\ Current("notices") /\ coordinator.state = "running"
                  /\ coordinator.generation = task["notices"].old)
            /\ Returned("notices", coordinator, "none")
  BY SMTT(30), Values, Stepping, Returns DEF BoundaryInvalidated, Owns, Steps
<1>2. Typed'
  BY <1>1, Values DEF Typed
<1>3. OwnSteps'
  BY <1>1, Values DEF OwnSteps
<1>4. Operations'
  BY <1>1, Values DEF OwnSteps, Operations, PreferenceFirst
<1>5. AttemptKnown' /\ SeenAllowed'
  BY <1>1, Values DEF OwnSteps, Operations, AttemptKnown, SeenAllowed
<1>6. PreferenceFirst'
  BY SMTT(30), <1>1, Values, TurnInFront DEF OwnSteps, Operations, PreferenceFirst, InFront
<1>7. Generations'
  BY <1>1, Values DEF OwnSteps, Operations, PreferenceFirst, Generations, Lasting
<1>8. ClosedWhenGone' /\ NothingSeenRefused'
  BY <1>1, Values DEF OwnSteps, ClosedWhenGone, NothingSeenRefused
<1> QED BY <1>2, <1>3, <1>4, <1>5, <1>6, <1>7, <1>8

\* The coordinator takes over the generation in the step that begins it.
LEMMA BoundaryCrossedKeeps ==
  ASSUME CoordinatorInv, BoundaryCrossed
  PROVE  CoordinatorInv'
<1> USE DEF CoordinatorInv, At, Waiting, Result, Current, Free, Valid, Ending, For, Recovering,
            Preferring, Stopping, Alive, Moved, Tasks, Advanced, Returned
<1>1. /\ At("notices", "bound") /\ Turn("notices", "epoch") /\ Advanced(epoch.current + 1)
      /\ UNCHANGED <<env, core, behind, refused>>
      /\ \E c \in Coordinators :
           /\ c.state = coordinator.state /\ c.armed = coordinator.armed
           /\ c.generation = epoch.current + 1 /\ c.operation = coordinator.operation
           /\ Returned("notices", c, "none")
  <2> DEFINE c == [coordinator EXCEPT !.generation = epoch.current + 1]
  <2>1. coordinator \in Coordinators /\ epoch.current + 1 \in Nat
    BY Values
  <2>2. /\ c \in Coordinators /\ c.state = coordinator.state /\ c.armed = coordinator.armed
        /\ c.generation = epoch.current + 1 /\ c.operation = coordinator.operation
    BY <2>1 DEF Coordinators
  <2>3. Return("notices", c, "none")
    BY DEF BoundaryCrossed
  <2> HIDE DEF c
  <2> QED BY <2>2, <2>3, Returns, Advances DEF BoundaryCrossed
<1>2. Typed'
  BY <1>1, Values DEF Typed
<1>3. OwnSteps'
  BY <1>1, Values DEF OwnSteps
<1>4. Operations'
  BY <1>1, Values DEF OwnSteps, Operations, PreferenceFirst
<1>5. AttemptKnown' /\ SeenAllowed'
  BY <1>1, Values DEF OwnSteps, Operations, AttemptKnown, SeenAllowed
<1>6. PreferenceFirst'
  BY <1>1, Values, TurnInFront DEF OwnSteps, Operations, PreferenceFirst, InFront
<1>7. Generations'
  BY <1>1, Values DEF OwnSteps, Operations, PreferenceFirst, Generations, Lasting
<1>8. ClosedWhenGone' /\ NothingSeenRefused'
  BY <1>1, Values DEF OwnSteps, ClosedWhenGone, NothingSeenRefused
<1> QED BY <1>2, <1>3, <1>4, <1>5, <1>6, <1>7, <1>8

-----------------------------------------------------------------------------
(* The capture loop and the attempt pipeline                                 *)

\* An attempt begins in the coordinator's generation.
LEMMA DueKeeps ==
  ASSUME CoordinatorInv, Due
  PROVE  CoordinatorInv'
<1> USE DEF CoordinatorInv, At, Waiting, Result, Current, Free, Valid, Ending, For, Recovering,
            Preferring, Stopping, Alive, Moved, Tasks
<1>1. /\ At("attempt", "rest")
      /\ coordinator.state = "running" /\ coordinator.operation = "none"
      /\ coordinator.generation # 0 /\ Turn("attempt", "coordinator")
      /\ UNCHANGED <<coordinator, epoch, env, core, behind, refused>>
      /\ Moved("attempt") /\ task'["attempt"].at = "admission"
      /\ task'["attempt"].result = "none" /\ task'["attempt"].old = 0
      /\ task'["attempt"].generation = coordinator.generation
  <2> DEFINE r == [Rest EXCEPT !.at = "admission", !.generation = coordinator.generation]
  <2>1. Rest \in TaskState /\ Rest.result = "none" /\ Rest.old = 0
        /\ coordinator.generation \in Nat
    BY RestState, Values DEF Rest
  <2>2. /\ r \in TaskState /\ r.at = "admission" /\ r.result = "none" /\ r.old = 0
        /\ r.generation = coordinator.generation
    BY <2>1 DEF TaskState, Steps
  <2> HIDE DEF r
  <2>3. Becomes("attempt", r)
    BY DEF Due, r
  <2> QED BY <2>2, <2>3, Moves DEF Due, Owns, Typed
<1>2. Typed'
  BY <1>1, Values DEF Typed
<1>3. OwnSteps'
  BY <1>1, Values DEF OwnSteps
<1>4. Operations'
  BY <1>1, Values DEF OwnSteps, Operations, PreferenceFirst
<1>5. AttemptKnown' /\ SeenAllowed'
  BY <1>1, Values DEF OwnSteps, Operations, AttemptKnown, SeenAllowed, PreferenceFirst
<1>6. PreferenceFirst'
  BY <1>1, Values, TurnInFront DEF OwnSteps, Operations, PreferenceFirst, InFront
<1>7. Generations'
  BY <1>1, Values DEF OwnSteps, Operations, PreferenceFirst, Generations, Lasting
<1>8. ClosedWhenGone' /\ NothingSeenRefused'
  BY <1>1, Values DEF OwnSteps, ClosedWhenGone, NothingSeenRefused
<1> QED BY <1>2, <1>3, <1>4, <1>5, <1>6, <1>7, <1>8

\* What the engine answered counts while the generation is valid.
LEMMA AdmittedKeeps ==
  ASSUME CoordinatorInv, Admitted
  PROVE  CoordinatorInv'
<1> USE DEF CoordinatorInv, At, Waiting, Result, Current, Free, Valid, Ending, For, Recovering,
            Preferring, Stopping, Alive, Moved, Tasks, Rested, Stepped, Transitioned, Handled
<1>1. /\ At("attempt", "admission") /\ ~ Waiting("attempt") /\ Turn("attempt", "coordinator")
      /\ UNCHANGED <<epoch, env, core, behind, refused>>
      /\ \/ ~ Valid("attempt") /\ Rested("attempt") /\ UNCHANGED coordinator
         \/ /\ Valid("attempt") /\ Result("attempt", "allowed")
            /\ Stepped("attempt", "look") /\ UNCHANGED coordinator
         \/ /\ Valid("attempt") /\ UNCHANGED coordinator
            /\ Moved("attempt") /\ task'["attempt"].at = "claim"
            /\ task'["attempt"].kind = "user-paused"
            /\ task'["attempt"].generation = task["attempt"].generation
            /\ task'["attempt"].old = task["attempt"].old
         \/ Valid("attempt") /\ Transitioned("attempt", coordinator, "stopped", "failed")
         \/ Valid("attempt") /\ Handled("attempt")
  <2>1. CASE ~ Valid("attempt")
    BY <2>1, Rests DEF Admitted, Abandon, Owns
  <2>2. CASE Valid("attempt")
    <3>1. CASE Result("attempt", "allowed")
      BY <2>2, <3>1, Stepping DEF Admitted, Steps, Owns, Failures
    <3>2. CASE Result("attempt", "userPaused")
      <4> DEFINE r == [Step("attempt", "claim") EXCEPT !.kind = "user-paused"]
      <4>1. StepOf("attempt", "claim", Step("attempt", "claim"))
        BY StepFields, Values DEF Steps
      <4>2. /\ r \in TaskState /\ r.at = "claim" /\ r.kind = "user-paused"
            /\ r.generation = task["attempt"].generation /\ r.old = task["attempt"].old
        BY <4>1 DEF StepOf, TaskState
      <4> HIDE DEF r
      <4>3. Becomes("attempt", r) /\ UNCHANGED coordinator
        BY <2>2, <3>2 DEF Admitted, Failures, r
      <4> QED BY <2>2, <3>2, <4>2, <4>3, Moves DEF Admitted, Owns, Typed
    <3>3. CASE Result("attempt", "inactive")
      <4>1. Transition("attempt", coordinator, "stopped", "failed")
        BY <2>2, <3>3 DEF Admitted, Failures
      <4>2. "stopped" \in States /\ coordinator \in Coordinators
        BY Values DEF States
      <4>3. Transitioned("attempt", coordinator, "stopped", "failed")
        BY <4>1, <4>2, Transitions
      <4> QED BY <2>2, <3>3, <4>3 DEF Admitted, Owns
    <3>4. CASE task["attempt"].result \in Failures
      <4>1. Handle("attempt")
        BY <2>2, <3>4 DEF Admitted, Failures
      <4> QED BY <2>2, <3>4, <4>1, Handles DEF Admitted, Owns, Failures
    <3> QED BY SMTT(30), <2>2, <3>1, <3>2, <3>3, <3>4 DEF Admitted
  <2> QED BY <2>1, <2>2
<1>2. Typed'
  BY <1>1, Values DEF Typed
<1>3. OwnSteps'
  BY <1>1, Values DEF OwnSteps
<1>4. Operations'
  BY SMTT(30), <1>1, Values DEF OwnSteps, Operations, PreferenceFirst
<1>5. AttemptKnown' /\ SeenAllowed'
  BY <1>1, Values DEF OwnSteps, Operations, AttemptKnown, SeenAllowed
<1>6. PreferenceFirst'
  BY SMTT(30), <1>1, Values, TurnInFront DEF OwnSteps, Operations, PreferenceFirst, InFront
<1>7. Generations'
  BY SMTT(30), <1>1, Values DEF OwnSteps, Operations, PreferenceFirst, Generations, Lasting
<1>8. ClosedWhenGone' /\ NothingSeenRefused'
  BY <1>1, Values DEF OwnSteps, ClosedWhenGone, NothingSeenRefused
<1> QED BY <1>2, <1>3, <1>4, <1>5, <1>6, <1>7, <1>8

\* Nothing is captured for an attempt that is no longer valid.
LEMMA LookKeeps ==
  ASSUME CoordinatorInv, Look
  PROVE  CoordinatorInv'
<1> USE DEF CoordinatorInv, At, Waiting, Result, Current, Free, Valid, Ending, For, Recovering,
            Preferring, Stopping, Alive, Moved, Tasks, Rested, Stepped
<1>1. /\ At("attempt", "look") /\ UNCHANGED <<coordinator, epoch, env, core, behind, refused>>
      /\ \/ Rested("attempt")
         \/ Valid("attempt") /\ Stepped("attempt", "capture")
         \/ /\ Valid("attempt")
            /\ Moved("attempt") /\ task'["attempt"].at = "claim"
            /\ task'["attempt"].generation = task["attempt"].generation
            /\ task'["attempt"].old = task["attempt"].old
  <2>1. CASE ~ Valid("attempt")
    <3>1. Becomes("attempt", Rest)
      BY <2>1 DEF Look
    <3>2. Rested("attempt")
      BY SMTT(30), <3>1, Rests
    <3> QED BY <3>2 DEF Look
  <2>2. CASE Valid("attempt") /\ Denial = "none"
    BY <2>2, Stepping DEF Look, Steps
  <2>3. CASE Valid("attempt") /\ Denial # "none"
    <3> DEFINE r == [Step("attempt", "claim") EXCEPT !.kind = Denial]
    <3>1. /\ Denial \in {"user-paused", "protected"}
          /\ StepOf("attempt", "claim", Step("attempt", "claim"))
      BY <2>3, StepFields DEF Denial, Steps
    <3>2. /\ r \in TaskState /\ r.at = "claim"
          /\ r.generation = task["attempt"].generation /\ r.old = task["attempt"].old
      BY <3>1 DEF StepOf, TaskState
    <3> HIDE DEF r
    <3>3. Becomes("attempt", r)
      BY <2>3 DEF Look, r
    <3> QED BY <2>3, <3>2, <3>3, Moves DEF Look, Typed
  <2> QED BY <2>1, <2>2, <2>3
<1>2. Typed'
  BY <1>1, Values DEF Typed
<1>3. OwnSteps'
  BY <1>1, Values DEF OwnSteps
<1>4. Operations'
  BY <1>1, Values DEF OwnSteps, Operations, PreferenceFirst
<1>5. AttemptKnown' /\ SeenAllowed'
  BY <1>1, Values DEF OwnSteps, Operations, AttemptKnown, SeenAllowed
<1>6. PreferenceFirst'
  BY <1>1, Values, TurnInFront DEF OwnSteps, Operations, PreferenceFirst, InFront
<1>7. Generations'
  BY <1>1, Values DEF OwnSteps, Operations, PreferenceFirst, Generations, Lasting
<1>8. ClosedWhenGone' /\ NothingSeenRefused'
  BY <1>1, Values DEF OwnSteps, ClosedWhenGone, NothingSeenRefused
<1> QED BY <1>2, <1>3, <1>4, <1>5, <1>6, <1>7, <1>8

\* Nor is it kept.
LEMMA CaptureKeeps ==
  ASSUME CoordinatorInv, Capture
  PROVE  CoordinatorInv'
<1> USE DEF CoordinatorInv, At, Waiting, Result, Current, Free, Valid, Ending, For, Recovering,
            Preferring, Stopping, Alive, Moved, Tasks, Rested
<1>1. /\ At("attempt", "capture")
      /\ UNCHANGED <<coordinator, epoch, env, core, behind, refused>>
      /\ \/ Rested("attempt")
         \/ /\ Valid("attempt")
            /\ Moved("attempt") /\ task'["attempt"].at = "claim"
            /\ task'["attempt"].generation = task["attempt"].generation
            /\ task'["attempt"].old = task["attempt"].old
         \/ /\ Moved("attempt") /\ task'["attempt"].at = "outcome"
            /\ task'["attempt"].generation = task["attempt"].generation
            /\ task'["attempt"].old = task["attempt"].old
  <2>1. CASE Discontinuity
    BY <2>1, Discontinues DEF Capture
  <2>2. CASE ~ Valid("attempt") /\ ~ Discontinuity
    BY <2>2, Rests DEF Capture
  <2>3. CASE Valid("attempt") /\ ~ Discontinuity
    <3> DEFINE kind == IF Denial = "none" THEN "captured" ELSE Denial
               r == [Step("attempt", "claim") EXCEPT !.kind = kind]
    <3>1. /\ kind \in {"captured", "user-paused", "protected"}
          /\ StepOf("attempt", "claim", Step("attempt", "claim"))
      BY StepFields, Values DEF Denial, Steps
    <3> HIDE DEF kind
    <3>2. /\ r \in TaskState /\ r.at = "claim"
          /\ r.generation = task["attempt"].generation /\ r.old = task["attempt"].old
      BY <3>1 DEF StepOf, TaskState
    <3> HIDE DEF r
    <3>3. Becomes("attempt", r)
      BY <2>3 DEF Capture, r, kind
    <3> QED BY <2>3, <3>2, <3>3, Moves DEF Capture, Typed
  <2> QED BY <2>1, <2>2, <2>3
<1>2. Typed'
  BY <1>1, Values DEF Typed
<1>3. OwnSteps'
  BY <1>1, Values DEF OwnSteps
<1>4. Operations'
  BY <1>1, Values DEF OwnSteps, Operations, PreferenceFirst
<1>5. AttemptKnown' /\ SeenAllowed'
  BY <1>1, Values DEF OwnSteps, Operations, AttemptKnown, SeenAllowed
<1>6. PreferenceFirst'
  BY <1>1, Values, TurnInFront DEF OwnSteps, Operations, PreferenceFirst, InFront
<1>7. Generations'
  BY <1>1, Values DEF OwnSteps, Operations, PreferenceFirst, Generations, Lasting
<1>8. ClosedWhenGone' /\ NothingSeenRefused'
  BY <1>1, Values DEF OwnSteps, ClosedWhenGone, NothingSeenRefused
<1> QED BY <1>2, <1>3, <1>4, <1>5, <1>6, <1>7, <1>8

\* An attempt may be written while its generation is current.
LEMMA ClaimKeeps ==
  ASSUME CoordinatorInv, Claim
  PROVE  CoordinatorInv'
<1> USE DEF CoordinatorInv, At, Waiting, Result, Current, Free, Valid, Ending, For, Recovering,
            Preferring, Stopping, Alive, Moved, Tasks, Rested, Stepped
<1>1. /\ At("attempt", "claim") /\ Turn("attempt", "epoch")
      /\ UNCHANGED <<coordinator, env, core, behind, refused>>
      /\ \/ /\ Valid("attempt") /\ Stepped("attempt", "ingest")
            /\ epoch' \in [current : Nat, permit : Nat]
            /\ epoch'.current = epoch.current /\ epoch'.permit = task["attempt"].generation
         \/ Rested("attempt") /\ UNCHANGED epoch
         \/ /\ UNCHANGED epoch
            /\ Moved("attempt") /\ task'["attempt"].at = "outcome"
            /\ task'["attempt"].generation = task["attempt"].generation
            /\ task'["attempt"].old = task["attempt"].old
  <2>1. CASE Valid("attempt") /\ epoch' = [epoch EXCEPT !.permit = task["attempt"].generation]
             /\ Becomes("attempt", Step("attempt", "ingest"))
    <3>1. task["attempt"].generation \in Nat /\ epoch \in [current : Nat, permit : Nat]
      BY Values DEF Typed
    <3>2. /\ epoch' \in [current : Nat, permit : Nat]
          /\ epoch'.current = epoch.current /\ epoch'.permit = task["attempt"].generation
      BY <2>1, <3>1
    <3> QED BY <2>1, <3>2, Stepping DEF Claim, Steps
  <2>2. CASE Becomes("attempt", Rest) /\ UNCHANGED epoch
    BY <2>2, Rests DEF Claim
  <2>3. CASE Discontinuity /\ UNCHANGED epoch
    BY <2>3, Discontinues DEF Claim
  <2> QED BY SMTT(30), <2>1, <2>2, <2>3 DEF Claim
<1>2. Typed'
  BY <1>1, Values DEF Typed
<1>3. OwnSteps'
  BY <1>1, Values DEF OwnSteps
<1>4. Operations'
  BY <1>1, Values DEF OwnSteps, Operations, PreferenceFirst
<1>5. AttemptKnown' /\ SeenAllowed'
  BY <1>1, Values DEF OwnSteps, Operations, AttemptKnown, SeenAllowed
<1>6. PreferenceFirst'
  BY <1>1, Values, TurnInFront DEF OwnSteps, Operations, PreferenceFirst, InFront
<1>7. Generations'
  BY <1>1, Values DEF OwnSteps, Operations, PreferenceFirst, Generations, Lasting
<1>8. ClosedWhenGone' /\ NothingSeenRefused'
  BY <1>1, Values DEF OwnSteps, ClosedWhenGone, NothingSeenRefused
<1> QED BY <1>2, <1>3, <1>4, <1>5, <1>6, <1>7, <1>8

\* The tasks that wait for the attempt resume in their order.
LEMMA ReleaseKeeps ==
  ASSUME CoordinatorInv, Release
  PROVE  CoordinatorInv'
<1> USE DEF CoordinatorInv, At, Waiting, Result, Current, Free, Valid, Ending, For, Recovering,
            Preferring, Stopping, Alive, Moved, Tasks
<1>1. /\ At("attempt", "ingest") /\ Turn("attempt", "epoch")
      /\ UNCHANGED <<coordinator, env, core, behind, refused>>
      /\ epoch' \in [current : Nat, permit : Nat]
      /\ epoch'.current = epoch.current /\ epoch'.permit = 0
      /\ Moved("attempt") /\ task'["attempt"].at = "outcome"
      /\ task'["attempt"].generation = task["attempt"].generation
      /\ task'["attempt"].old = task["attempt"].old
  <2>1. task["attempt"] \in TaskState /\ task \in [Tasks -> TaskState]
    BY DEF Typed
  <2>2. task' = [task EXCEPT !["attempt"] = [task["attempt"] EXCEPT !.at = "outcome"]]
    BY DEF Release
  <2>3. /\ task' \in [Tasks -> TaskState] /\ task'["attempt"].at = "outcome"
        /\ task'["attempt"].generation = task["attempt"].generation
        /\ task'["attempt"].old = task["attempt"].old
        /\ \A u \in Tasks : u # "attempt" => task'[u] = task[u]
    BY <2>1, <2>2 DEF TaskState, Steps
  <2>4. Served /\ ~ At("ui", "drain") => Served'
    BY DEF Release, Served, Others
  <2>5. /\ epoch' \in [current : Nat, permit : Nat]
        /\ epoch'.current = epoch.current /\ epoch'.permit = 0
    BY DEF Release, Typed
  <2> QED BY <2>3, <2>4, <2>5 DEF Release
<1>2. Typed'
  BY <1>1, Values DEF Typed
<1>3. OwnSteps'
  BY <1>1, Values DEF OwnSteps
<1>4. Operations'
  BY <1>1, Values DEF OwnSteps, Operations, PreferenceFirst
<1>5. AttemptKnown' /\ SeenAllowed'
  BY <1>1, Values DEF OwnSteps, Operations, AttemptKnown, SeenAllowed
<1>6. PreferenceFirst'
  BY <1>1, Values, TurnInFront DEF OwnSteps, Operations, PreferenceFirst, InFront
<1>7. Generations'
  BY <1>1, Values DEF OwnSteps, Operations, PreferenceFirst, Generations, Lasting
<1>8. ClosedWhenGone' /\ NothingSeenRefused'
  BY <1>1, Values DEF OwnSteps, ClosedWhenGone, NothingSeenRefused
<1> QED BY <1>2, <1>3, <1>4, <1>5, <1>6, <1>7, <1>8

\* A failed attempt stops the capture, whoever has the operation.
LEMMA OutcomeKeeps ==
  ASSUME CoordinatorInv, Outcome
  PROVE  CoordinatorInv'
<1> USE DEF CoordinatorInv, At, Waiting, Result, Current, Free, Valid, Ending, For, Recovering,
            Preferring, Stopping, Alive, Moved, Tasks, Rested, Handled, Transitioned,
            ClockNoted, Same
<1>1. /\ At("attempt", "outcome") /\ Turn("attempt", "coordinator")
      /\ UNCHANGED <<epoch, env, core, behind, refused>>
      /\ \/ Rested("attempt") /\ UNCHANGED coordinator
         \/ Handled("attempt") \/ ClockNoted("attempt")
  <2>1. \/ Becomes("attempt", Rest) /\ UNCHANGED coordinator
        \/ Handle("attempt") \/ ClockChanged("attempt")
    BY DEF Outcome, Abandon
  <2> QED BY <2>1, Rests, Handles, ClockChanges DEF Outcome, Owns
<1>2. Typed'
  BY <1>1, Values DEF Typed
<1>3. OwnSteps'
  BY <1>1, Values DEF OwnSteps
<1>4. Operations'
  BY SMTT(30), <1>1, Values DEF OwnSteps, Operations, PreferenceFirst
<1>5. AttemptKnown' /\ SeenAllowed'
  BY <1>1, Values DEF OwnSteps, Operations, AttemptKnown, SeenAllowed
<1>6. PreferenceFirst'
  BY SMTT(30), <1>1, Values, TurnInFront DEF OwnSteps, Operations, PreferenceFirst, InFront
<1>7. Generations'
  BY SMTT(30), <1>1, Values DEF OwnSteps, Operations, PreferenceFirst, Generations, Lasting
<1>8. ClosedWhenGone' /\ NothingSeenRefused'
  BY <1>1, Values DEF OwnSteps, ClosedWhenGone, NothingSeenRefused
<1> QED BY <1>2, <1>3, <1>4, <1>5, <1>6, <1>7, <1>8

-----------------------------------------------------------------------------
(* Start, shutdown and the world                                             *)

\* A shutdown takes the operation.
LEMMA StopKeeps ==
  ASSUME CoordinatorInv, Stop
  PROVE  CoordinatorInv'
<1> USE DEF CoordinatorInv, At, Waiting, Result, Current, Free, Valid, Ending, For, Recovering,
            Preferring, Stopping, Alive, Moved, Tasks, Transitioned
<1>1. /\ At("main", "rest") /\ Turn("main", "coordinator")
      /\ UNCHANGED <<epoch, env, core, behind, refused>>
      /\ \E c \in Coordinators :
           /\ c.generation = coordinator.generation /\ c.operation = "main"
           /\ Transitioned("main", c, "stopped", "stopped")
  <2> DEFINE c == [coordinator EXCEPT !.operation = "main"]
  <2>1. /\ c \in Coordinators /\ c.generation = coordinator.generation
        /\ c.operation = "main" /\ "stopped" \in States
    BY Values DEF Coordinators, States
  <2>2. Transition("main", c, "stopped", "stopped")
    BY DEF Stop
  <2> HIDE DEF c
  <2>3. Transitioned("main", c, "stopped", "stopped")
    BY <2>1, <2>2, Transitions
  <2> QED BY <2>1, <2>3 DEF Stop, Owns
<1>2. Typed'
  BY <1>1, Values DEF Typed
<1>3. OwnSteps'
  BY <1>1, Values DEF OwnSteps
<1>4. Operations'
  BY <1>1, Values DEF OwnSteps, Operations, PreferenceFirst
<1>5. AttemptKnown' /\ SeenAllowed'
  BY <1>1, Values DEF OwnSteps, Operations, AttemptKnown, SeenAllowed
<1>6. PreferenceFirst'
  BY <1>1, Values, TurnInFront DEF OwnSteps, Operations, PreferenceFirst, InFront
<1>7. Generations'
  BY <1>1, Values DEF OwnSteps, Operations, PreferenceFirst, Generations, Lasting
<1>8. ClosedWhenGone' /\ NothingSeenRefused'
  BY SMTT(30), <1>1, Values DEF OwnSteps, ClosedWhenGone, NothingSeenRefused
<1> QED BY <1>2, <1>3, <1>4, <1>5, <1>6, <1>7, <1>8

\* The session is closed when nothing is alive any more.
LEMMA TerminateKeeps ==
  ASSUME CoordinatorInv, Terminate
  PROVE  CoordinatorInv'
<1> USE DEF CoordinatorInv, At, Waiting, Result, Current, Free, Valid, Ending, For, Recovering,
            Preferring, Stopping, Alive, Moved, Tasks, Started
<1>1. /\ At("main", "terminate") /\ Turn("main", "engine") /\ Started("main", "gone")
      /\ UNCHANGED <<coordinator, epoch, env, behind, refused>>
      /\ core' \in [enabled : BOOLEAN, open : BOOLEAN, over : BOOLEAN, room : BOOLEAN]
      /\ core'.enabled = core.enabled
  <2>1. core' \in {core, [core EXCEPT !.open = FALSE]}
    BY DEF Terminate
  <2>2. /\ core' \in [enabled : BOOLEAN, open : BOOLEAN, over : BOOLEAN, room : BOOLEAN]
        /\ core'.enabled = core.enabled
    BY <2>1 DEF Typed
  <2> QED BY <2>2, Starting DEF Terminate, Steps
<1>2. Typed'
  BY <1>1, Values DEF Typed
<1>3. OwnSteps'
  BY <1>1, Values DEF OwnSteps
<1>4. Operations'
  BY <1>1, Values DEF OwnSteps, Operations, PreferenceFirst
<1>5. AttemptKnown' /\ SeenAllowed'
  BY <1>1, Values DEF OwnSteps, Operations, AttemptKnown, SeenAllowed
<1>6. PreferenceFirst'
  BY <1>1, Values, TurnInFront DEF OwnSteps, Operations, PreferenceFirst, InFront
<1>7. Generations'
  BY <1>1, Values DEF OwnSteps, Operations, PreferenceFirst, Generations, Lasting
<1>8. ClosedWhenGone' /\ NothingSeenRefused'
  BY <1>1, Values DEF OwnSteps, ClosedWhenGone, NothingSeenRefused
<1> QED BY <1>2, <1>3, <1>4, <1>5, <1>6, <1>7, <1>8

\* The environment closes no session and sets no preference.
LEMMA WorldKeeps ==
  ASSUME CoordinatorInv, World
  PROVE  CoordinatorInv'
<1> USE DEF CoordinatorInv, At, Waiting, Result, Current, Free, Valid, Ending, For, Recovering,
            Preferring, Stopping, Alive, Moved, Tasks, Served
<1>1. /\ UNCHANGED <<coordinator, epoch, task, queue, env, refused>> /\ behind' \in BOOLEAN
      /\ core' \in [enabled : BOOLEAN, open : BOOLEAN, over : BOOLEAN, room : BOOLEAN]
      /\ core'.enabled = core.enabled /\ core'.open = core.open
  <2>1. /\ core' \in {core, [core EXCEPT !.over = TRUE], [core EXCEPT !.room = ~ core.room]}
        /\ behind' \in {behind, TRUE}
    BY DEF World
  <2> QED BY <2>1 DEF World, Typed
<1>2. Typed'
  BY <1>1, Values DEF Typed
<1>3. OwnSteps'
  BY <1>1, Values DEF OwnSteps
<1>4. Operations'
  BY <1>1, Values DEF OwnSteps, Operations, PreferenceFirst
<1>5. AttemptKnown' /\ SeenAllowed'
  BY <1>1, Values DEF OwnSteps, Operations, AttemptKnown, SeenAllowed
<1>6. PreferenceFirst'
  BY SMTT(30), <1>1, Values, TurnInFront DEF OwnSteps, Operations, PreferenceFirst, InFront
<1>7. Generations'
  BY <1>1, Values DEF OwnSteps, Operations, PreferenceFirst, Generations, Lasting
<1>8. ClosedWhenGone' /\ NothingSeenRefused'
  BY <1>1, Values DEF OwnSteps, ClosedWhenGone, NothingSeenRefused
<1> QED BY <1>2, <1>3, <1>4, <1>5, <1>6, <1>7, <1>8

-----------------------------------------------------------------------------
(* The engine                                                                *)

\* An answer of the engine to a storage check, a gap or a request for admission.
LEMMA AnswerKeeps ==
  ASSUME CoordinatorInv, NEW t \in Tasks, NEW r \in Outcomes \ {"none"},
         task[t].at \in {"health", "gap", "correct", "admit", "admission"},
         Waiting(t), Turn(t, "engine"), Answered(t, r),
         r = "allowed" => core.open /\ core.enabled,
         UNCHANGED <<coordinator, epoch, env, core, behind, refused>>
  PROVE  CoordinatorInv'
<1> USE DEF CoordinatorInv, At, Waiting, Result, Current, Free, Valid, Ending, For, Recovering,
            Preferring, Stopping, Alive, Moved, Tasks, Answered
<1>2. Typed'
  BY Values DEF Typed
<1>3. OwnSteps'
  BY Values DEF OwnSteps
<1>4. Operations'
  BY Values DEF OwnSteps, Operations
<1>5. AttemptKnown' /\ SeenAllowed'
  BY Values DEF OwnSteps, Operations, AttemptKnown, SeenAllowed
<1>6. PreferenceFirst'
  BY Values, TurnInFront DEF OwnSteps, Operations, PreferenceFirst, InFront
<1>7. Generations'
  BY Values DEF OwnSteps, Operations, Generations, Lasting
<1>8. ClosedWhenGone' /\ NothingSeenRefused'
  BY DEF ClosedWhenGone, NothingSeenRefused
<1> QED BY <1>2, <1>3, <1>4, <1>5, <1>6, <1>7, <1>8

\* The engine answers a storage check.
LEMMA HealthKeeps ==
  ASSUME CoordinatorInv, NEW t \in Tasks, Health(t)
  PROVE  CoordinatorInv'
<1>1. PICK r \in Outcomes \ {"none"} : Answer(t, r) /\ r # "allowed"
  BY DEF Health, Failing, Outcomes, Failures
<1>2. Answered(t, r)
  BY <1>1, Answers DEF CoordinatorInv
<1> QED BY <1>1, <1>2, AnswerKeeps DEF Health, At

\* The engine answers a gap or a correction.
LEMMA RecordGapKeeps ==
  ASSUME CoordinatorInv, NEW t \in Tasks, RecordGap(t)
  PROVE  CoordinatorInv'
<1>1. PICK r \in Outcomes \ {"none"} : Answer(t, r) /\ r # "allowed"
  BY DEF RecordGap, Failing, Outcomes, Failures
<1>2. Answered(t, r)
  BY <1>1, Answers DEF CoordinatorInv
<1> QED BY <1>1, <1>2, AnswerKeeps DEF RecordGap

\* The engine allows capture only with the session open and recording enabled.
LEMMA AdmissionKeeps ==
  ASSUME CoordinatorInv, NEW t \in Tasks, Admission(t)
  PROVE  CoordinatorInv'
<1> DEFINE a == CASE ~ core.open -> "inactive" [] ~ core.enabled -> "userPaused"
                  [] core.over -> "study" [] ~ core.room -> "retryable"
                  [] OTHER -> "allowed"
<1>1. a \in Outcomes \ {"none"} /\ (a = "allowed" => core.open /\ core.enabled)
  BY DEF Outcomes, Failures
<1>2. Answer(t, a) \/ Failing(t)
  BY DEF Admission
<1> HIDE DEF a
<1>3. PICK r \in Outcomes \ {"none"} :
        Answer(t, r) /\ (r = "allowed" => core.open /\ core.enabled)
  BY <1>1, <1>2 DEF Failing, Outcomes, Failures
<1>4. Answered(t, r)
  BY <1>3, Answers DEF CoordinatorInv
<1> QED BY <1>3, <1>4, AnswerKeeps DEF Admission

\* What was seen is never refused for the session or the preference.
LEMMA IngestKeeps ==
  ASSUME CoordinatorInv, Ingest
  PROVE  CoordinatorInv'
<1> USE DEF CoordinatorInv, At, Waiting, Result, Current, Free, Valid, Ending, For, Recovering,
            Preferring, Stopping, Alive, Moved, Tasks, Answered
<1>1. /\ At("attempt", "ingest") /\ Waiting("attempt") /\ Turn("attempt", "engine")
      /\ UNCHANGED <<coordinator, epoch, env, core, behind>>
      /\ \/ UNCHANGED refused
         \/ /\ core.open /\ core.enabled => task["attempt"].kind = "user-paused"
            /\ refused' = refused \cup {task["attempt"].kind}
      /\ \E r \in Outcomes \ {"none"} : Answered("attempt", r)
  <2>1. PICK r \in Outcomes \ {"none"} : Answer("attempt", r)
    BY DEF Ingest, Failing, Outcomes, Failures
  <2>2. Answered("attempt", r)
    BY <2>1, Answers
  <2>3. \/ UNCHANGED refused
        \/ /\ core.open /\ core.enabled => task["attempt"].kind = "user-paused"
           /\ refused' = refused \cup {task["attempt"].kind}
    BY DEF Ingest, Typed
  <2> QED BY <2>2, <2>3 DEF Ingest
<1>2. Typed'
  BY <1>1, Values DEF Typed
<1>3. OwnSteps'
  BY <1>1, Values DEF OwnSteps
<1>4. Operations'
  BY SMTT(30), <1>1, Values DEF OwnSteps, Operations, PreferenceFirst
<1>5. AttemptKnown' /\ SeenAllowed'
  BY SMTT(30), <1>1, Values DEF OwnSteps, Operations, AttemptKnown, SeenAllowed
<1>6. PreferenceFirst'
  BY SMTT(30), <1>1, Values, TurnInFront DEF OwnSteps, Operations, PreferenceFirst, InFront
<1>7. Generations'
  BY SMTT(30), <1>1, Values DEF OwnSteps, Operations, PreferenceFirst, Generations, Lasting
<1>8. ClosedWhenGone' /\ NothingSeenRefused'
  BY <1>1, Values DEF SeenAllowed, ClosedWhenGone, NothingSeenRefused
<1> QED BY <1>2, <1>3, <1>4, <1>5, <1>6, <1>7, <1>8

\* Nothing happens.
LEMMA StutterKeeps ==
  ASSUME CoordinatorInv, UNCHANGED vars
  PROVE  CoordinatorInv'
<1> USE DEF CoordinatorInv, At, Waiting, Result, Current, Free, Valid, Ending, For, Recovering,
            Preferring, Stopping, Alive, Moved, Tasks, vars, Served
<1>1. UNCHANGED vars
  OBVIOUS
<1>2. Typed'
  BY <1>1, Values DEF Typed
<1>3. OwnSteps'
  BY <1>1, Values DEF OwnSteps
<1>4. Operations'
  BY <1>1, Values DEF OwnSteps, Operations, PreferenceFirst
<1>5. AttemptKnown' /\ SeenAllowed'
  BY <1>1, Values DEF OwnSteps, Operations, AttemptKnown, SeenAllowed
<1>6. PreferenceFirst'
  BY <1>1, Values, TurnInFront DEF OwnSteps, Operations, PreferenceFirst, InFront
<1>7. Generations'
  BY <1>1, Values DEF OwnSteps, Operations, PreferenceFirst, Generations, Lasting
<1>8. ClosedWhenGone' /\ NothingSeenRefused'
  BY <1>1, Values DEF OwnSteps, ClosedWhenGone, NothingSeenRefused
<1> QED BY <1>2, <1>3, <1>4, <1>5, <1>6, <1>7, <1>8

-----------------------------------------------------------------------------
(* The invariant of the specification, and what follows from it              *)

\* The app starts with its main task recovering and everybody else at rest.
LEMMA CoordinatorInit == Init => CoordinatorInv
<1> SUFFICES ASSUME Init PROVE CoordinatorInv
  OBVIOUS
<1> USE DEF At, Waiting, Ending, For, Recovering, Preferring, Stopping, Alive, Tasks
<1>1. /\ \A t \in Tasks :
           /\ task[t].at = (IF t = "main" THEN "admit" ELSE "rest")
           /\ task[t].generation = 0 /\ task[t].old = 0 /\ task[t].then = "none"
      /\ coordinator.state = "stopped" /\ coordinator.operation = "main"
      /\ epoch.current = 0 /\ epoch.permit = 0 /\ core.open /\ refused = {}
  BY DEF Init, Rest
<1>2. Typed
  <2>1. coordinator \in Coordinators
    BY DEF Init, Coordinators, States
  <2>2. epoch \in [current : Nat, permit : Nat] /\ behind \in BOOLEAN
    BY DEF Init
  <2>3. task \in [Tasks -> TaskState]
    <3>1. Rest \in TaskState /\ [Rest EXCEPT !.at = "admit"] \in TaskState
      BY RestState DEF TaskState, Steps
    <3> QED BY <3>1 DEF Init
  <2>4. /\ env \in [paused : BOOLEAN, locked : BOOLEAN, asleep : BOOLEAN]
        /\ core \in [enabled : BOOLEAN, open : BOOLEAN, over : BOOLEAN, room : BOOLEAN]
    BY DEF Init
  <2>5. coordinator.generation = 0
    BY DEF Init
  <2> QED BY <1>1, <2>1, <2>2, <2>3, <2>4, <2>5 DEF Typed
<1>3. OwnSteps /\ Operations /\ AttemptKnown /\ PreferenceFirst /\ SeenAllowed
  BY <1>1 DEF OwnSteps, Operations, AttemptKnown, PreferenceFirst, SeenAllowed
<1>4. Generations /\ ClosedWhenGone /\ NothingSeenRefused
  BY <1>1 DEF Generations, ClosedWhenGone, NothingSeenRefused
<1> QED BY <1>2, <1>3, <1>4 DEF CoordinatorInv

\* The steps that any task may take.
LEMMA ServeKeeps ==
  ASSUME CoordinatorInv, NEW t \in Tasks, Serve(t)
  PROVE  CoordinatorInv'
<1>1. CASE Invalidate(t)
  BY <1>1, InvalidateKeeps
<1>2. CASE BeginGeneration(t)
  BY <1>2, BeginKeeps
<1>3. CASE TransitionDone(t)
  BY <1>3, TransitionDoneKeeps
<1>4. CASE Checked(t)
  BY <1>4, CheckedKeeps
<1>5. CASE Recorded(t)
  BY <1>5, RecordedKeeps
<1>6. CASE Activate(t)
  BY <1>6, ActivateKeeps
<1>7. CASE Activated(t)
  BY <1>7, ActivatedKeeps
<1>8. CASE Health(t)
  BY <1>8, HealthKeeps
<1>9. CASE RecordGap(t)
  BY <1>9, RecordGapKeeps
<1>10. CASE Admission(t)
  BY <1>10, AdmissionKeeps
<1> QED BY <1>1, <1>2, <1>3, <1>4, <1>5, <1>6, <1>7, <1>8, <1>9, <1>10 DEF Serve

\* Every step keeps the invariant.
LEMMA CoordinatorStep == CoordinatorInv /\ [Next]_vars => CoordinatorInv'
<1> SUFFICES ASSUME CoordinatorInv, [Next]_vars PROVE CoordinatorInv'
  OBVIOUS
<1>1. CASE \E t \in Tasks : Serve(t)
  BY <1>1, ServeKeeps
<1>2. CASE \E wish \in Wishes : Wish(wish)
  BY <1>2, WishKeeps
<1>3. CASE SetPreference \/ PreferenceInvalidated \/ Prefer \/ PreferenceSet
  BY <1>3, SetPreferenceKeeps, PreferenceInvalidatedKeeps, PreferKeeps, PreferenceSetKeeps
<1>4. CASE PreferenceApplied \/ Pause
  BY <1>4, PreferenceAppliedKeeps, PauseKeeps
<1>5. CASE \E notice \in Notices : Notice(notice)
  BY <1>5, NoticeKeeps
<1>6. CASE Suspend \/ Resume \/ WallClockChanged
  BY <1>6, SuspendKeeps, ResumeKeeps, WallClockChangedKeeps
<1>7. CASE PrivacyBoundaryChanged \/ BoundaryInvalidated \/ BoundaryCrossed
  BY <1>7, PrivacyBoundaryChangedKeeps, BoundaryInvalidatedKeeps, BoundaryCrossedKeeps
<1>8. CASE Due \/ Admitted \/ Look \/ Capture
  BY <1>8, DueKeeps, AdmittedKeeps, LookKeeps, CaptureKeeps
<1>9. CASE Claim \/ Ingest \/ Release \/ Outcome
  BY <1>9, ClaimKeeps, IngestKeeps, ReleaseKeeps, OutcomeKeeps
<1>10. CASE Stop \/ Terminate \/ World
  BY <1>10, StopKeeps, TerminateKeeps, WorldKeeps
<1>11. CASE UNCHANGED vars
  BY <1>11, StutterKeeps
<1> QED BY <1>1, <1>2, <1>3, <1>4, <1>5, <1>6, <1>7, <1>8, <1>9, <1>10, <1>11 DEF Next

\* The inductive invariant holds in every state the recorder reaches.
LEMMA Invariant == Spec => []CoordinatorInv
  BY CoordinatorInit, CoordinatorStep, PTL DEF Spec

\* The generations that anybody knows have been counted by the epoch, a lifecycle operation
\* belongs to a call that is still under way, and capture never runs once prepareTermination
\* has closed the session.
THEOREM CaptureTyped == Spec => []TypeOK
<1>1. CoordinatorInv => TypeOK
  <2> SUFFICES ASSUME CoordinatorInv PROVE TypeOK
    OBVIOUS
  <2> USE DEF CoordinatorInv, At, Ending, For, Recovering, Preferring, Stopping, Tasks
  <2>1. coordinator.operation # "none" => ~ At(coordinator.operation, "rest")
    BY Values DEF Operations
  <2>2. coordinator.state = "running" => core.open
    BY DEF Operations, ClosedWhenGone
  <2> QED BY <2>1, <2>2 DEF TypeOK, Typed, Coordinators
<1> QED BY <1>1, Invariant, PTL

\* However suspensions, clock changes, preferences and failures preempt each other: while a
\* gap or a correction is recorded no attempt has a permit, so that the evidence of before
\* the outage precedes it in the journal.
THEOREM CaptureGapAfterEvidence == Spec => []GapAfterEvidence
<1>1. CoordinatorInv => GapAfterEvidence
  <2> SUFFICES ASSUME CoordinatorInv, NEW t \in Tasks, task[t].at \in {"gap", "correct"}
               PROVE  epoch.permit = 0
    BY DEF GapAfterEvidence
  <2> QED BY DEF CoordinatorInv, AttemptKnown, Alive, Recovering, At
<1> QED BY <1>1, Invariant, PTL

\* A pause, a resumption of recording or a termination never overtakes a screen that was read
\* or a denial for a lock or a sleep: what the engine is left to refuse are notices that the
\* user pauses.
THEOREM CaptureSeesAllowed == Spec => []NothingSeenRefused
<1>1. CoordinatorInv => NothingSeenRefused
  BY DEF CoordinatorInv
<1> QED BY <1>1, Invariant, PTL

\* Once everybody has returned, a coordinator that is shown as running has a loop and the
\* current generation, whatever preempted whatever.
THEOREM CaptureArmed == Spec => []RunningIsArmed
<1>1. CoordinatorInv => RunningIsArmed
  BY DEF CoordinatorInv, Generations, RunningIsArmed, Free
<1> QED BY <1>1, Invariant, PTL
=============================================================================
