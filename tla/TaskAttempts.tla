---------------------------- MODULE TaskAttempts ----------------------------
(***************************************************************************)
(* Tasks and their Attempts (internal/api/task_attempts.go, tasks.go,      *)
(* internal/tasks/registry.go, types.go): admission of an Attempt under    *)
(* admissionMu, the watcher that mirrors its run into the Task registry,   *)
(* archiving, the registry file, the settings routes that reopen the       *)
(* registry, shutdown and restart.                                         *)
(*                                                                         *)
(* The run service is the part of RunService that this component sees: one *)
(* active run, one pending run, the record GetRun returns.  Its own write  *)
(* failures, retention races and goroutines are RunService's business.     *)
(*                                                                         *)
(* An attempt id also stands for its run id: buildAdmittedAttempt draws    *)
(* both fresh and together.  A time is a number of clock ticks, 0 a nil    *)
(* pointer; run history keeps whole seconds, the registry nanoseconds.     *)
(***************************************************************************)
EXTENDS Naturals, FiniteSets

CONSTANTS
    Tasks,           \* task ids
    Keys,            \* idempotency keys clients send
    MaxAttempts,     \* bound: attempts ever drawn
    Second,          \* clock ticks in a second
    MaxTime,         \* bound: last clock tick
    MaxRevision,     \* bound: accepted edits of a task
    ArchiveCalls,    \* the lifecycles clients ask for: archived, open
    Retention,       \* s.historyRetention: terminal runs kept
    MaxForeign,      \* bound: runs started outside the Task API
    MaxFaults,       \* bound: writes that fail
    MaxReloads,      \* bound: settings changes that reopen the registry
    MaxRestarts      \* bound: process restarts

ASSUME TaskAttemptsConstants ==
    /\ MaxAttempts \in Nat
    /\ Second \in Nat \ {0}
    /\ MaxTime \in Nat /\ Second <= MaxTime
    /\ MaxRevision \in Nat \ {0}
    /\ Retention \in Nat \ {0}
    /\ ArchiveCalls \subseteq {"archived", "open"}
    /\ {MaxForeign, MaxFaults, MaxReloads, MaxRestarts} \subseteq Nat

AttemptIds == 1..MaxAttempts
None == 0
Foreign == MaxAttempts + 1
Registries == 0..MaxReloads
Times == 0..MaxTime

VARIABLES
    clock,     \* time.Now
    disk,      \* reports/taskruns/task-history.json
    mem,       \* snapshot of every Registry object opened by this process
    cur,       \* s.taskRegistry
    runs,      \* the run service's record of each attempt's run
    active,    \* s.activeRunID
    pending,   \* s.pendingRun
    resuming,  \* stale run relaunched by the restart, not yet stored again
    adm,       \* the handler that holds admissionMu
    seq,       \* attempt ids drawn
    watch,     \* live watchAdmittedAttempt goroutines
    todo,      \* attempts the loop of reconcileTaskAttemptsAfterRestart has left
    stage,     \* progress of Server.Shutdown
    budget     \* bounds used up

service == <<runs, active, pending, resuming>>
store == <<disk, mem, cur>>
server == <<adm, seq, watch, todo, stage>>
vars == <<clock, store, service, server, budget>>

-----------------------------------------------------------------------------
Open == {"queued", "running"}
Closed == {"succeeded", "failed", "canceled"}
Statuses == Open \cup Closed \cup {"absent"}
Intents == {"start", "queue"}

Task == [lifecycle : {"absent", "open", "archived"}, revision : 0..MaxRevision,
         activity : Times, archived : Times, outcome : AttemptIds \cup {None}]

NoId == "none"

Attempt == [task : Tasks \cup {NoId}, key : Keys \cup {NoId}, parent : AttemptIds \cup {None},
            status : Statuses, admitted : Times, started : Times, finished : Times]

Run == [status : Statuses, linked : BOOLEAN, started : Times, finished : Times]

History == [tasks : [Tasks -> Task], attempts : [AttemptIds -> Attempt]]

NoTask == [lifecycle |-> "absent", revision |-> 0, activity |-> 0,
           archived |-> 0, outcome |-> None]

NoAttempt == [task |-> NoId, key |-> NoId, parent |-> None, status |-> "absent",
              admitted |-> 0, started |-> 0, finished |-> 0]

NoRun == [status |-> "absent", linked |-> FALSE, started |-> 0, finished |-> 0]

Idle == [pc |-> "idle", attempt |-> None, activity |-> 0]

Watcher == [attempt : AttemptIds, registry : Registries, info : Run]

Bounds == [foreign : 0..MaxForeign, faults : 0..MaxFaults,
           restarts : 0..MaxRestarts]

\* Registry, runs and process keep their types; an attempt's revision is one its Task had.
TypeOK ==
    /\ clock \in Second..MaxTime
    /\ disk \in History
    /\ mem \in [Registries -> History]
    /\ cur \in Registries
    /\ runs \in [AttemptIds -> Run]
    /\ active \in AttemptIds \cup {None, Foreign}
    /\ pending \in AttemptIds \cup {None, Foreign}
    /\ resuming \in AttemptIds \cup {None}
    /\ adm \in [pc : {"idle", "start", "mirror", "undo"},
                attempt : AttemptIds \cup {None}, activity : Times]
    /\ adm.pc = "idle" <=> adm.attempt = None
    /\ seq \in 0..MaxAttempts
    /\ watch \subseteq Watcher
    /\ todo \subseteq AttemptIds
    /\ stage \in {"up", "draining", "closed"}
    /\ budget \in Bounds

EmptyHistory == [tasks |-> [t \in Tasks |-> NoTask],
                 attempts |-> [a \in AttemptIds |-> NoAttempt]]

Init ==
    /\ clock = Second
    /\ disk = EmptyHistory
    /\ mem = [r \in Registries |-> EmptyHistory]
    /\ cur = 0
    /\ runs = [a \in AttemptIds |-> NoRun]
    /\ active = None
    /\ pending = None
    /\ resuming = None
    /\ adm = Idle
    /\ seq = 0
    /\ watch = {}
    /\ todo = {}
    /\ stage = "up"
    /\ budget = [foreign |-> 0, faults |-> 0, restarts |-> 0]

Spend(kind) == budget' = [budget EXCEPT ![kind] = @ + 1]

Tick ==
    /\ clock < MaxTime
    /\ clock' = clock + 1
    /\ UNCHANGED <<store, service, server, budget>>

-----------------------------------------------------------------------------
(***************************************************************************)
(* The registry (internal/tasks)                                           *)
(***************************************************************************)

\* validateTaskTimes: archived_at must not precede last_activity_at.
TaskTimesValid(task) == task.archived # 0 => task.archived >= task.activity

\* validateAttemptTimes: admitted (= queued) <= started <= finished where present.
AttemptTimesValid(attempt) ==
    /\ attempt.started # 0 => attempt.admitted <= attempt.started
    /\ attempt.finished # 0 =>
           /\ attempt.admitted <= attempt.finished
           /\ attempt.started <= attempt.finished

\* History.Validate, for the rules a reachable candidate can break.
Valid(history) ==
    /\ \A t \in Tasks :
           /\ history.tasks[t].lifecycle = "archived" <=> history.tasks[t].archived # 0
           /\ TaskTimesValid(history.tasks[t])
    /\ \A a \in AttemptIds :
           LET attempt == history.attempts[a] IN
           attempt.status # "absent" =>
               /\ AttemptTimesValid(attempt)
               /\ attempt.status \in Closed <=> attempt.finished # 0
               /\ history.tasks[attempt.task].lifecycle # "absent"
               /\ attempt.parent # None =>
                      /\ history.attempts[attempt.parent].status # "absent"
                      /\ history.attempts[attempt.parent].task = attempt.task

\* Registry.Update on registry r: validate, write the file, publish in memory.
\* ok is FALSE when the write fails; an invalid candidate is never written.
Update(r, candidate, ok) ==
    \/ /\ ok /\ Valid(candidate)
       /\ disk' = candidate
       /\ mem' = [mem EXCEPT ![r] = candidate]
       /\ UNCHANGED <<cur, budget>>
    \/ /\ ok /\ ~Valid(candidate)
       /\ UNCHANGED <<store, budget>>
    \/ /\ ~ok /\ Valid(candidate)
       /\ budget.faults < MaxFaults
       /\ Spend("faults")
       /\ UNCHANGED store

\* Mutant of Published: the error of the write is dropped.
PublishedIfValid(candidate, ok) == Valid(candidate)

\* Update returned nil.
Published(candidate, ok) == ok /\ Valid(candidate)

history == mem[cur]

\* A handler can take admissionMu: the server is serving and no handler has it.
Serving == adm.pc = "idle" /\ todo = {} /\ stage = "up"

-----------------------------------------------------------------------------
(***************************************************************************)
(* Tasks (internal/api/tasks.go)                                           *)
(***************************************************************************)

EditTask(t, task, ok) ==
    /\ Serving
    /\ Update(cur, [history EXCEPT !.tasks[t] = task], ok)
    /\ UNCHANGED <<clock, service, server>>

\* handleTaskCreate
CreateTask(t, ok) ==
    /\ history.tasks[t].lifecycle = "absent"
    /\ EditTask(t, [NoTask EXCEPT !.lifecycle = "open", !.revision = 1,
                                  !.activity = clock], ok)

\* handleTaskResource PATCH with the current expected_revision; another revision
\* is refused without a change.
PatchTask(t, ok) ==
    /\ history.tasks[t].lifecycle # "absent"
    /\ history.tasks[t].revision < MaxRevision
    /\ EditTask(t, [history.tasks[t] EXCEPT !.revision = @ + 1, !.activity = clock], ok)

\* handleTaskArchive.  The attempts of the task are not looked at.
ArchiveTask(t, lifecycle, ok) ==
    /\ history.tasks[t].lifecycle # "absent"
    /\ history.tasks[t].revision < MaxRevision
    /\ EditTask(t, [history.tasks[t] EXCEPT
                       !.lifecycle = lifecycle, !.revision = @ + 1, !.activity = clock,
                       !.archived = IF lifecycle = "archived" THEN clock ELSE 0], ok)

-----------------------------------------------------------------------------
(***************************************************************************)
(* The run service, as GetRun, Coordination and HasInFlightRun show it     *)
(***************************************************************************)

\* isActiveRunLocked
IsActiveRun == active = Foreign \/ (active \in AttemptIds /\ runs[active].status \in Open)

HasInFlightRun == IsActiveRun \/ pending # None

\* trimRunRegistry, counting only the runs of attempts.
Trim(f) ==
    [a \in AttemptIds |->
        IF /\ f[a].status \in Closed
           /\ Cardinality({b \in AttemptIds : b > a /\ f[b].status \in Closed}) >= Retention
        THEN NoRun ELSE f[a]]

EndRun(a, status) ==
    Trim([runs EXCEPT ![a].status = status, ![a].finished = clock])

\* runWithID stores the running record.
RunStarts(a) ==
    /\ active = a
    /\ resuming # a
    /\ runs[a].status = "queued"
    /\ runs' = [runs EXCEPT ![a].status = "running"]
    /\ UNCHANGED <<clock, store, active, pending, resuming, server, budget>>

\* A run resumed after restart stores its record with the ids of the rebuilt
\* request, which has none.
ResumedRunStarts(a) ==
    /\ resuming = a
    /\ runs' = [runs EXCEPT ![a].linked = FALSE]
    /\ resuming' = None
    /\ UNCHANGED <<clock, store, active, pending, server, budget>>

\* The active run ends by itself, is canceled, or is refused by a closed service.
RunEnds(a, status) ==
    /\ active = a
    /\ resuming # a
    /\ runs[a].status \in Open
    /\ status = "succeeded" => runs[a].status = "running"
    /\ runs' = EndRun(a, status)
    /\ UNCHANGED <<clock, store, active, pending, resuming, server, budget>>

\* CancelRun of the pending run.
CancelPending(a) ==
    /\ pending = a
    /\ runs' = EndRun(a, "canceled")
    /\ pending' = None
    /\ UNCHANGED <<clock, store, active, resuming, server, budget>>

\* finishAsyncRun of the active run: the pending run takes its place.  A run whose
\* record retention has evicted keeps the slot.
FinishAsyncRun ==
    /\ active # None
    /\ active \in AttemptIds => runs[active].status \in Closed
    /\ active' = IF stage = "closed" THEN None ELSE pending
    /\ pending' = IF stage = "closed" THEN pending ELSE None
    /\ UNCHANGED <<clock, store, runs, resuming, server, budget>>

\* handlePipelineRunsPost, handleQARunsPost, handlePipelineRetry: intent start.
ForeignStart ==
    /\ Serving
    /\ budget.foreign < MaxForeign
    /\ ~IsActiveRun
    /\ active' = Foreign
    /\ Spend("foreign")
    /\ UNCHANGED <<clock, store, runs, pending, resuming, server>>

\* handlePipelineRunsPost, intent queue: a pending run is superseded, whosever it is.
ForeignQueue ==
    /\ Serving
    /\ budget.foreign < MaxForeign
    /\ IsActiveRun
    /\ pending # Foreign
    /\ runs' = IF pending = None THEN runs ELSE EndRun(pending, "canceled")
    /\ pending' = Foreign
    /\ Spend("foreign")
    /\ UNCHANGED <<clock, store, active, resuming, server>>

-----------------------------------------------------------------------------
(***************************************************************************)
(* Admission (handleTaskAttemptAdmission, handleTaskAttemptChild)          *)
(***************************************************************************)

TaskAttemptsOf(t) == {a \in AttemptIds :
    history.attempts[a].status # "absent" /\ history.attempts[a].task = t}

\* Mutant of KeyUsed: only open attempts are searched.
KeyUsedByOpen(t, key) ==
    \E a \in TaskAttemptsOf(t) :
        history.attempts[a].key = key /\ history.attempts[a].status \in Open

\* findIdempotentAttempt
KeyUsed(t, key) == \E a \in TaskAttemptsOf(t) : history.attempts[a].key = key

\* Mutant of HasCapacity: only the run service is asked.
HasCapacityInService(intent) ==
    /\ pending = None
    /\ intent = "start" => ~IsActiveRun

\* validateTaskCapacity
HasCapacity(intent) ==
    LET held == {history.attempts[a].status : a \in AttemptIds} IN
    /\ pending = None
    /\ intent = "start" => ~IsActiveRun /\ held \cap Open = {}
    /\ "queued" \notin held

\* removeAttemptFromHistory
RemoveAttempt(h, a, activity) ==
    [h EXCEPT !.attempts[a] = NoAttempt,
              !.tasks[h.attempts[a].task].activity = activity]

\* The checks both handlers make, appendAttemptToHistory and its registry write.
\* A request that repeats a key changes nothing, whatever it is answered.
Admit(t, key, intent, parent, ok) ==
    /\ Serving
    /\ seq < MaxAttempts
    /\ history.tasks[t].lifecycle = "open"
    /\ ~KeyUsed(t, key)
    /\ HasCapacity(intent)
    /\ LET a == seq + 1
           attempt == [task |-> t, key |-> key, parent |-> parent, status |-> "queued",
                       admitted |-> clock, started |-> 0, finished |-> 0]
           candidate == [history EXCEPT !.attempts[a] = attempt,
                                        !.tasks[t].activity = clock]
       IN /\ Update(cur, candidate, ok)
          /\ adm' = IF Published(candidate, ok)
                    THEN [pc |-> "start", attempt |-> a,
                          activity |-> history.tasks[t].activity]
                    ELSE Idle
          /\ seq' = a
    /\ UNCHANGED <<clock, service, watch, todo, stage>>

\* handleTaskAttemptAdmission: the first attempt of a task.
AdmitRoot(t, key, intent, ok) ==
    /\ TaskAttemptsOf(t) = {}
    /\ Admit(t, key, intent, None, ok)

\* handleTaskAttemptChild: retry after a failed or canceled parent, rerun after a
\* succeeded one.
AdmitChild(parent, key, intent, ok) ==
    /\ history.attempts[parent].status \in Closed
    /\ Admit(history.attempts[parent].task, key, intent, parent, ok)

Handler(pc) == adm' = [adm EXCEPT !.pc = pc]

\* StartAsyncRun accepts the run: active when nothing is, pending otherwise.  The
\* lease keeps the capacity just checked, so neither ErrRunActive nor the
\* superseding of a pending run can follow here.
StartRun ==
    /\ adm.pc = "start"
    /\ stage # "closed"
    /\ active' = IF IsActiveRun THEN active ELSE adm.attempt
    /\ pending' = IF IsActiveRun THEN adm.attempt ELSE pending
    /\ runs' = [runs EXCEPT ![adm.attempt] =
                    [status |-> "queued", linked |-> TRUE, started |-> clock, finished |-> 0]]
    /\ Handler("mirror")
    /\ UNCHANGED <<clock, store, resuming, seq, watch, todo, stage, budget>>

\* StartAsyncRun refuses: the service is closed or its history cannot be written.
StartRefused ==
    /\ adm.pc = "start"
    /\ \/ stage = "closed" /\ UNCHANGED budget
       \/ stage # "closed" /\ budget.faults < MaxFaults /\ Spend("faults")
    /\ Handler("undo")
    /\ UNCHANGED <<clock, store, service, seq, watch, todo, stage>>

\* The compensating update.  When it fails too the attempt stays in the registry
\* and the client is told attempt_admission_inconsistent.
UndoAdmission(ok) ==
    /\ adm.pc = "undo"
    /\ Update(cur, RemoveAttempt(history, adm.attempt, adm.activity), ok)
    /\ adm' = Idle
    /\ UNCHANGED <<clock, service, seq, watch, todo, stage>>

-----------------------------------------------------------------------------
(***************************************************************************)
(* Mirroring a run into its attempt                                        *)
(***************************************************************************)

\* attemptNeedsRunUpdate
NeedsUpdate(h, a, info) ==
    LET attempt == h.attempts[a] IN
    /\ attempt.status # "absent"
    /\ info.linked
    /\ \/ attempt.status # info.status
       \/ info.status = "running" /\ attempt.started = 0
       \/ info.finished # 0 /\ attempt.finished # info.finished

\* Mutant of Mirror: every terminal attempt becomes the outcome of its task.
MirrorAnyOutcome(h, a, info) ==
    LET attempt == [h.attempts[a] EXCEPT
                        !.status = info.status,
                        !.started = IF info.status = "running" /\ @ = 0
                                    THEN info.started ELSE @,
                        !.finished = IF info.finished # 0 THEN info.finished ELSE @]
    IN [h EXCEPT !.attempts[a] = attempt,
                 !.tasks[attempt.task].activity = clock,
                 !.tasks[attempt.task].outcome = IF info.status \in Closed THEN a ELSE @]

\* updateAttemptFromRun
Mirror(h, a, info) ==
    LET attempt == [h.attempts[a] EXCEPT
                        !.status = info.status,
                        !.started = IF info.status = "running" /\ @ = 0
                                    THEN info.started ELSE @,
                        !.finished = IF info.finished # 0 THEN info.finished ELSE @]
        outcome == CASE info.status = "succeeded" -> a
                     [] info.status \in {"failed", "canceled"} -> None
                     [] OTHER -> h.tasks[attempt.task].outcome
    IN [h EXCEPT !.attempts[a] = attempt,
                 !.tasks[attempt.task].activity = clock,
                 !.tasks[attempt.task].outcome = outcome]

\* watchAdmittedAttempt
Watched(a, r) == IF stage = "up" THEN {[attempt |-> a, registry |-> r, info |-> NoRun]} ELSE {}

\* The rest of an accepted admission: GetRun, an update whose failure is ignored,
\* and the watcher.
MirrorAdmitted(ok) ==
    /\ adm.pc = "mirror"
    /\ Update(cur, Mirror(history, adm.attempt, runs[adm.attempt]), ok)
    /\ watch' = watch \cup Watched(adm.attempt, cur)
    /\ adm' = Idle
    /\ UNCHANGED <<clock, service, seq, todo, stage>>

\* One tick of a watcher, first half: GetRun.  It gives up on a run that is gone.
WatchRead(w) ==
    /\ w.info = NoRun
    /\ watch' = (watch \ {w}) \cup
           (IF runs[w.attempt] = NoRun THEN {} ELSE {[w EXCEPT !.info = runs[w.attempt]]})
    /\ UNCHANGED <<clock, store, service, adm, seq, todo, stage, budget>>

\* Mutant of WatchApply: a failed update of a terminal run is not retried.
WatchApplyOnce(w, ok) ==
    LET h == mem[w.registry]
        needed == NeedsUpdate(h, w.attempt, w.info)
    IN /\ w.info # NoRun
       /\ \/ needed /\ Update(w.registry, Mirror(h, w.attempt, w.info), ok)
          \/ ~needed /\ ok /\ UNCHANGED <<store, budget>>
       /\ watch' = (watch \ {w}) \cup
              (IF w.info.status \in Closed THEN {} ELSE {[w EXCEPT !.info = NoRun]})
       /\ UNCHANGED <<clock, service, adm, seq, todo, stage>>

\* Second half: compare with the registry the watcher was given, update it, and
\* stop once a terminal run needs no update.
WatchApply(w, ok) ==
    LET h == mem[w.registry]
        candidate == Mirror(h, w.attempt, w.info)
        needed == NeedsUpdate(h, w.attempt, w.info)
        stops == w.info.status \in Closed /\ (needed => Published(candidate, ok))
    IN /\ w.info # NoRun
       /\ \/ needed /\ Update(w.registry, candidate, ok)
          \/ ~needed /\ ok /\ UNCHANGED <<store, budget>>
       /\ watch' = (watch \ {w}) \cup (IF stops THEN {} ELSE {[w EXCEPT !.info = NoRun]})
       /\ UNCHANGED <<clock, service, adm, seq, todo, stage>>

-----------------------------------------------------------------------------
(***************************************************************************)
(* Reopening the registry, shutdown and restart                            *)
(***************************************************************************)

\* Mutant of OpenAttempts: terminal attempts are reconciled too.
AllAttempts(h) == {a \in AttemptIds : h.attempts[a].status # "absent"}

OpenAttempts(h) == {a \in AttemptIds : h.attempts[a].status \in Open}

\* markAttemptUnavailableAfterRestart
MarkUnavailable(h, a) ==
    [h EXCEPT !.attempts[a].status = "failed",
              !.attempts[a].finished = clock,
              !.tasks[h.attempts[a].task].activity = clock,
              !.tasks[h.attempts[a].task].outcome = None]

\* One round of the loop in reconcileTaskAttemptsAfterRestart; update failures are
\* ignored.
ReconcileAttempt(ok) ==
    /\ \E a \in todo :
          LET run == runs[a]
              needed == NeedsUpdate(history, a, run)
          IN /\ \A b \in todo : a <= b
             /\ \/ run = NoRun /\ Update(cur, MarkUnavailable(history, a), ok)
                \/ run # NoRun /\ needed /\ Update(cur, Mirror(history, a, run), ok)
                \/ run # NoRun /\ ~needed /\ ok /\ UNCHANGED <<store, budget>>
             /\ watch' = watch \cup (IF run.status \in Open THEN Watched(a, cur) ELSE {})
             /\ todo' = todo \ {a}
    /\ UNCHANGED <<clock, service, adm, seq, stage>>

\* resetTaskRegistryLocked, after a settings or manifest change: a new Registry is
\* loaded from the file; the watchers of the old one stay with it.
ReloadRegistry ==
    /\ Serving
    /\ ~HasInFlightRun
    /\ cur < MaxReloads
    /\ cur' = cur + 1
    /\ mem' = [mem EXCEPT ![cur + 1] = disk]
    /\ todo' = OpenAttempts(disk)
    /\ UNCHANGED <<clock, disk, service, adm, seq, watch, stage, budget>>

\* Server.Shutdown closes the admission of watchers first.
ShutdownBegins ==
    /\ stage = "up"
    /\ todo = {}
    /\ stage' = "draining"
    /\ UNCHANGED <<clock, store, service, adm, seq, watch, todo, budget>>

\* Service.Shutdown closes the service and cancels the pending run; the active one
\* ends by itself.
ServiceCloses ==
    /\ stage = "draining"
    /\ stage' = "closed"
    /\ runs' = IF pending \in AttemptIds THEN EndRun(pending, "canceled") ELSE runs
    /\ pending' = None
    /\ UNCHANGED <<clock, store, active, resuming, adm, seq, watch, todo, budget>>

\* runRecordToHistoryItem and historyItemToRunRecord format times in RFC3339: the
\* fraction of a second is lost.
Truncate(time) == (time \div Second) * Second

Reread(run) == [run EXCEPT !.started = Truncate(@), !.finished = Truncate(@)]

\* The process stops anywhere and is started again: loadHistory, then
\* recoverStaleRunsAfterRestart (resume one running run, fail the other open ones),
\* then the Task registry.
Restart(resume) ==
    /\ budget.restarts < MaxRestarts
    /\ \/ resume = None
       \/ resume = Foreign /\ active = Foreign
       \/ resume \in AttemptIds /\ runs[resume].status = "running"
    /\ runs' = [a \in AttemptIds |->
                   IF runs[a].status \in Open /\ a # resume
                   THEN [Reread(runs[a]) EXCEPT !.status = "failed", !.finished = clock]
                   ELSE Reread(runs[a])]
    /\ active' = resume
    /\ pending' = None
    /\ resuming' = IF resume = Foreign THEN None ELSE resume
    /\ mem' = [r \in Registries |-> disk]
    /\ cur' = 0
    /\ adm' = Idle
    /\ watch' = {}
    /\ todo' = OpenAttempts(disk)
    /\ stage' = "up"
    /\ Spend("restarts")
    /\ UNCHANGED <<clock, disk, seq>>

-----------------------------------------------------------------------------
Requests(ok) ==
    \/ \E t \in Tasks : \/ CreateTask(t, ok)
                        \/ PatchTask(t, ok)
                        \/ \E lifecycle \in ArchiveCalls : ArchiveTask(t, lifecycle, ok)
    \/ \E key \in Keys, intent \in Intents :
           \/ \E t \in Tasks : AdmitRoot(t, key, intent, ok)
           \/ \E parent \in AttemptIds : AdmitChild(parent, key, intent, ok)

Handling(ok) == UndoAdmission(ok) \/ MirrorAdmitted(ok)

RunSteps ==
    \/ \E a \in AttemptIds :
           \/ RunStarts(a)
           \/ ResumedRunStarts(a)
           \/ \E status \in Closed : RunEnds(a, status)
           \/ CancelPending(a)
    \/ FinishAsyncRun

WatchStep(a, ok) ==
    \E w \in watch : w.attempt = a /\ (WatchApply(w, ok) \/ (ok /\ WatchRead(w)))

Next ==
    \/ Tick
    \/ StartRun
    \/ StartRefused
    \/ ForeignStart
    \/ ForeignQueue
    \/ RunSteps
    \/ ReloadRegistry
    \/ ShutdownBegins
    \/ ServiceCloses
    \/ \E ok \in BOOLEAN :
           \/ Requests(ok)
           \/ Handling(ok)
           \/ ReconcileAttempt(ok)
           \/ \E a \in AttemptIds : WatchStep(a, ok)
    \/ \E resume \in AttemptIds \cup {None, Foreign} : Restart(resume)

Spec == Init /\ [][Next]_vars

\* A handler that holds the lease goes on, the reconciliation loop goes on, and the
\* ticker of a watcher keeps firing.
Fairness ==
    /\ WF_vars(StartRun \/ StartRefused)
    /\ WF_vars(\E ok \in BOOLEAN : Handling(ok))
    /\ WF_vars(\E ok \in BOOLEAN : ReconcileAttempt(ok))
    /\ \A a \in AttemptIds : WF_vars(\E ok \in BOOLEAN : WatchStep(a, ok))

LiveSpec == Spec /\ Fairness

-----------------------------------------------------------------------------
(***************************************************************************)
(* Properties                                                              *)
(***************************************************************************)

\* A token of a task is used by one attempt and a task has one attempt without a
\* parent, whatever mix of refusals, failed clean-ups, retries and restarts.
OneAttemptPerRequest ==
    \A a, b \in AttemptIds :
        LET x == history.attempts[a]
            y == history.attempts[b]
        IN a # b /\ x.status # "absent" /\ y.status # "absent" /\ x.task = y.task =>
               /\ x.key # y.key
               /\ x.parent = None => y.parent # None

\* At most one attempt is queued (validateTaskCapacity), across restarts and
\* attempts whose clean-up failed.
OneQueuedAttempt == Cardinality({a \in AttemptIds : history.attempts[a].status = "queued"}) <= 1

\* Types, and the one attempt that may wait: what validateTaskCapacity answers from.
CapacityInv == TypeOK /\ OneQueuedAttempt

\* A run in flight has its attempt, still open, in the registry and in its file, while no
\* watcher of a replaced registry is left (as in TerminalAttemptIsFinal): the process can
\* stop at any point without orphaning a run.
RunHasDurableAttempt ==
    \A a \in AttemptIds : runs[a].status \in Open =>
        history.attempts[a].status \in Open /\ disk.attempts[a].status \in Open

\* The outcome of a task is an attempt of that task that succeeded.
OutcomeIsReal ==
    \A t \in Tasks : LET a == history.tasks[t].outcome IN
        a # None => history.attempts[a].status = "succeeded" /\ history.attempts[a].task = t

\* A terminal attempt keeps its status, times and parent through handlers, watchers that
\* come late and restarts, while no watcher of a replaced registry is left.  With one left
\* by ReloadRegistry it need not: such a watcher stores the snapshot of its own registry
\* (server.go:334), in which the attempt may still be open.  Checked without reloads;
\* EndsAreFinal (TaskAttemptsProofs) has reloads under this condition.
TerminalAttemptIsFinal ==
    [][\A a \in AttemptIds : history.attempts[a].status \in Closed =>
           history'.attempts[a] = history.attempts[a]]_vars

RunEnded(a) == stage = "up" /\ runs[a].linked /\ runs[a].status \in Closed

Followed(a) ==
    \/ history.attempts[a].status = runs[a].status
    \/ runs[a] = NoRun
    \/ stage # "up"

Archived(a) ==
    LET attempt == history.attempts[a]
    IN attempt.status # "absent" /\ history.tasks[attempt.task].lifecycle = "archived"

\* Once a linked run has ended its attempt takes its status, through failed writes of
\* the watcher (watchAdmittedAttempt) and through a reopened registry.  Excused are a
\* task archived meanwhile (see ArchivedCatchesUp) and a write that fails in
\* reconcileTaskAttemptsAfterRestart, which drops the error.
MirrorCatchesUp ==
    \A a \in AttemptIds :
        RunEnded(a) ~> (Followed(a) \/ Archived(a) \/ (cur > 0 /\ budget.faults > 0))

\* "Attempt status follows the linked run lifecycle while that run is retained", also
\* when its task was archived while it ran (handleTaskArchive, updateAttemptFromRun).
ArchivedCatchesUp ==
    \A a \in AttemptIds : (RunEnded(a) /\ Archived(a)) ~> Followed(a)
=============================================================================
