----------------------------- MODULE RunService -----------------------------
(***************************************************************************)
(* The run lifecycle of the orchestrator's Service                         *)
(* (internal/orchestrator/service_runs.go, orchestrator.go, run_           *)
(* finalization.go, restart_reconcile.go): admission with one active slot  *)
(* and one pending slot, cancellation, the goroutine that executes a run,  *)
(* the retained registry and its history file, shutdown and restart.       *)
(*                                                                         *)
(* Every action is one critical section of s.mu, the granularity at which  *)
(* goroutines and HTTP handlers interleave.  A run id stands for the pair  *)
(* (StartedAt, RunID) that orders the registry: ids are drawn in clock     *)
(* order before the lock is taken, and may be admitted in another order.   *)
(***************************************************************************)
EXTENDS Naturals, FiniteSets

CONSTANTS
    MaxRuns,      \* bound: requests that ever arrive
    Retention,    \* s.historyRetention: terminal records kept
    MaxFaults,    \* bound: history writes that fail
    MaxRestarts   \* bound: times the process is stopped and started again

ASSUME RunServiceConstants ==
    /\ MaxRuns \in Nat
    /\ Retention \in Nat \ {0}
    /\ MaxFaults \in Nat
    /\ MaxRestarts \in Nat

RunIds == 1..MaxRuns
NoRun == 0

VARIABLES
    runs,        \* s.runs: status and error code of every registered run
    history,     \* reports/taskruns/run-history.json
    active,      \* s.activeRunID
    pending,     \* s.pendingRun
    cancels,     \* keys of s.runCancels
    cancelReq,   \* keys of s.cancelRequests
    ctxDone,     \* runs whose context has been canceled
    closed,      \* s.closed
    shut,        \* progress of the one Shutdown call
    shutRun,     \* the activeRunID Shutdown captured
    pc,          \* where the goroutine of each run is
    plan,        \* failure status classified but not stored yet
    requests,    \* StartAsyncRun calls that have drawn an id and wait for s.mu
    seq,         \* ids drawn so far
    faults,      \* history writes failed so far
    restarts,    \* restarts so far
    userCancel,  \* (history variable) runs whose CancelRun was answered with success
    stopAsked    \* (history variable) runs in flight when a Shutdown began

registry == <<runs, history>>
slots == <<active, pending>>
cancellation == <<cancels, cancelReq, ctxDone>>
shutdown == <<closed, shut, shutRun>>
goroutines == <<pc, plan>>
arrivals == <<requests, seq>>
asked == <<userCancel, stopAsked>>
vars == <<registry, slots, cancellation, shutdown, goroutines, arrivals,
          faults, restarts, asked>>

(***************************************************************************)
(* A record is its status, refined by error_code where properties tell the *)
(* codes apart: "superseded" is canceled/run_superseded and "reconciled"   *)
(* is failed/run_reconciled_after_restart.                                 *)
(***************************************************************************)
InFlight == {"queued", "running"}
Terminal == {"succeeded", "failed", "canceled", "superseded", "reconciled"}
RunState == InFlight \cup Terminal \cup {"absent"}

PC == {"none", "launch", "refused", "boot", "exec", "doomed", "fail", "guard",
       "outer", "finish", "done"}

Intents == {"start", "queue"}

TypeOK ==
    /\ runs \in [RunIds -> RunState]
    /\ history \in [RunIds -> RunState]
    /\ active \in RunIds \cup {NoRun}
    /\ pending \in RunIds \cup {NoRun}
    /\ cancels \subseteq RunIds
    /\ cancelReq \subseteq RunIds
    /\ ctxDone \subseteq RunIds
    /\ closed \in BOOLEAN
    /\ shut \in {"open", "waiting", "waitingErr", "ok", "error"}
    /\ shutRun \in RunIds \cup {NoRun}
    /\ shut \in {"waiting", "waitingErr"} => shutRun # NoRun
    /\ pc \in [RunIds -> PC]
    /\ plan \in [RunIds -> {"none", "failed", "canceled"}]
    /\ requests \subseteq [id : RunIds, intent : Intents]
    /\ seq \in 0..MaxRuns
    /\ faults \in 0..MaxFaults
    /\ restarts \in 0..MaxRestarts
    /\ userCancel \subseteq RunIds
    /\ stopAsked \subseteq RunIds

Init ==
    /\ runs = [r \in RunIds |-> "absent"]
    /\ history = [r \in RunIds |-> "absent"]
    /\ active = NoRun
    /\ pending = NoRun
    /\ cancels = {}
    /\ cancelReq = {}
    /\ ctxDone = {}
    /\ closed = FALSE
    /\ shut = "open"
    /\ shutRun = NoRun
    /\ pc = [r \in RunIds |-> "none"]
    /\ plan = [r \in RunIds |-> "none"]
    /\ requests = {}
    /\ seq = 0
    /\ faults = 0
    /\ restarts = 0
    /\ userCancel = {}
    /\ stopAsked = {}

-----------------------------------------------------------------------------
(***************************************************************************)
(* The registry.                                                           *)
(***************************************************************************)

\* isTerminalRunStatus
IsTerminal(status) == status \in Terminal

\* retainRunRecords: the Retention newest terminal runs; runs in flight are kept.
Retained(f, r) ==
    IsTerminal(f[r]) =>
        Cardinality({s \in RunIds : IsTerminal(f[s]) /\ s > r}) < Retention

\* trimRunRegistry
Trim(f) == [r \in RunIds |-> IF Retained(f, r) THEN f[r] ELSE "absent"]

\* Mutant of Put: the last writer wins.
PutLastWriterWins(f, r, status) == [f EXCEPT ![r] = status]

\* One record of upsertRunsLocked: a terminal record never regresses.
Put(f, r, status) ==
    IF IsTerminal(f[r]) /\ ~IsTerminal(status) THEN f ELSE [f EXCEPT ![r] = status]

\* Mutant of Publish: the registry is published although the write failed.
PublishAnyway(candidate, ok) ==
    /\ runs' = Trim(candidate)
    /\ \/ ok /\ history' = Trim(candidate) /\ faults' = faults
       \/ ~ok /\ faults < MaxFaults /\ faults' = faults + 1 /\ UNCHANGED history

\* upsertRunsLocked: trim, write the history file, publish only if it is written.
\* ok is FALSE when the write fails.
Publish(candidate, ok) ==
    \/ /\ ok
       /\ runs' = Trim(candidate)
       /\ history' = Trim(candidate)
       /\ faults' = faults
    \/ /\ ~ok
       /\ faults < MaxFaults
       /\ faults' = faults + 1
       /\ UNCHANGED <<runs, history>>

\* Mutant of IsActiveRun: a queued run does not count as active.
IsActiveRunRunningOnly == active # NoRun /\ runs[active] = "running"

\* isActiveRunLocked
IsActiveRun == active # NoRun /\ runs[active] \in InFlight

-----------------------------------------------------------------------------
(***************************************************************************)
(* StartAsyncRun                                                           *)
(***************************************************************************)

\* The id and StartedAt are drawn before s.mu is taken.
Arrive(intent) ==
    /\ seq < MaxRuns
    /\ seq' = seq + 1
    /\ requests' = requests \cup {[id |-> seq + 1, intent |-> intent]}
    /\ UNCHANGED <<registry, slots, cancellation, shutdown, goroutines,
                   faults, restarts, asked>>

\* ErrServiceClosed, "run already exists" and ErrRunActive.
RejectStart(q) ==
    /\ q \in requests
    /\ \/ closed
       \/ runs[q.id] # "absent"
       \/ IsActiveRun /\ q.intent = "start"
    /\ requests' = requests \ {q}
    /\ UNCHANGED <<registry, slots, cancellation, shutdown, goroutines, seq,
                   faults, restarts, asked>>

\* No active run: register the run as queued, take the slot, launch it.
StartNow(q, ok) ==
    /\ q \in requests
    /\ ~closed
    /\ runs[q.id] = "absent"
    /\ ~IsActiveRun
    /\ Publish(Put(runs, q.id, "queued"), ok)
    /\ active' = IF ok THEN q.id ELSE active
    /\ pc' = IF ok THEN [pc EXCEPT ![q.id] = "launch"] ELSE pc
    /\ requests' = requests \ {q}
    /\ UNCHANGED <<pending, cancellation, shutdown, plan, seq,
                   restarts, asked>>

\* Active run, no pending run: register the run as queued and make it pending.
QueueFirst(q, ok) ==
    /\ q \in requests
    /\ ~closed
    /\ runs[q.id] = "absent"
    /\ IsActiveRun
    /\ q.intent = "queue"
    /\ pending = NoRun
    /\ Publish(Put(runs, q.id, "queued"), ok)
    /\ pending' = IF ok THEN q.id ELSE pending
    /\ requests' = requests \ {q}
    /\ UNCHANGED <<active, cancellation, shutdown, goroutines, seq,
                   restarts, asked>>

\* supersededRunRecordLocked: the new queued record and the superseded old one
\* are written together.
QueueSupersede(q, ok) ==
    /\ q \in requests
    /\ ~closed
    /\ runs[q.id] = "absent"
    /\ IsActiveRun
    /\ q.intent = "queue"
    /\ pending # NoRun
    /\ runs[pending] # "absent"
    /\ Publish(Put(Put(runs, q.id, "queued"), pending, "superseded"), ok)
    /\ pending' = IF ok THEN q.id ELSE pending
    /\ requests' = requests \ {q}
    /\ UNCHANGED <<active, cancellation, shutdown, goroutines, seq,
                   restarts, asked>>

-----------------------------------------------------------------------------
(***************************************************************************)
(* CancelRun                                                               *)
(***************************************************************************)

CancelPending(r, ok) ==
    /\ runs[r] = "queued"
    /\ pending = r
    /\ Publish(Put(runs, r, "canceled"), ok)
    /\ pending' = IF ok THEN NoRun ELSE pending
    /\ cancelReq' = IF ok THEN cancelReq \ {r} ELSE cancelReq
    /\ userCancel' = IF ok THEN userCancel \cup {r} ELSE userCancel
    /\ UNCHANGED <<active, cancels, ctxDone, shutdown, goroutines,
                   arrivals, restarts, stopAsked>>

\* Records the request; the cancel function exists only once the run is launched.
CancelActive(r) ==
    /\ runs[r] \in InFlight
    /\ pending # r
    /\ active = r
    /\ cancelReq' = cancelReq \cup {r}
    /\ ctxDone' = IF r \in cancels THEN ctxDone \cup {r} ELSE ctxDone
    /\ userCancel' = userCancel \cup {r}
    /\ UNCHANGED <<registry, slots, cancels, shutdown, goroutines, arrivals,
                   faults, restarts, stopAsked>>

-----------------------------------------------------------------------------
(***************************************************************************)
(* The goroutine of a run: launchAsyncRun, runWithID, finishAsyncRun.      *)
(***************************************************************************)

Goto(r, label) == pc' = [pc EXCEPT ![r] = label]

\* Mutant of Launch: a cancel accepted before the launch is not looked at.
LaunchIgnoresCancel(r) ==
    /\ pc[r] = "launch"
    /\ \/ closed /\ Goto(r, "refused") /\ UNCHANGED cancels
       \/ ~closed /\ Goto(r, "boot") /\ cancels' = cancels \cup {r}
    /\ UNCHANGED <<registry, slots, cancelReq, ctxDone, shutdown, plan, arrivals, faults,
                   restarts, asked>>

\* launchAsyncRun, first critical section.
Launch(r) ==
    /\ pc[r] = "launch"
    /\ \/ /\ closed
          /\ Goto(r, "refused")
          /\ UNCHANGED cancellation
       \/ /\ ~closed
          /\ Goto(r, "boot")
          /\ cancels' = cancels \cup {r}
          /\ ctxDone' = IF r \in cancelReq THEN ctxDone \cup {r} ELSE ctxDone
          /\ UNCHANGED cancelReq
    /\ UNCHANGED <<registry, slots, shutdown, plan, arrivals, faults, restarts,
                   asked>>

\* Mutant of Refuse: finishAsyncRun is not called.
RefuseForgets(r, ok) ==
    /\ pc[r] = "refused"
    /\ \/ /\ runs[r] \in InFlight
          /\ Publish(Put(runs, r, "canceled"), ok)
       \/ /\ runs[r] \notin InFlight
          /\ UNCHANGED <<runs, history, faults>>
    /\ Goto(r, "done")
    /\ UNCHANGED <<slots, cancellation, shutdown, plan, arrivals, restarts, asked>>

\* launchAsyncRun on a closed service: terminalizeActiveRunAfterUnexpectedExit
\* with context.Canceled.
Refuse(r, ok) ==
    /\ pc[r] = "refused"
    /\ \/ /\ runs[r] \in InFlight
          /\ Publish(Put(runs, r, "canceled"), ok)
       \/ /\ runs[r] \notin InFlight
          /\ UNCHANGED <<runs, history, faults>>
    /\ Goto(r, "finish")
    /\ UNCHANGED <<slots, cancellation, shutdown, plan, arrivals,
                   restarts, asked>>

\* runWithID stores the running record; on failure it returns before its guard
\* is installed.
Boot(r, ok) ==
    /\ pc[r] = "boot"
    /\ Publish(Put(runs, r, "running"), ok)
    /\ Goto(r, IF ok THEN "exec" ELSE "outer")
    /\ UNCHANGED <<slots, cancellation, shutdown, plan, arrivals, restarts,
                   asked>>

\* onStep, onLog, onPermissions and the planning stores.  A failed write is
\* remembered (recordProgressPersistenceError): the execution goes on until the
\* next step boundary and then fails.
Progress(r, ok) ==
    /\ pc[r] \in {"exec", "doomed"}
    /\ Publish(Put(runs, r, "running"), ok)
    /\ Goto(r, IF ok THEN pc[r] ELSE "doomed")
    /\ UNCHANGED <<slots, cancellation, shutdown, plan, arrivals, restarts,
                   asked>>

\* finishExecutionSuccess and the no_op refresh.
Succeed(r, ok) ==
    /\ pc[r] = "exec"
    /\ Publish(Put(runs, r, "succeeded"), ok)
    /\ Goto(r, IF ok THEN "finish" ELSE "guard")
    /\ UNCHANGED <<slots, cancellation, shutdown, plan, arrivals,
                   restarts, asked>>

\* finishPartialExecutionFailure stores failed whatever was requested.
PartialFail(r, ok) ==
    /\ pc[r] = "exec"
    /\ Publish(Put(runs, r, "failed"), ok)
    /\ Goto(r, "guard")
    /\ UNCHANGED <<slots, cancellation, shutdown, plan, arrivals,
                   restarts, asked>>

\* execution.run or the preparation returns an error ("fail"), or the run
\* panics and only its guards are left ("guard").
ExecutionError(r, label) ==
    /\ pc[r] \in {"exec", "doomed"}
    /\ label \in {"fail", "guard"}
    /\ Goto(r, label)
    /\ UNCHANGED <<registry, slots, cancellation, shutdown, plan, arrivals,
                   faults, restarts, asked>>

\* Mutant of Classify: any failure may be taken for a cancellation.
ClassifyAnyAsCanceled(r, code) ==
    /\ pc[r] \in {"fail", "guard", "outer"}
    /\ plan[r] = "none"
    /\ r \in cancelReq => code = "canceled"
    /\ plan' = [plan EXCEPT ![r] = code]
    /\ UNCHANGED <<registry, slots, cancellation, shutdown, pc, arrivals,
                   faults, restarts, asked>>

\* classifyRunFailure reads cancelRequests under its own lock, before the store.
Classify(r, code) ==
    /\ pc[r] \in {"fail", "guard", "outer"}
    /\ plan[r] = "none"
    /\ \/ r \in cancelReq /\ code = "canceled"
       \/ r \notin cancelReq /\ r \in ctxDone /\ code = "canceled"
       \/ r \notin cancelReq /\ code = "failed"
    /\ plan' = [plan EXCEPT ![r] = code]
    /\ UNCHANGED <<registry, slots, cancellation, shutdown, pc, arrivals,
                   faults, restarts, asked>>

AfterFailure == [fail |-> "guard", guard |-> "outer", outer |-> "finish"]

\* Mutant of StoreFailure: the guards store nothing.
StoreFailureUnguarded(r, ok) ==
    /\ pc[r] \in {"fail", "guard", "outer"}
    /\ plan[r] # "none"
    /\ \/ pc[r] = "fail" /\ Publish(Put(runs, r, plan[r]), ok)
       \/ pc[r] # "fail" /\ UNCHANGED <<runs, history, faults>>
    /\ Goto(r, AfterFailure[pc[r]])
    /\ plan' = [plan EXCEPT ![r] = "none"]
    /\ UNCHANGED <<slots, cancellation, shutdown, arrivals, restarts, asked>>

\* failRunBeforeExecution and finishExecutionFailure store unconditionally; the
\* two guards (terminalizeActiveRunAfterUnexpectedExit) only a run in flight.
StoreFailure(r, ok) ==
    /\ pc[r] \in {"fail", "guard", "outer"}
    /\ plan[r] # "none"
    /\ \/ /\ pc[r] = "fail" \/ runs[r] \in InFlight
          /\ Publish(Put(runs, r, plan[r]), ok)
       \/ /\ pc[r] # "fail" /\ runs[r] \notin InFlight
          /\ UNCHANGED <<runs, history, faults>>
    /\ Goto(r, AfterFailure[pc[r]])
    /\ plan' = [plan EXCEPT ![r] = "none"]
    /\ UNCHANGED <<slots, cancellation, shutdown, arrivals, restarts,
                   asked>>

\* Mutant of SlotAfter: only a successful run gives the slot up.
SlotAfterSuccess(r) ==
    IF active = r /\ runs[r] = "succeeded" THEN NoRun ELSE active

\* finishAsyncRun: what the slot becomes when r gives it up.
SlotAfter(r) ==
    IF active = r /\ IsTerminal(runs[r]) THEN NoRun ELSE active

Finish(r) ==
    /\ pc[r] = "finish"
    /\ cancels' = cancels \ {r}
    /\ cancelReq' = cancelReq \ {r}
    /\ ctxDone' = ctxDone \ {r}
    /\ \/ /\ ~closed /\ SlotAfter(r) = NoRun /\ pending # NoRun
          /\ active' = pending
          /\ pending' = NoRun
          /\ pc' = [pc EXCEPT ![r] = "done", ![pending] = "launch"]
       \/ /\ closed \/ SlotAfter(r) # NoRun \/ pending = NoRun
          /\ active' = SlotAfter(r)
          /\ Goto(r, "done")
          /\ UNCHANGED pending
    /\ UNCHANGED <<registry, shutdown, plan, arrivals, faults, restarts, asked>>

-----------------------------------------------------------------------------
(***************************************************************************)
(* Shutdown                                                                *)
(***************************************************************************)

InFlightRuns == {r \in RunIds : runs[r] \in InFlight}

\* Mutant of Shutdown: a failed write of the pending record is not reported.
ShutdownSwallowsError(ok) ==
    /\ shut = "open"
    /\ closed' = TRUE
    /\ shutRun' = active
    /\ \/ /\ pending # NoRun
          /\ Publish(Put(runs, pending, "canceled"), ok)
          /\ pending' = IF ok THEN NoRun ELSE pending
       \/ /\ pending = NoRun
          /\ ok
          /\ UNCHANGED <<runs, history, faults, pending>>
    /\ ctxDone' = ctxDone \cup cancels
    /\ shut' = IF active = NoRun THEN "ok" ELSE "waiting"
    /\ stopAsked' = stopAsked \cup InFlightRuns
    /\ UNCHANGED <<active, cancels, cancelReq, goroutines, arrivals, restarts,
                   userCancel>>

\* Mutant of Shutdown: it waits although no run was active.
ShutdownWaitsForNobody(ok) ==
    /\ shut = "open"
    /\ closed' = TRUE
    /\ shutRun' = active
    /\ ok
    /\ shut' = "waiting"
    /\ UNCHANGED <<registry, slots, cancellation, goroutines, arrivals, faults,
                   restarts, asked>>

\* failQueuedRunLocked on the pending run, then every registered cancel function.
Shutdown(ok) ==
    /\ shut = "open"
    /\ closed' = TRUE
    /\ shutRun' = active
    /\ \/ /\ pending # NoRun
          /\ Publish(Put(runs, pending, "canceled"), ok)
          /\ pending' = IF ok THEN NoRun ELSE pending
       \/ /\ pending = NoRun
          /\ ok
          /\ UNCHANGED <<runs, history, faults, pending>>
    /\ ctxDone' = ctxDone \cup cancels
    /\ shut' = IF active = NoRun THEN (IF ok THEN "ok" ELSE "error")
               ELSE IF ok THEN "waiting" ELSE "waitingErr"
    /\ stopAsked' = stopAsked \cup InFlightRuns
    /\ UNCHANGED <<active, cancels, cancelReq, goroutines, arrivals,
                   restarts, userCancel>>

\* waitForRunTerminal
SlotQuiet ==
    /\ runs[shutRun] \notin InFlight
    /\ shutRun \notin cancels
    /\ active # shutRun

\* asyncRunsWG: goroutines that launchAsyncRun started and that have not returned.
Live == {r \in RunIds : pc[r] \in {"boot", "exec", "doomed", "fail", "guard", "outer"}
                        \/ (pc[r] = "finish" /\ r \in cancels)}

\* Both waits end; a failed write of the pending record is still reported.
ShutdownDone ==
    /\ shut \in {"waiting", "waitingErr"}
    /\ SlotQuiet
    /\ Live = {}
    /\ shut' = IF shut = "waiting" THEN "ok" ELSE "error"
    /\ UNCHANGED <<registry, slots, cancellation, closed, shutRun, goroutines,
                   arrivals, faults, restarts, asked>>

\* The deadline passes while waiting for the run: it is terminalized as canceled
\* although its goroutine may go on.  Waiting for the goroutines ends at once.
ShutdownTimeout(ok) ==
    /\ shut \in {"waiting", "waitingErr"}
    /\ \/ /\ ~SlotQuiet /\ runs[shutRun] \in InFlight
          /\ Publish(Put(runs, shutRun, "canceled"), ok)
       \/ /\ SlotQuiet \/ runs[shutRun] \notin InFlight
          /\ ok
          /\ UNCHANGED <<runs, history, faults>>
    /\ shut' = "error"
    /\ UNCHANGED <<slots, cancellation, closed, shutRun, goroutines,
                   arrivals, restarts, asked>>

-----------------------------------------------------------------------------
(***************************************************************************)
(* Restart: the process stops at any point and NewService loads the        *)
(* history; recoverStaleRunsAfterRestart reconciles what was in flight.    *)
(***************************************************************************)

\* findResumableRunningRunLocked: at most one running run is resumed, the latest
\* whose stored CurrentStep and shard files allow it.  Which runs those files
\* allow changes while they run, so any running run may be the one.
ResumeChoices == {NoRun} \cup {r \in RunIds : history[r] = "running"}

\* Every other run that was in flight is failed/run_reconciled_after_restart.
Reconciled(c) ==
    [r \in RunIds |-> IF history[r] \in InFlight /\ r # c THEN "reconciled"
                     ELSE history[r]]

\* The reconciled registry is trimmed in the file but not in memory; when the
\* file cannot be written the stale registry stays.
Restart(c, ok) ==
    /\ restarts < MaxRestarts
    /\ restarts' = restarts + 1
    /\ c \in ResumeChoices
    /\ \/ /\ ok
          /\ runs' = Reconciled(c)
          /\ history' = IF Reconciled(c) = history THEN history
                        ELSE Trim(Reconciled(c))
          /\ UNCHANGED faults
       \/ /\ ~ok
          /\ Reconciled(c) # history
          /\ faults < MaxFaults
          /\ faults' = faults + 1
          /\ runs' = history
          /\ UNCHANGED history
    /\ active' = c
    /\ pc' = [r \in RunIds |-> IF r = c THEN "launch" ELSE "none"]
    /\ pending' = NoRun
    /\ cancels' = {}
    /\ cancelReq' = {}
    /\ ctxDone' = {}
    /\ closed' = FALSE
    /\ shut' = "open"
    /\ shutRun' = NoRun
    /\ plan' = [r \in RunIds |-> "none"]
    /\ requests' = {}
    /\ UNCHANGED <<seq, asked>>

-----------------------------------------------------------------------------
RunStep(r) ==
    \/ Launch(r)
    \/ \E ok \in BOOLEAN : Refuse(r, ok)
    \/ \E ok \in BOOLEAN : Boot(r, ok)
    \/ \E ok \in BOOLEAN : Succeed(r, ok)
    \/ \E ok \in BOOLEAN : PartialFail(r, ok)
    \/ \E label \in {"fail", "guard"} : ExecutionError(r, label)
    \/ \E code \in {"failed", "canceled"} : Classify(r, code)
    \/ \E ok \in BOOLEAN : StoreFailure(r, ok)
    \/ Finish(r)

Request ==
    \/ \E intent \in Intents : Arrive(intent)
    \/ \E q \in requests :
          \/ RejectStart(q)
          \/ \E ok \in BOOLEAN : StartNow(q, ok)
          \/ \E ok \in BOOLEAN : QueueFirst(q, ok)
          \/ \E ok \in BOOLEAN : QueueSupersede(q, ok)
    \/ \E r \in RunIds :
          \/ \E ok \in BOOLEAN : CancelPending(r, ok)
          \/ CancelActive(r)

Next ==
    \/ Request
    \/ \E r \in RunIds : RunStep(r)
    \/ \E r \in RunIds, ok \in BOOLEAN : Progress(r, ok)
    \/ \E ok \in BOOLEAN : Shutdown(ok)
    \/ ShutdownDone
    \/ \E ok \in BOOLEAN : ShutdownTimeout(ok)
    \/ \E c \in RunIds \cup {NoRun}, ok \in BOOLEAN : Restart(c, ok)

Spec == Init /\ [][Next]_vars

(***************************************************************************)
(* The Go scheduler runs every goroutine, the executor's step timeouts and *)
(* the cancelable context make every execution end, and Shutdown's waits   *)
(* poll until they are satisfied.  Requests, faults, restarts and the      *)
(* shutdown deadline are never required to happen.                         *)
(***************************************************************************)
Fairness ==
    /\ \A r \in RunIds : WF_vars(RunStep(r))
    /\ WF_vars(ShutdownDone)

FairSpec == Spec /\ Fairness

-----------------------------------------------------------------------------
(***************************************************************************)
(* Safety                                                                  *)
(***************************************************************************)

\* Goroutines between the moment a run is given the slot and the moment it
\* has something final to store: the ones that drive a pipeline.
Driving == {"launch", "boot", "exec", "doomed", "fail"}

\* At most one run drives a pipeline in the workspace, although a new run may be
\* admitted between the terminal store of the previous one and its
\* finishAsyncRun, and although a shutdown deadline terminalizes a run whose
\* goroutine goes on (StartAsyncRun, finishAsyncRun, Shutdown).
AtMostOneDriving ==
    \A r, s \in RunIds : pc[r] \in Driving /\ pc[s] \in Driving => r = s

\* The pending run is a registered queued run that nothing executes and that
\* does not hold the slot, so promoting it starts it exactly once and canceling
\* it cannot touch a running one (StartAsyncRun, CancelRun, finishAsyncRun).
PendingIsParked ==
    pending # NoRun =>
        /\ runs[pending] = "queued"
        /\ pc[pending] = "none"
        /\ pending # active

\* Nothing is published that is not in the history file: a run in flight is on
\* disk in the same state, and what is on disk is what the API shows
\* (upsertRunsLocked, persistHistorySnapshotLocked).
PublishedIsDurable ==
    \A r \in RunIds :
        /\ runs[r] \in InFlight => history[r] = runs[r]
        /\ history[r] # "absent" => history[r] = runs[r]

\* A run is recorded as canceled only if a cancel request for it succeeded or a
\* shutdown found it in flight (classifyRunFailure, CancelRun, Shutdown).
CanceledOnlyIfAsked ==
    \A r \in RunIds : runs[r] = "canceled" => r \in userCancel \cup stopAsked

\* A cancel answered with success reaches the context of the run, also when it was
\* accepted between admission and launch and no cancel function existed yet
\* (CancelRun, launchAsyncRun).  A restart forgets the cancels it accepted.
CancelReachesRun ==
    \A r \in userCancel :
        restarts = 0 /\ pc[r] \in {"boot", "exec", "doomed", "fail", "guard", "outer"} => r \in ctxDone

\* A Shutdown that reports success leaves no run driving or terminalizing, and
\* no run of this process in flight (Shutdown, waitForRunTerminal,
\* waitForAsyncRuns).
CleanShutdown ==
    shut = "ok" =>
        /\ pending = NoRun
        /\ \A r \in RunIds :
              /\ pc[r] \notin Driving \cup {"refused"}
              /\ pc[r] # "none" => runs[r] \notin InFlight

\* In an open service the slot is held by a goroutine that is still going, or by
\* a run that could not be terminalized because its history write failed, or by one
\* whose record retention had dropped before finishAsyncRun looked for it: no other
\* way to end a run leaks the slot (finishAsyncRun).
SlotHeldByLiveRun ==
    (~closed /\ active # NoRun /\ pc[active] \in {"none", "done"}) =>
        \/ faults > 0 /\ runs[active] \in InFlight
        \/ runs[active] = "absent" /\ Cardinality({r \in RunIds : IsTerminal(runs[r])}) >= Retention

\* A terminal record never goes back to a run in flight: it is dropped by retention
\* or rewritten with another terminal status (upsertRunsLocked).
TerminalIsFinal ==
    [][\A r \in RunIds :
          IsTerminal(runs[r]) => IsTerminal(runs'[r]) \/ runs'[r] = "absent"]_vars

\* A run enters the registry as queued and becomes running from queued: what was
\* dropped by retention does not come back, except from a goroutine that outlives the
\* deadline of Shutdown (upsertRunsLocked, Shutdown).  It implies TerminalIsFinal.
LifecycleOrder ==
    [][\A r \in RunIds :
          runs'[r] # runs[r] =>
              /\ runs'[r] = "queued" => runs[r] = "absent"
              /\ runs'[r] = "running" =>
                    runs[r] = "queued" \/ (runs[r] = "absent" /\ shut = "error")]_vars

\* What a record is to the callers of the service.
Shown(status) == IF IsTerminal(status) THEN "ended" ELSE status

Contract == INSTANCE RunContract
    WITH Runs <- RunIds, NoRun <- NoRun, status <- [r \in RunIds |-> Shown(runs[r])],
         slot <- active, next <- pending, closed <- closed

\* The service keeps its promise: whatever the goroutines that outlive a shutdown's
\* deadline, the guards, the cancels and the failed writes do, only the records of the
\* slot and of the pending run move, in the order queued, running, ended, and the slot
\* passes only from a run that is over (StartAsyncRun, CancelRun, runWithID,
\* finishAsyncRun, Shutdown, NewService).
ServesContract == Contract!Spec

(***************************************************************************)
(* What makes AtMostOneDriving and PendingIsParked inductive.              *)
(***************************************************************************)

\* A driving run owns the slot, and while the service is open its record is in
\* flight, so that isActiveRunLocked keeps every other start out.
DrivingOwnsSlot ==
    \A r \in RunIds :
        pc[r] \in Driving => active = r /\ (runs[r] \in InFlight \/ closed)

\* Ids that wait for admission or were never drawn are not in use, and the ones
\* never drawn have no record.
IdsFresh ==
    /\ \A r \in RunIds :
          seq < r => runs[r] = "absent" /\ history[r] = "absent" /\ shutRun # r
    /\ \A r \in RunIds :
          (seq < r \/ \E q \in requests : q.id = r)
              => pc[r] = "none" /\ active # r /\ pending # r
    /\ \A q \in requests : q.id <= seq
    /\ \A q1, q2 \in requests : q1.id = q2.id => q1 = q2

\* The run a waiting Shutdown would terminalize is not the pending one.
ShutdownTarget ==
    shut \in {"waiting", "waitingErr"} =>
        closed /\ shutRun # pending

SlotInv == PendingIsParked /\ DrivingOwnsSlot /\ IdsFresh /\ ShutdownTarget

(***************************************************************************)
(* Liveness                                                                *)
(***************************************************************************)

\* Every registered run settles (launchAsyncRun, runWithID, finishAsyncRun).
EveryRunSettles ==
    \A r \in RunIds : runs[r] \in InFlight ~> runs[r] \notin InFlight

\* Shutdown returns even without its deadline (waitForRunTerminal).
ShutdownReturns ==
    shut = "waiting" ~> shut \in {"ok", "error"}
=============================================================================
