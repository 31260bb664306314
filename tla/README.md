# ProvenArch in TLA+

ProvenArch (`acp`) runs documentation pipelines over a workspace of source
repositories.  A Go service admits runs, executes their steps through external
agent CLIs, stages and promotes the documents they produce, keeps a registry of
runs and of tasks with attempts, and serves an HTTP API.  A web console (React) is
its only client: it polls, selects, edits and publishes.  This directory models the
parts of both whose correctness depends on the order of steps: critical sections of
several goroutines, failed writes, cancellation, shutdown and restart on the server;
overlapping requests, late answers, aborts, navigation and drafts in the browser.

## Inventory

| component | source | state | operations | what is hard | what makes it correct | module |
|---|---|---|---|---|---|---|
| Run lifecycle service | `internal/orchestrator/service_runs.go`, `orchestrator.go`, `run_finalization.go`, `restart_reconcile.go` | `runs`, `activeRunID`, `pendingRun`, `runCancels`, `cancelRequests`, `closed`, history file | StartAsyncRun, CancelRun, launch, runWithID and its guards, finishAsyncRun, Shutdown, restart | the slot is given up in a later critical section than the terminal store; a shutdown deadline terminalizes a live run; retention; failed writes; restarts | one driver, the pending run starts once or never, durable before visible, terminal is final, Shutdown honest, everything settles | `RunService`, `RunContract` |
| Task registry and attempts | `internal/tasks`, `internal/api/task_attempts.go`, `tasks.go` | tasks, attempts, keys, a watcher per attempt | create, admit, watch, archive, reconcile | two stores without a common transaction; watcher, archive and restart race | an attempt joins one run and ends with its outcome | `TaskAttempts` |
| Publication | `internal/api/task_publication.go`, Git routes of `server.go`; `ui/src/hooks/useGitActions.ts`, `useGitDiff.ts`, `features/publish` | journal, repository, registry link; inventory, dialog, busy | load, prepare, confirm, intent, git, record, clear, recover | crash between any two steps; stale confirmation; other programs | what was confirmed is what is committed; the link is not lost | `Publication` |
| Polling loop | `ui/src/hooks/usePollingLoop.ts` | timer, request, failures, pause generation | enable, tick, settle, pause, resume, dispose | events while a request is out | never dead, never two requests | `PollingLoop`, `PollingContract` |
| Ask drawer | `ui/src/features/qa/AskStagePanel.tsx` | history, shown run, requests | ask, select, refresh, poll, draft a proposal | four kinds of late answer | the user's choice stays, every answer arrives | `AskPanel` |
| Task pages | `ui/src/components/TaskRouteContainer.tsx`, `TaskComposer.tsx`, `lib/taskApi.ts`, `draftStorage.ts` | inbox, Task, Attempt, review, draft, token | filter, page, poll, admit, archive, compose | overlapping loads, lost answers, unmounting | one list, the addressed Task, no conflict with oneself | `TaskPages` |
| Run console | `ui/src/hooks/useRun*.ts`, `lib/runExplorerState.ts`, `runState.ts`, `App.tsx` | selected run, status, logs, artifacts, address | select, start, poll, bootstrap, history navigation | async functions that overlap at every await | the screen shows the selected run | `RunConsole` |
| Workspace setup | `ui/src/hooks/useManifestEditor.ts`, `OnboardingShell.tsx`, `SetupStagePanels.tsx`, `useRuntimeSettings.ts` | manifest text, form, draft, session, busy | edit, restore, load, save, validate, enter | edits during saves, drafts per workspace | no edit lost, the page usable again | `SetupEditor` |
| Current documents | `ui/src/App.tsx`, `KnowledgePage.tsx` | inventory, address, document, reader | refresh, open, navigate, read | half-failed refreshes, aborted loads | shown under its own name, listed, answered | `CurrentDocuments` |
| Run history store | `restart_reconcile.go`, `workspace/fs.go` | history file and `.last-good` | atomic write, load with fallback | failure between rename and copy | a load returns what was current | in `RunService` as one write |
| Pipeline execution | `step_handlers.go` | step index, partial failures | run steps, store progress | late callbacks | no success past a failed step | effects on the record in `RunService` |
| Shards | `sharding_*.go` | pool, outcomes, summary | schedule, fail fast, resume | parallel completions | no shard twice, all accounted for | - |
| Promotion | `docflow*.go` | staged generation, managed roots, journal | build, activate, roll back | failure between renames | the old or the new generation | - |
| Runtime executor | `runtime_task_executor.go`, `providercommon` | process, budgets, timers | invoke, monitor, repair, kill | output, exit and timer race | one outcome within the budget | - |
| Refresh planning | `refreshplan`, `refresh_*.go` | baseline, plan | decide, preserve, materialize | partial baselines | nothing affected is preserved | - |
| Read-only views, documents, quality, prompts, scripts, CLI, panels that only draw | see `PROJECT.json` | none that outlives a call | parsing, rewriting, scoring, drawing | data, not control | their own tests | - |

How they meet: the API (and, through it, the task layer) calls StartAsyncRun,
CancelRun and GetRun of the service; a goroutine per run executes the steps and
calls back into the service to store progress.  The history file and the task registry
are two files without a common transaction.  The serve command reconciles the runs of
the previous process first and the attempts after them; the launcher attaches a
workspace, which reconciles its attempts, and reconciles the runs afterwards.  The
console talks to the API by requests that may fail, be answered late, be superseded (a
request gate keeps the newest) or be aborted; pages follow the address, and what a
user has typed lives in `localStorage`.

## How the modules compose

* `AskPanel` EXTENDS `PollingLoop`: every step of the drawer is a step of the loop or
  leaves it alone (`AskStepIsLoopStep`), and the loop's actions take place only with the
  drawer's own part of the step (`EnablePolling`, `PollTimer`, `refreshQARun`, ...).
* `PollingLoop` implements `PollingContract` (`INSTANCE ... WITH on <- enabled,
  awake <- ~isPaused, phase <- Phase`): the abstract loop is off, waiting or asking.
  The run `ask` checks the refinement with its liveness; `LoopKeepsContractSteps` proves
  the safety part for every bound.
* `RunService` implements `RunContract` (`INSTANCE ... WITH status <- [r \in RunIds |->
  Shown(runs[r])], slot <- active, next <- pending, closed <- closed`): what is left when
  goroutines, cancels, contexts, the history file and the Shutdown call are hidden.  The
  run `admission` checks the refinement, `ServiceKeepsContract` proves it.
* `Publication` composes the page, the API's Git handlers, the journal, the registry
  link, the runs and the other programs that write the repository.
* `TaskPages` has the Task registry behind the API as a service (`srv`), as `RunConsole`
  and `SetupEditor` have theirs; those services do what `TaskAttempts` and `RunService`
  say in detail, as far as a page can see it.

## Runs

Deadlock checking is off everywhere: users, runs, faults and clocks are bounded, so
every one of these systems may come to rest.

| run | module | properties | bounds | distinct states, time |
|---|---|---|---|---|
| `admission` | `RunService` | `TypeOK`, `SlotInv`, `PublishedIsDurable`, `CanceledOnlyIfAsked`, `CancelReachesRun`, `CleanShutdown`, `SlotHeldByLiveRun`, `ServesContract` | 3 requests, retention 2, 1 failed write, 1 shutdown, 1 restart | 3.3 M, 75 s |
| `settling` | `RunService` | `EveryRunSettles`, `ShutdownReturns` | 2 requests, no faults, no eviction | small |
| `crash` | `TaskAttempts` | `CapacityInv`, `OneAttemptPerRequest`, `RunHasDurableAttempt`, `OutcomeIsReal`, `TerminalAttemptIsFinal` | 2 tasks, 2 tokens, 2 attempts, 1 edit, 2 failed writes, 1 restart; symmetry | 1.8 M, 85 s |
| `mirror` | `TaskAttempts` | `MirrorCatchesUp` | 1 task, 1 attempt, archiving, 2 foreign runs, 2 failed writes, 1 reload | 0.5 M, 85 s |
| `archive` (violation) | `TaskAttempts` | `ArchivedCatchesUp` | 1 attempt | small |
| `ask` | `AskPanel` | `PollingInv`, `HistoryIsASet`, `ChosenStays`, `BusyIsReal`, `KeepsContract`, `AnswerArrives` | 2 runs, history of 2, 5 instances of the loop's effect, 1 offline spell, 2 operations | 0.7 M, 145 s |
| `tasks` | `TaskPages` | `InboxInv`, `ShownIsAddressed`, `ReviewIsOfShown`, `OwnStartIsFound`, `DraftIsSaved`, `CatchesUp` | 2 tasks, 2 filters, 2 pages, 2 attempts, 2 user events, 1 failure, another client acts once or twice on a task | 1.7 M, 160 s |
| `console` | `RunConsole` | `ConsoleInv`, `AskedRunIsSelected` | 2 runs, 2 async functions at once, 1 log line, 2 events, 1 failure | 2.8 M, 55 s |
| `setup` | `SetupEditor` | `EditorInv`, `ClearedIsSaved`, `BusyEnds` | 2 workspaces, 2 forms and one that does not build, 2 handlers, 2 events, 1 failure | 0.2 M, 120 s |
| `publish` | `Publication` | `PublicationInv`, `LinkIsRecoverable`, `CommittedIsConfirmed`, `BusyEnds` | 2 attempts, 2 messages, 2 trees, 3 commits, 5 events, 2 faults, 1 crash | 2.4 M, 205 s |
| `falselink` (violation) | `Publication` | `LinkIsExact` | 2 attempts, 1 message, 6 events, 2 crashes | small |
| `documents` | `CurrentDocuments` | `DocumentsInv`, `ReaderIsOfSelected`, `AddressIsAnswered` | 2 documents, 3 events, 2 faults | 0.5 M, 60 s |

`SlotInv`, `CapacityInv`, `InboxInv`, `ConsoleInv`, `EditorInv`, `PublicationInv` and
`DocumentsInv` join a module's types to the structural invariant that leans on them;
`SlotInv` implies `AtMostOneDriving`, and `PollingInv` implies `OneLiveRequest`.  That a
record goes queued, running, ended and never back (`TerminalIsFinal`, `LifecycleOrder`) is
part of `ServesContract`, and has theorems of its own.

## RunService

One action is one critical section of `s.mu`.  A run id stands for the pair
(StartedAt, RunID), since ids are drawn in clock order.  A record is abstracted to its
status, refined by the error code where a property needs it (`superseded` is
canceled/run_superseded, `reconciled` is failed/run_reconciled_after_restart).

| code | model |
|---|---|
| `s.runs`, the history file | `runs`, `history` |
| `s.activeRunID`, `s.pendingRun` | `active`, `pending` |
| `s.runCancels`, `s.cancelRequests`, canceled contexts | `cancels`, `cancelReq`, `ctxDone` |
| `s.closed`, the Shutdown call | `closed`, `shut`, `shutRun` |
| where a run's goroutine is, the failure it classified | `pc`, `plan` |
| callers of StartAsyncRun waiting for the lock | `requests`, `seq` |
| StartAsyncRun | `Arrive`, `RejectStart`, `StartNow`, `QueueFirst`, `QueueSupersede` |
| CancelRun | `CancelPending`, `CancelActive` |
| launchAsyncRun | `Launch`, `Refuse` (closed service) |
| runWithID | `Boot`, `Progress`, `Succeed`, `PartialFail`, `ExecutionError`, `Classify`, `StoreFailure` |
| finishAsyncRun | `Finish` |
| Shutdown and its waits | `Shutdown`, `ShutdownDone`, `ShutdownTimeout` |
| process stop, NewService, recoverStaleRunsAfterRestart | `Restart` |

`pc` goes launch, boot, exec, then finish on success; a failure passes through
`fail` (the explicit failure store), `guard` (the deferred guard of runWithID) and
`outer` (the guard of the goroutine) before `finish`, and a panic enters at `guard`.
`doomed` is an execution whose progress write failed: it goes on until the next step
boundary and then fails.  Every registry write goes through `Publish`: trim, write the
file, publish in memory only if the file was written; `ok` is FALSE when the write fails.

Which running run a restart resumes depends on shard files that change while the run
goes on, so `Restart` chooses any running run, or none (which is also the service
without the resume option).

### Runs

Three requests are the fewest with an active run, a pending run and a run that
replaces it; retention 2 lets a third terminal record evict one; a second failed write
repeats the same branch at another store.  Fairness (`settling`): each goroutine's steps
are weakly fair, because the Go scheduler runs every goroutine and an execution ends
(step timeouts, cancelable contexts); `Progress` is not required, nor are requests,
cancels, failures, restarts or the shutdown deadline.  Shutdown's poll is weakly fair.

What the properties excuse, because the code does it:

* `SlotHeldByLiveRun`: retention drops the record of the run that has just ended before
  `finishAsyncRun` looks at it; the slot is never released and the pending run never
  starts.  (Run 1 is active, 2 waits; 3 supersedes 2; when 1 ends it is the older of the
  terminal runs.  In the code this takes `historyRetention` newer terminal runs while one
  run is active.)  And when every terminal write of a run fails, its record stays in
  flight with no goroutine, and the slot stays taken until a restart.  No property
  forbids either.
* `CancelReachesRun` speaks of runs of this process: an accepted cancel is forgotten by a
  restart, which may resume the run.
* `ServesContract` (`Run` and `End` of a closed service): after a Shutdown that missed its deadline, a late progress callback
  puts back a record that retention dropped (`upsertRunsLocked` finds no terminal record
  to respect).

Two more statements of the documentation fail on this model: an accepted cancel may be
followed by succeeded or failed (success and partial failure do not consult the
request), and reconciliation writes a trimmed file while keeping the full map in memory.

### Proofs

`RunServiceProofs` proves, for every number of requests, retention, failed writes and
restarts, from `RunServiceConstants` (naturals, retention at least 1):

* `TypeCorrect`: `Spec => []TypeOK`.
* `SlotSafety`: `Spec => [](SlotInv /\ AtMostOneDriving)`.  Neither `AtMostOneDriving`
  nor `PendingIsParked` is inductive.  `SlotInv` is the second with `DrivingOwnsSlot` (a driving goroutine owns the slot and
  its record is in flight unless the service is closed, so `isActiveRunLocked` keeps
  starts out), `IdsFresh` (ids not admitted yet are unused) and `ShutdownTarget` (a
  waiting Shutdown captured a run other than the pending one).  Retention does not hurt
  because it drops terminal records only (`TrimKeepsInFlight`), and an upsert leaves
  every other run in flight as it is (`UpsertOne`, `UpsertTwo`).
* `Durability`: `Spec => []PublishedIsDurable`, and `Finality`: `Spec => TerminalIsFinal`.
  Both rest on `StepsWriteRegistry`: every critical section but a restart leaves the
  registry and the file alone or replaces both by the same registry, in which terminal
  records are terminal; a restart needs durability to know what it reads.

* `CancelsAreAsked`, `CancelsReach`, `ShutdownIsClean`, `SlotIsNotLeaked` and `RunsKeepOrder`
  state `CanceledOnlyIfAsked`, `CancelReachesRun`, `CleanShutdown`, `SlotHeldByLiveRun` and
  `LifecycleOrder`.  None is inductive and no two are independent, so they share
  `LifeInv`, by which a run in flight owns a slot (`InFlightOwnsSlot`), a Shutdown has
  canceled the context of what it waits for (`StopReaches`), and each property is joined
  to what its goroutine has already read: the failure it classified (`AskedInv`), the
  cancel request not yet turned into a context (`ReachInv`), the record finishAsyncRun
  will look for (`LeakInv`).  `SlotIsNotLeaked` needs an argument about numbers: retention
  drops a record only if `Retention` newer terminal ones are kept, so whoever finds a
  record dropped finds the registry full (`DroppedMeansFull`), and a full registry
  stays full (`TrimStaysFull`).  `LifeInv` was checked by TLC before it was proved.
* `ServiceKeepsContract`: `Spec => ServesContract`, the refinement of `RunContract` whole,
  since the contract has no fairness.  The contract says what the task layer and the HTTP
  handlers may rely on: only the records of the slot and of the pending run move, the slot
  passes only from a run that is over, a run that waits is started, replaced or canceled,
  and a restart goes on with at most one running run.  A failed write is no step of it, a
  goroutine's store is `Run`, `End` or `Drop` (`ContractWrite`), which needs the run to own
  the slot (`LifeInv`, `SlotInv`); for the store at Shutdown's deadline `WaitsForLaunched`
  adds that the run Shutdown waits for was launched.  The contract had to admit what the
  code does: a slot whose run has ended may be taken by a new run before the waiting one
  gets it, and a closed service may show a dropped record again.

Only model-checked: liveness.

## TaskAttempts

Handlers that change tasks or start runs hold `admissionMu`; the model has the one
handler that holds it (`adm`), the watchers, the runs and the server's own life.  An
attempt id stands for its run id too, because both are drawn fresh and together.

| code | model |
|---|---|
| `task-history.json`, the snapshots of the Registry objects, `s.taskRegistry` | `disk`, `mem`, `cur` |
| the run service: records, active and pending run, a run being resumed | `runs`, `active`, `pending`, `resuming` |
| the handler under the lease and where it is, the ids drawn | `adm`, `seq` |
| watcher goroutines, each with its registry and the record it read last | `watch` |
| the loop of reconcileTaskAttemptsAfterRestart | `todo`, `ReconcileAttempt` |
| `attemptWatchClosed` and the closed service | `stage`, `ShutdownBegins`, `ServiceCloses` |
| Registry.Update with Validate | `Update`, `Published`, `Valid` |
| task handlers | `CreateTask`, `PatchTask`, `ArchiveTask` |
| admission of a first attempt, of a retry or rerun | `AdmitRoot`, `AdmitChild`, then `StartRun` and `MirrorAdmitted`, or `StartRefused` and `UndoAdmission` |
| watchAdmittedAttempt | `WatchRead` (GetRun), `WatchApply` (compare and update) |
| settings and manifest routes | `ReloadRegistry` |
| other ways to start a run | `ForeignStart`, `ForeignQueue` |
| process stop, loadHistory, recoverStaleRunsAfterRestart | `Restart` |

The run service is the part of `RunService` that GetRun, Coordination and
HasInFlightRun show: records are trimmed by retention (runs outside the Task API are
not counted), a run goes queued, running, terminal, and the slot is released in a
later step than the terminal record.  Its own failed writes appear as a refused start.
A run started outside the Task API is `Foreign`: it takes a slot and has no attempt.

Time is a clock in ticks of `1/Second` of a second.  The registry keeps ticks (the
code nanoseconds), run history whole seconds, which is what `Restart` reads back
(`Truncate`).  `Valid` has the rules of Validate that a candidate of these handlers
can break; the summaries a task keeps of its attempts always agree with the attempts
and are merged with them.  A watcher that Server.Shutdown stops is one that takes no
further step.

### Runs

Two attempts are the fewest with a retry or with one waiting behind another; three
clock ticks, two to the second, have both a fraction and a full second.  `crash` has no
archiving, reload or foreign run, `mirror` has all three and no restart: together they
show behaviour of the code that the other run's properties exclude (below).  Two failed
writes let an admission and its compensation both fail.

Fairness (`mirror`): the handler that holds the lease, the reconciliation loop and each
watcher (a 250 ms ticker) are weakly fair.  Clients, runs, failed writes, reloads and
restarts are not, and `MirrorCatchesUp` promises nothing once shutdown has begun, the
run's record is gone, the task is archived, or the write of a reconciliation has failed
(the reconciliation of a reopened registry ignores the error of its update and watches no
terminal run: `task_attempts.go:445`).

`archive` shows that a task archived while its run is in flight never sees the end: the
update moves `last_activity_at` past `archived_at`, which Validate refuses.  The attempt
stays open, the watcher tries for ever, and every later start is answered `run_active`.

More of the code's behaviour that TLC found on this model, without a run of its own:

* after a restart the record read back has whole seconds and may seem to end before the
  attempt was admitted (`service_runs.go:877`); the update is refused and ignored;
* the request rebuilt for a resumed run has no Task and Attempt ids
  (`restart_reconcile.go:115`), so the attempt never ends;
* `/api/pipeline` starts with intent queue do not ask `validateTaskCapacity` and may
  replace a queued attempt;
* HasInFlightRun is FALSE as soon as the run's record is terminal, so the registry can be
  reopened before the watcher has mirrored the end; the watcher then writes its old
  snapshot over a task created meanwhile, or over an attempt closed meanwhile
  (`server.go:334`).  So `TerminalAttemptIsFinal` is no promise for ever: it holds while
  no watcher of a replaced registry is left.  `crash` checks it without reloads,
  `EndsAreFinal` proves it with reloads under that condition, and `MirrorCatchesUp`, which
  has a reload, asks only that the end of the run arrives.

### Proofs

`TaskAttemptsProofs`, from `TaskAttemptsConstants`, for any tasks, keys and numbers of
Attempts, foreign runs, failed writes and restarts.  The invariants are in two layers:

* `RegInv` (`TypeOK` and `HistInv`) holds for all constants.  Every content a registry
  object or the file has ever had obeys the uniqueness rules, and none names an Attempt
  not drawn yet, so an old watcher's snapshot may be lost work but is never a duplicate:
  `RequestsAreOnce`.
* `DurInv` holds for all constants as long as no watcher of a replaced registry is left
  (`NoOldWatcher`, the hypothesis of these theorems): a settings change with no watcher
  about reopens the file just as a restart does, whereas the snapshot of an old watcher
  replaces the file (the last item above), and a run may then be without its Attempt.  So
  the old watchers are the only way to lose one.  The hypothesis always holds with
  `MaxReloads = 0` (`OneRegistry`), as in the run `crash`.  `RunsInv`: an Attempt is
  never ahead of its run.  `WatchInv`: one watcher per Attempt, and the record it has read
  is the run's past or its end, which is why applying it late cannot reopen anything.
  `AdmissionInv` and `TodoInv` say the same of the handler between its two writes and of
  the loop after a restart.  From it: `RunsAreDurable`, `EndsAreFinal`, `OutcomesAreReal`
  and `OneAttemptWaits`.

These are all the properties of the run `crash`, which has no foreign run and does not
archive; the theorems have both.

## PollingContract, PollingLoop

One action is one turn of the browser's event loop.  An effect instance of
`usePollingLoop` is an `epoch` with its own timer, failure count, `inFlight` flag and
pause generation; the request of a disposed epoch may settle after the next one began.

| code | model |
|---|---|
| the effect and its cleanup | `Enable`, `Disable` |
| `visibilitychange`, `online`, `offline` | `VisibilityChange`, `GoOnline`, `GoOffline` (`Resume`) |
| the timer's callback | `TimerFires` |
| the poll's promise, back-off | `Settle` (`PollSettles`, `AfterPoll`, `Delay`) |

Fairness: the browser fires every timer, and every fetch settles, by answer, error or
abort.  What the user does and whether the tab sleeps is left open; the contract's
liveness speaks of tabs awake for good.  `PollingInv` is inductive: a loop that is wanted
and may ask has a timer or a request; offline, neither is left; `inFlight` is set exactly
while the current epoch's request is out, and requests of older epochs are aborted.

`AskPanelProofs` begins with the loop's own proofs, for all constants: `LoopInvariant` (`Spec => []PollingInv`, one
lemma per kind of event), `NoRequestChurn` (`Spec => []OneLiveRequest`, a consequence),
and `LoopKeepsContractSteps` (the initial states and each step, by the same invariant,
map to the contract or to a stutter); `DrawerKeepsContractSteps` says the latter of the
composition with the drawer.  The contract's liveness is model-checked (`ask`).

## AskPanel

State: what the service knows of each run (`svc`), the mounted panel with shown run,
history, busy flag, dialog, list and detail request (`pan`), the POST, the proposal
draft, the run of the live poll (`target`), and the history variable `want`, the run the
user selected or started last.  A row is a run with active or ended.

| code | model |
|---|---|
| mounting, unmounting | `OpenAsk`, `CloseAsk` |
| loadHistory, refresh button, `mergeQARunHistory` | `RefreshHistory`, `ServeList`, `DeliverList`, `ListFails` |
| `claimQASelection`, handleSelectRun, reloadSelectedAnswer | `Claim`, `SelectRun`, `DeliverDetail`, `DetailFails` |
| startQARun | `Ask`, `ServePost`, `DeliverPost`, `PostFails` |
| refreshQARun in the polling loop | `PollTimer`, `refreshQARun`, `PollFails`, `PollAborted` |
| proposal dialog | `openProposalConfirmation`, `handleCreateProposalDraft`, ... |

A read is answered when it is delivered, by anything between what was so when it was
sent and what is so now (`Answers`).  The limit of two rows makes the history full; five
effect instances are needed for a question to be asked, ended, and asked again while the
page is offline once.  Fairness: effects run, timers fire, requests settle.

`AskPanelProofs`, for any number of runs and any limit: `ChosenRunStays` and
`HistoryStaysASet` from `AskInv`, whose core is that a detail request under way is always
for the shown run (`PanOK`); `MergeGood` is the lemma about `mergeQARunHistory`.
`AskStepIsLoopStep` carries the loop's invariant over to the drawer (`DrawerKeepsLoop`,
`DrawerHasNoChurn`).  `BusyStaysReal` is proved beside `AskInv`: a claim that
supersedes the first detail of a started run ends its startQARun (`ClaimBusy`).
Model-checked only: `AnswerArrives`, the refinement's liveness.

What the code does that no property forbids: `selectedLoading` stays set when a question
supersedes a selection's loading (`AskStagePanel.tsx:186`); the proposal dialog opened on
one run drafts the answer of the run shown at confirmation under the first one's title
(`:206`); a proposal that arrives closes whichever drawer is open; of two runs started
while the first list is loading, only the shown one is kept; a late detail may set a
finished run back to running until the next poll; the shown run may be cut off the
history by newer ones.

## TaskPages

One page is mounted; `reqs` are the requests that may still have an effect, each sent,
answered by the service (`Answer`, or `Fails`) and delivered (`Deliver`).  `AbortLoad` is
the clean-up of a load effect, `Unmounted` that of a page.  `page` is the React state of
the page, `draft` the composer's stored draft, `Key` the idempotency token, drawn per
mounted composer or page.

| code | model |
|---|---|
| routes, browser history | `OpenTask`, `ChangeFilter`, `OpenAttempt`, `OpenStudio`, `Back`, `Leave`, `Jump`, ... |
| TaskInbox | `LoadMore`, `RetryList`, `DeliverInbox` |
| TaskDetail, AttemptDetail, PipelineStudio | `RetryLoad`, `StartPoll`, `StopPoll`, `DeliverMain`, `DeliverReview`, `AdmitFirstAttempt`, `ArchiveTask` |
| TaskComposer | `Type`, `Submit`, `DeliverCreate`, `DeliverStart`, `OpenCreated`, `ReadinessChanges` |

`ShownIsAddressed` and `ReviewIsOfShown` speak of a page whose load has ended (state
"loaded"); while it is loading, or after the load failed, it may still hold what it
showed before.  `crossed` is a history variable that marks what they excuse besides: a page that switches Task or Attempt in place leaves its polls and its archive and
admission requests running.  A composer left while it is busy clears the draft typed into
the next one and navigates away from it; `DraftIsSaved` needs no excuse for that, since
the next one is closed in the same step.

`AnswerAdmission` follows the order of handleTaskAttemptAdmission: an archived Task is
refused before the key is looked up; a known key must have been used at the same Task
revision (the fingerprint), or the answer is `idempotency_conflict`; a new start needs a
Task without Attempts and a registry in which no Attempt of any Task is queued or running,
and is refused too while another run holds the run service or the service refuses it.
`TaskChanged` is another client that edits, archives or unarchives the Task.  A Task whose
scope left the workspace, and a runtime that is not selected, are errors (`Fails`).

`OwnStartIsFound` is what the key is worth to a user whose first answer was lost: the
second press finds the Attempt of the first and starts nothing more, while the Task is open
and at the revision it was started with.  It cannot promise more.  If the Task was archived
in between, the repeat is refused (`task_attempts.go:124`); if it was edited, or archived
and unarchived, the repeat is an `idempotency_conflict` (`:132`) on account of the page's own
Attempt.  And it helps the Task page only: the composer keeps its key, but its second press
creates a second Task, for which the key is new, and the start of that is refused with
`run_active` because of the Attempt the first press had started (`TaskComposer.tsx:79`).

The property speaks of the answer, not of the page.  A page may still report a refusal
for a Task it did start: with six user events, a start is refused because the Task is
archived, the page switches Task in place and back, the Task is unarchived, the second
press is admitted, and then the first refusal arrives; the `catch` and `finally` of
`admitFirstAttempt` (`TaskRouteContainer.tsx:281`) set the message and the busy flag of
whatever page is there.

Bounds: two user events are a press and its repetition, or two pages; other clients act on
a Task while its revision and Attempts add up to less than `MaxHistory`, which allows one
retry, or one or two changes of it.  The first filter is fixed because filters are alike,
and the stored draft is a text because the user can empty it.  First Attempts by other
clients are seen as refusals only.

Fairness: the loop comes round and reads are answered and delivered; `CatchesUp` needs
neither users nor admissions.  It asks for Task and Attempt only, because the outcome
may never arrive: the poll that brings the terminal Attempt disables the loop
(`usePollingLoop.ts:109`), whose clean-up aborts that poll's own request for the review
(`TaskRouteContainer.tsx:296`), and nothing asks again until the page is reloaded
(`docs/UI_TASK_FIRST_PRODUCT_DESIGN.md:147` wants a Task that ended opened on its outcome).  Also
seen: a new submission after a failed admission creates a second Task; going back in
the browser leaves Setup without its confirmation.

`TaskPagesProofs`, from `TaskPagesConstants`: all five safety properties, for any Tasks,
filters, pages of the Inbox, Attempts, user events and failures.  None of them is
inductive: a late answer would break each.  `PagesInv` says what every request in flight
is for.  `ReqsOK`: a request belongs to the page that is open (`own`) or only acts on the
service, its token is `Key` of its page, and its answer is of the kind it asked for.
`InboxOK`: one list request at most, and the one for more asks for the page after those
listed.  `EntityOK`: unless `crossed`, one load or poll at most, for the address; a
review under way is of the Attempt on the page; a poll of a Task found it active, so its
page has no review.  The last needs `OnlyLastActive` of the service: only the last
Attempt of a Task is queued or running.  `OwnStartsAreFound` follows from the keys in
`SrvOK`: what a page started is recorded under that page's key, which is what it presses
Start with again (`OwnStartIsSame`); the rest is that nothing else answers a start.

## RunConsole

An async function of the hooks is a process in `procs` (`Free` is none) that stops at every await: a
selection (`SelectStatus`, `SelectArtifacts`, `SelectLogs`, `UntilEOF`), a poll
(`PollList`, `PollStatus`, `PollArtifacts`, `PollPage`) or a bootstrap (`BootstrapBegins`,
`BootstrapList`, `BootstrapEnds`).  `ui` has the state and the refs, the gates as the
process that holds them; `route` is the run in the address, `RouteEffect` the effect that
follows it, `Visit` the browser's history: a run can be visited only once the console is
ready, since until then every address is the one of Setup (`App.tsx:262`).  Two processes are the fewest that overlap; a
page of logs is a line or none, two pages are the most one function reads.

`ConsoleInv` speaks of status, snapshot, inventory and open artifact.  Log lines are left
out of it because they do mix: after the first page `handleSelectRun` fetches the rest
without looking at the selection again (`useRunActions.ts:116`), though
`docs/archive/PLANS_ARCHIVE_2026-09.md:1456` has stale runs ignored.  `AskedRunIsSelected` excuses a
bootstrap that failed: it leaves the newest run selected.  Also seen: a poll's status
request takes the gate of a selection's and is then aborted, and the status stays away
until the next poll (`useRunActions.ts:63`); `clearRunSelection` does not abort the
status gate; `restoredRouteRunRef` outlives its address (`App.tsx:697`); an active run's
log is taken to be at its end when a page has no more lines, which stops following it
(`useRunLogs.ts:106`); when the logs of the selected run fail, snapshots are reloaded
without end.

`RunConsoleProofs`, from `RunConsoleConstants`: both properties, for any runs of which one
is the newest, any number of overlapping functions, log lengths, events and failures.
`ScreenInv` adds to them who waits for what: a function has the gate of the status or
of the snapshot only at the await it took it for, and then its run is the selected one or
none is selected (`Holder`); so an answer that is delivered at all is the selected
run's.  `AskedOK` is `AskedRunIsSelected` for the states on the way: what was asked for is
selected unless a bootstrap is under way (`Booting`, which goes through the selection it
awaits), or the run is gone and not listed.  A poll replaces the selected run
only when the list no longer has it, and retention drops a run only for a newer one
(`NewestKept`), so the list is not empty then and the poll's last resort, asking for the
status of a run nobody lists (`useRunUpdatePolling.ts:59`), is not reached.  `NewestOK` gets the newest
run of a set from the well-foundedness of the order, which needs no induction.

## SetupEditor

A handler is a process with the calls it still awaits (`todo`): `Serve`, `Fail`, then
`Reply`.  A step ends with the effects of its React commit (`Commit`): the restoring and
the storing of drafts (`KeyEffect`, `WriteEffect`).  Texts are abstracted to the form
they build and whether they say more than the form can; `Parse` and `Build` are the
conversions.  Fairness: calls are answered and answers delivered.

`ClearedIsSaved` is about edits during saves, `EditorInv` about the stored draft,
`BusyEnds` about every button.  What TLC finds and no run states: when the workspace's
key arrives or changes after the first edit, the text of one workspace is stored as the
draft of the other (`useManifestEditor.ts:64`; `docs/PLANS.md:232` wants drafts isolated
by workspace); a raw save after edits of the form alone loses them; a guided save drops
the YAML that the form does not model; saves go to the attached workspace, not to the one
whose path is shown; the one busy flag lets two saves overlap (entering the console and
saving sources end outside it); answers of validation and doctor about older text are
shown; settings rewrite `workspace.yaml`, and a later save of the older text undoes them;
the server's handlers write from the manifest in memory over hand edits (`server.go:347`).

`SetupEditorProofs`, from `SetupConstants` and `NoDraft` (an absent entry of localStorage
is no draft): `UnsavedEditsAreStored` and `DraftsAreGivenUpForSaves`, from `SetupInv`.
The proof goes along the chain that makes a step: one lemma for each change of a pending
state (`StateOK`), and `CommitOK` for the two effects at its end, whatever the chain was.
Neither property is inductive by itself.  That an answer fits its call (`GotOK`) keeps a
load from emptying the form; and `CurrentOK` says why comparing texts is enough at the
end of a guided save: every edit and every restored draft revokes `cur`, a load may
replace the text while a save is out, but a loaded text that equals the sent one brings
its form along.  `Kept` is the step's other half: nothing but that end of a save makes a
draft disappear.  Only model-checked: `BusyEnds`.

## Publication

The page (`ui`: inventory, its request, dialog, busy), its POST, the API's handler under
the admission lock (`prepare`, `git`, `record`, `clear`), journal, repository and registry
links.  An Attempt stands for the Task, Attempt and run it names.  A tree is the content
of all files; a commit keeps who asked for it (`by`), its branch (`on`) and whether another
program wrote between check and `git add` (`raced`).

| code | model |
|---|---|
| useGitDiff, useRequestGate | `LoadDiff`, `ServeDiff`, `DeliverDiff`, `DiffFails`, `Superseded` |
| useGitActions | `Prepare`, `DeliverPrepare`, `Cancel`, `Confirm`, `DeliverPost`, `DeliverAfter` |
| handleGitCommit, handleGitBranch | `Take`, `WriteIntent`, `Mutate`, `MutateFails`, `Record`, `Clear`, `StoreFails` |
| reconcilePendingTaskPublications | `Restart`, `Applied` |
| runs, other programs | `StartRun`, `FinishRun`, `Edit`, `ForeignCommit` |

Fairness: the service is restarted and answers, the page takes what arrives.
`falselink`: two Attempts' intents survive crashes, the second one's commit is there,
and the first intent in the journal is proved by it, since only parent, branch and message are
compared.  Not forbidden, and seen: a failed link followed by a checkout or another
commit is no longer recoverable; reconciliation takes place only at start and attach; a
closed tab cancels the request, kills git after its commit and clears the intent; gates
are checked when the dialog opens and not when it is confirmed; files written between the check and
`git add -A` are committed (`server.go:1244`).

The journal is a function from numbers, in the order written, to intents.  `forgotten` is
a history variable: the commits whose intent a later, failed mutation has cleared.
With two faults TLC loses a link without a crash: the registry write of an Attempt's
commit fails, the user edits and commits again for the same Attempt, git fails
(`server.go:1244-1262`), and `clearTaskPublicationIntent` clears every intent of Attempt
and action, the earlier one included.  The documents promise more: "either ordering
remains recoverable on restart" (`docs/spec/TASK_SPEC.md:182`).  `LinkIsRecoverable`
excuses that commit and no other.

`PublicationProofs`, from `PublicationConstants`: `PublicationIsSafe`,
`CommitsAreConfirmed` and `LinksAreRecoverable`.  The inductive invariant `PubInv` adds to the types and the
exclusion of runs that until git runs the handler's fingerprint is the repository's
(`StillConfirmed`); only another program's write ends that, and marks the handler
`raced`.  `LinkIsRecoverable` speaks of a repository at rest; `LinkInv` says the same of
every state, crashes included, and adds that the handler's intent is journaled before
git runs and cleared after the link (`HandlerJournals`), and that the main branch
is left once and before any proposal commit (`MainFirst`), so that no checkout brings back a HEAD whose
intent is gone.  Only model-checked: `BusyEnds`.

## CurrentDocuments

`inv` is the inventory: two lists (architecture, knowledge), a status and the request
under way, which asks for the first, then for the second, or for the second alone when
the first failed.  `addr` is the address, `load` the request of the current-artifact gate
(an opening, or the effect's), `prop` the ungated load of a new proposal, `shown` the
document on the page, `reader` the Architecture page's reader, `told` (history) whether a
notice was given for this address.  `Effects` are the effects of a render, in the order
of the code; answers come in between.  The bootstrap has begun the first refresh.

Fairness: effects run, the inventory's and the address's requests and live reads settle.
Not forbidden, and seen: an opening that fails while the page's own load is in flight has
aborted that load, and the notice names the other document only (`App.tsx:626`); an
opening that is under way when a refresh settles is dropped without a word; a proposal
just created is not in the inventory yet, and is reported missing (`App.tsx:753`); its
load has no gate and moves a page that went on; a rejected read leaves the reader at
"Loading document" (`KnowledgePage.tsx:233`); the Markdown editor is never reached, since
the inventory lists no document it may edit; the inventory is kept when the workspace is
exchanged.

`CurrentDocumentsProofs`, from `DocumentsConstants`: `DocumentsAreListed` and
`ReaderShowsSelected`, from `DocInv`.  Neither is inductive without `ReaderInv`: a read
that is still live is of the selected document, since the clean-up of the effect lowers
the flags of the older ones, and once the effects have run the reader's selection is the
one the inventory and the address make.  Only model-checked: `AddressIsAnswered`.

## What is proved, and what is not

| module | theorems | from |
|---|---|---|
| `RunServiceProofs` | `TypeCorrect`, `SlotSafety`, `Durability`, `Finality`, `CancelsAreAsked`, `CancelsReach`, `ShutdownIsClean`, `SlotIsNotLeaked`, `RunsKeepOrder`, `ServiceKeepsContract` | `RunServiceConstants` |
| `TaskAttemptsProofs` | `RequestsAreOnce`; under `[]NoOldWatcher` also `RunsAreDurable`, `EndsAreFinal`, `OutcomesAreReal`, `OneAttemptWaits` | `TaskAttemptsConstants` |
| `PublicationProofs` | `PublicationIsSafe`, `CommitsAreConfirmed`, `LinksAreRecoverable` | `PublicationConstants` |
| `CurrentDocumentsProofs` | `DocumentsAreListed`, `ReaderShowsSelected` | `DocumentsConstants` |
| `AskPanelProofs` (loop) | `LoopInvariant`, `NoRequestChurn`, `LoopKeepsContractSteps` | `PollingConstants` |
| `AskPanelProofs` (drawer) | `ChosenRunStays`, `HistoryStaysASet`, `BusyStaysReal`, `DrawerKeepsLoop`, `DrawerHasNoChurn`, `DrawerKeepsContractSteps` | `AskConstants`, `PollingConstants` |
| `TaskPagesProofs` | `PagesInvHolds`, `InboxIsSafe`, `PagesShowTheirAddress`, `ReviewsAreOfTheShown`, `DraftsAreSaved`, `OwnStartsAreFound` | `TaskPagesConstants` |
| `RunConsoleProofs` | `ScreenInvHolds`, `ScreenIsOfSelectedRun`, `AskedRunEndsSelected` | `RunConsoleConstants` |
| `SetupEditorProofs` | `SetupInvHolds`, `UnsavedEditsAreStored`, `DraftsAreGivenUpForSaves` | `SetupConstants`, `NoDraft` |

Every safety property of a passing run is a theorem, those of `TaskAttempts` other than
`RequestsAreOnce` for a process that reopens its registry only when no watcher is left.  The liveness properties
(`EveryRunSettles`, `ShutdownReturns`, `MirrorCatchesUp`, `KeepsContract` beyond its
steps, `AnswerArrives`, `CatchesUp`, the two `BusyEnds`, `AddressIsAnswered`) are
model-checked only: fairness and ENABLED are beyond the prover's reach.

## Not modelled

The content of records (artifacts, warnings, providers, timestamps beyond their
order), log clean-up, runs executed synchronously by `Service.Run`, the `.last-good`
copies of both histories, and the launcher's order of reconciliation (see the hazard at
`onboarding.go:74`).  In the console: hints, texts, focus, layout, pan and zoom, path
suggestions, the panels that draw the run they are given, and entity evidence.  Still
without a module: the shard scheduler, promotion, the runtime engine, refresh planning
and the history store's fallback, in the order in which they should follow.
`PROJECT.json` lists every component left out, with the reason.
