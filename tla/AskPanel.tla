------------------------------ MODULE AskPanel ------------------------------
(***************************************************************************)
(* The Ask drawer of the web console (features/qa/AskStagePanel.tsx)       *)
(* composed with its polling loop (PollingLoop): a history of Q&A runs, one *)
(* shown run, and four kinds of late answer that may touch it: the history *)
(* list, the detail of a selected or started run, the POST that starts a   *)
(* run, and the poll of the shown run.                                     *)
(*                                                                         *)
(* A request gate (useRequestGate) aborts the older request, so only the   *)
(* newest list and the newest detail are kept.  Every claim of the         *)
(* selection begins a detail request, so the gate decides for both.        *)
(***************************************************************************)
EXTENDS PollingLoop, Sequences

CONSTANTS
  Runs,        \* Q&A runs in the order of their start
  None,        \* null
  Limit,       \* rows of the history (20)
  MaxMoves     \* bound: operations of the user, runs of others, failed requests

Status == {"absent", "active", "ended"}

\* A row of the history, or the shown run: what the panel last heard of it.
\* Whether an ended run has an answer to propose is data, and left open.
Row == [id : Runs, st : Status]

ASSUME AskConstants ==
  /\ Runs \subseteq Nat
  /\ Limit \in Nat \ {0}
  /\ None \notin Runs /\ None \notin Row
  /\ None \notin [run : Runs \cup {None}]
  /\ None \notin [run : Runs, why : {"initial", "select", "start"}, low : Status]

VARIABLES
  svc,     \* what the service knows of each run
  pan,     \* the mounted panel
  post,    \* POST /api/qa/runs of the mounted panel: None or [run]
  draft,   \* POST .../proposal-draft under way: None or the run it names
  target,  \* the run the live poll asks for, and its status when asked
  want,    \* history variable: the run the user chose or started last
  moves    \* what happened of the kinds MaxMoves bounds

askVars == <<svc, pan, post, draft, target, want, moves>>
AskVars == <<vars, askVars>>

Known == {r \in Runs : svc[r] # "absent"}

RowOf(r, st) == [id |-> r, st |-> st]

\* queued or running: qaRunActive.
Answering == pan.run # None /\ pan.run.st = "active"

Closed == [open |-> FALSE, run |-> None, hist |-> <<>>, busy |-> FALSE,
           dialog |-> FALSE, list |-> None, detail |-> None]

AskInit ==
  /\ Init
  /\ svc \in {f \in [Runs -> Status] :
                \A r, s \in Runs : r < s => f[s] = "absent"}
  /\ pan = Closed /\ post = None /\ draft = None /\ target = None
  /\ want = None /\ moves = 0

Move == moves < MaxMoves /\ moves' = moves + 1

Cut(s) == SubSeq(s, 1, Least(Len(s), Limit))
Listed(r, hist) == \E i \in DOMAIN hist : hist[i].id = r

\* Mutant of mergeQARunHistory: a run already listed is added once more.
mergeTwice(row, hist, mode) ==
  IF mode = "preserve" THEN Cut(Append(hist, row)) ELSE Cut(<<row>> \o hist)

mergeQARunHistory(row, hist, mode) ==
  IF Listed(row.id, hist)
    THEN Cut([i \in DOMAIN hist |-> IF hist[i].id = row.id THEN row ELSE hist[i]])
    ELSE IF mode = "preserve" THEN Cut(Append(hist, row)) ELSE Cut(<<row>> \o hist)

\* Mutant of Show: the answer reaches the history, and not the shown run.
ShowInHistory(p, row, mode) == [p EXCEPT !.hist = mergeQARunHistory(row, @, mode)]

\* setQARun and setRunHistory with an answer about the shown run.
Show(p, row, mode) == [p EXCEPT !.run = row, !.hist = mergeQARunHistory(row, @, mode)]

\* Mutant of Claim: a startQARun whose detail request is aborted stays busy.
ClaimStaysBusy(p, row, why) ==
  [p EXCEPT !.run = row,
            !.detail = [run |-> row.id, why |-> why, low |-> svc[row.id]]]

\* claimQASelection and detailRequest.begin: the older detail request is aborted, and
\* the startQARun that awaited it ends.
Claim(p, row, why) ==
  [p EXCEPT !.run = row,
            !.busy = @ /\ (why = "start" \/ p.detail = None \/ p.detail.why # "start"),
            !.detail = [run |-> row.id, why |-> why, low |-> svc[row.id]]]

\* What a read begun when the service said low may answer.
Answers(r, low) == {low, svc[r]}

\* The composer's button, and the recovery's "retry".
AskDisabled == pan.busy \/ Answering

\* The answer panel offers a proposal for a finished answer.
Proposable == pan.run # None /\ pan.run.st = "ended"

-----------------------------------------------------------------------------
OpenAsk ==
  /\ ~pan.open /\ ~enabled
  /\ pan' = [Closed EXCEPT !.open = TRUE, !.list = [why |-> "initial", got |-> None]]
  /\ want' = None
  /\ UNCHANGED <<vars, svc, post, draft, target, moves>>

\* The drawer unmounts: requests behind a gate are aborted, the rest answer to nobody.
CloseAsk ==
  /\ pan.open /\ Move
  /\ pan' = Closed /\ post' = None /\ want' = None
  /\ UNCHANGED <<vars, svc, draft, target>>

RefreshHistory ==
  /\ pan.open /\ ~pan.dialog /\ Move
  /\ pan' = [pan EXCEPT !.list = [why |-> "manual", got |-> None]]
  /\ UNCHANGED <<vars, svc, post, draft, target, want>>

\* handleQARunsList: the newest Q&A runs, in descending order of their start.
NewestFirst(rows) ==
  /\ \A i, j \in DOMAIN rows : i < j => rows[i].id > rows[j].id
  /\ \A r \in Known : Listed(r, rows) \/ (Len(rows) = Limit /\ \A i \in DOMAIN rows : rows[i].id > r)

ServeList ==
  /\ pan.list # None /\ pan.list.got = None
  /\ \E n \in 0..Limit :
       \E rows \in [1..n -> {RowOf(r, svc[r]) : r \in Known}] :
         NewestFirst(rows) /\ pan' = [pan EXCEPT !.list.got = rows]
  /\ UNCHANGED <<vars, svc, post, draft, target, want, moves>>

\* The history with the shown run kept in it; the first history selects its newest run
\* unless a run was claimed meanwhile.
Merged(items) ==
  LET p == [pan EXCEPT !.list = None,
                       !.hist = IF pan.run = None THEN items
                                ELSE mergeQARunHistory(pan.run, items, "preserve")]
  IN IF pan.list.why = "initial" /\ items # <<>> /\ pan.run = None
       THEN Claim(p, items[1], "initial") ELSE p

DeliverList ==
  /\ pan.list # None /\ pan.list.got # None
  /\ pan' = Merged(pan.list.got)
  /\ UNCHANGED <<vars, svc, post, draft, target, want, moves>>

ListFails ==
  /\ pan.list # None /\ Move
  /\ pan' = [pan EXCEPT !.list = None]
  /\ UNCHANGED <<vars, svc, post, draft, target, want>>

-----------------------------------------------------------------------------
\* handleSelectRun, with the row as the history shows it.
Select(row) ==
  /\ Move
  /\ pan' = Claim(pan, row, "select")
  /\ want' = row.id
  /\ UNCHANGED <<vars, svc, post, draft, target>>

SelectRun == pan.open /\ ~pan.dialog /\ \E i \in DOMAIN pan.hist : Select(pan.hist[i])

\* The button of the proposal dialog.
reloadSelectedAnswer == pan.dialog /\ draft = None /\ pan.run # None /\ Select(pan.run)

\* The detail request ends, and with it the handler that awaits it.
DetailEnds(p) ==
  [p EXCEPT !.detail = None, !.busy = @ /\ pan.detail.why # "start"]

DeliverDetail ==
  /\ pan.detail # None
  /\ \E st \in Answers(pan.detail.run, pan.detail.low) :
       pan' = DetailEnds(Show(pan, RowOf(pan.detail.run, st),
                              IF pan.detail.why = "start" THEN "prepend" ELSE "preserve"))
  /\ UNCHANGED <<vars, svc, post, draft, target, want, moves>>

DetailFails ==
  /\ pan.detail # None /\ Move
  /\ pan' = DetailEnds(pan)
  /\ UNCHANGED <<vars, svc, post, draft, target, want>>

\* handleAsk, or handleRetryQA under a failed answer: startQARun up to its POST.
Ask ==
  /\ pan.open /\ ~pan.dialog /\ ~AskDisabled /\ Move
  /\ pan' = [pan EXCEPT !.busy = TRUE]
  /\ post' = [run |-> None]
  /\ UNCHANGED <<vars, svc, draft, target, want>>

\* Runs are started in their order.
Starts(r) == r \notin Known /\ (\A s \in Runs : s < r => s \in Known)

\* handleQARunsPost starts the next run.
ServePost ==
  /\ post # None /\ post.run = None
  /\ \E r \in Runs :
       /\ Starts(r)
       /\ svc' = [svc EXCEPT ![r] = "active"]
       /\ post' = [run |-> r]
  /\ UNCHANGED <<vars, pan, draft, target, want, moves>>

\* The accepted run is shown at once, from a provisional record.
DeliverPost ==
  /\ post # None /\ post.run # None
  /\ LET row == RowOf(post.run, "active")
     IN pan' = Claim(Show(pan, row, "prepend"), row, "start")
  /\ want' = post.run
  /\ post' = None
  /\ UNCHANGED <<vars, svc, draft, target, moves>>

PostFails ==
  /\ post # None
  /\ IF Known = Runs /\ post.run = None THEN UNCHANGED moves ELSE Move
  /\ post' = None
  /\ pan' = [pan EXCEPT !.busy = FALSE]
  /\ UNCHANGED <<vars, svc, draft, target, want>>

-----------------------------------------------------------------------------
openProposalConfirmation ==
  /\ Proposable /\ ~pan.dialog /\ Move
  /\ pan' = [pan EXCEPT !.dialog = TRUE]
  /\ UNCHANGED <<vars, svc, post, draft, target, want>>

CancelProposal ==
  /\ pan.dialog /\ draft = None /\ Move
  /\ pan' = [pan EXCEPT !.dialog = FALSE]
  /\ UNCHANGED <<vars, svc, post, draft, target, want>>

\* The dialog's confirm button; the run has an answer digest only once it has ended.
handleCreateProposalDraft ==
  /\ pan.dialog /\ draft = None /\ pan.run.st = "ended" /\ Move
  /\ draft' = pan.run.id
  /\ UNCHANGED <<vars, svc, pan, post, target, want>>

\* handleQAProposalCreated of the app closes the drawer, whichever one is open by then.
DeliverProposal ==
  /\ draft # None
  /\ draft' = None
  /\ pan' = Closed /\ post' = None /\ want' = None
  /\ UNCHANGED <<vars, svc, target, moves>>

ProposalFails ==
  /\ draft # None
  /\ draft' = None
  /\ UNCHANGED <<vars, svc, pan, post, target, want, moves>>

-----------------------------------------------------------------------------
(* The service: another client, or a POST whose drawer was closed, starts a run. *)
RunStarts ==
  /\ \E r \in Runs : Starts(r) /\ svc' = [svc EXCEPT ![r] = "active"]
  /\ Move
  /\ UNCHANGED <<vars, pan, post, draft, target, want>>

RunEnds ==
  /\ \E r \in Known : svc[r] = "active" /\ svc' = [svc EXCEPT ![r] = "ended"]
  /\ UNCHANGED <<vars, pan, post, draft, target, want, moves>>

-----------------------------------------------------------------------------
(* The loop: usePollingLoop with enabled = Answering and poll = refreshQARun.      *)
EnablePolling  == Answering /\ Enable /\ UNCHANGED askVars
DisablePolling == ~Answering /\ Disable /\ UNCHANGED askVars

BrowserEvent ==
  /\ VisibilityChange \/ GoOnline \/ GoOffline
  /\ UNCHANGED askVars

\* The poll asks for the run that is shown when the timer fires.
PollTimer ==
  /\ TimerFires
  /\ target' = IF calls' = calls \/ pan.run = None THEN target
               ELSE [run |-> pan.run.id, low |-> svc[pan.run.id]]
  /\ UNCHANGED <<svc, pan, post, draft, want, moves>>

\* Mutant of Refreshed: the answer is shown whatever is selected by now.
RefreshedAny(st) == pan.run # None /\ target # None /\ st \in Answers(target.run, target.low)

\* refreshQARun applies an answer only while its run is still the selected one.
Refreshed(st) ==
  /\ pan.run # None /\ target # None /\ pan.run.id = target.run
  /\ st \in Answers(target.run, target.low)

Live(c) == c.epoch = epoch /\ ~c.aborted

refreshQARun ==
  /\ \E c \in calls : Live(c) /\ PollSettles(c, TRUE)
  /\ \/ \E st \in {"active", "ended"} :
          Refreshed(st) /\ pan' = Show(pan, RowOf(target.run, st), "preserve")
     \/ (\A st \in {"active", "ended"} : ~Refreshed(st)) /\ UNCHANGED pan
  /\ target' = None
  /\ UNCHANGED <<svc, post, draft, want, moves>>

PollFails ==
  /\ \E c \in calls : Live(c) /\ PollSettles(c, FALSE)
  /\ Move
  /\ target' = None
  /\ UNCHANGED <<svc, pan, post, draft, want>>

PollAborted ==
  /\ \E c \in calls : ~Live(c) /\ PollSettles(c, TRUE)
  /\ UNCHANGED askVars

AskNext ==
  \/ OpenAsk \/ CloseAsk
  \/ RefreshHistory \/ ServeList \/ DeliverList \/ ListFails
  \/ SelectRun \/ reloadSelectedAnswer \/ DeliverDetail \/ DetailFails
  \/ Ask \/ ServePost \/ DeliverPost \/ PostFails
  \/ openProposalConfirmation \/ CancelProposal \/ handleCreateProposalDraft
  \/ DeliverProposal \/ ProposalFails
  \/ RunStarts \/ RunEnds
  \/ EnablePolling \/ DisablePolling \/ BrowserEvent
  \/ PollTimer \/ refreshQARun \/ PollFails \/ PollAborted

Effects == EnablePolling \/ DisablePolling
Polling == PollTimer \/ refreshQARun \/ PollFails \/ PollAborted
Requests ==
  \/ ServeList \/ DeliverList \/ DeliverDetail
  \/ ServePost \/ DeliverPost \/ PostFails \/ DeliverProposal

\* Effects run, timers fire and requests settle; the user and the runs owe nothing.
AskFairness == WF_AskVars(Effects) /\ WF_AskVars(Polling) /\ WF_AskVars(Requests)

AskSpec == AskInit /\ [][AskNext]_AskVars /\ AskFairness

-----------------------------------------------------------------------------
(* The history of mergeQARunHistory names every run once and never outgrows the   *)
(* limit, although lists, details, polls and started runs are merged in any order; *)
(* the shown run is in it unless it is full of others.                             *)
HistoryIsASet ==
  /\ \A i, j \in DOMAIN pan.hist : pan.hist[i].id = pan.hist[j].id => i = j
  /\ Len(pan.hist) <= Limit
  /\ pan.run # None => Listed(pan.run.id, pan.hist) \/ Len(pan.hist) = Limit

(* A run the user selected (handleSelectRun) or started (startQARun) stays on      *)
(* screen: no late list, detail or poll of another run takes its place, and the    *)
(* row shown of it is never another run's.                                         *)
ChosenStays == want # None => pan.run # None /\ pan.run.id = want

(* The button of the composer is never stuck: startQARun is busy only while its    *)
(* POST or the first detail of the run it started is under way, also when another  *)
(* selection, a reload of the shown answer or closing the drawer cuts it short.    *)
BusyIsReal ==
  pan.busy => post # None \/ (pan.detail # None /\ pan.detail.why = "start")

Behind == Answering /\ svc[pan.run.id] = "ended"

(* With the tab awake for good, the shown run's end reaches the screen through the *)
(* polling loop, whatever was selected, started or aborted before.                 *)
AnswerArrives == <>[](~isPaused) => (Behind ~> ~Behind)
=============================================================================
