----------------------------- MODULE RunConsole -----------------------------
(***************************************************************************)
(* The run explorer of the web console: the selected run with its status,  *)
(* log, evidence snapshot and open artifact (the useRun* hooks,            *)
(* useRequestGate, lib/runExplorerState, lib/runState) and the way the     *)
(* address and the selection follow each other (App.tsx), under ui/src.    *)
(*                                                                         *)
(* An async function of the code is a process that stops at every await.   *)
(* What an await brings is read when it resumes; a request whose gate was  *)
(* taken by another, or whose signal is aborted, brings nothing.           *)
(***************************************************************************)
EXTENDS Integers, FiniteSets

CONSTANTS
  Runs,       \* runs, numbered by their start: a larger number is a newer run
  None,       \* no run
  Procs,      \* bound: async functions that can be under way at once
  MaxLog,     \* bound: lines in the log of a run
  MaxPages,   \* pages fetchRunLogsUntilEOF reads at most
  MaxMoves,   \* bound: events of the user and of the service
  MaxErrors   \* bound: requests that fail

ASSUME RunConsoleConstants ==
  /\ Runs \subseteq Nat /\ Procs \subseteq Nat /\ IsFiniteSet(Procs)
  /\ Runs # {} => \E last \in Runs : \A r \in Runs : r <= last
  /\ None \notin Runs \cup Procs
  /\ MaxLog \in Nat /\ MaxPages \in Nat \ {0} /\ MaxMoves \in Nat /\ MaxErrors \in Nat

VARIABLES
  srv,     \* the service: status and log length of every run
  ui,      \* state and refs of the hooks
  procs,   \* async functions under way, or Free
  route,   \* run in the address, or None
  moves,
  errs

vars == <<srv, ui, procs, route, moves, errs>>

Active(status) == status = "running"

\* "absent" is a run not yet started, "evicted" one that retention dropped.
Known == {r \in Runs : srv[r].status \in {"running", "done"}}

-----------------------------------------------------------------------------
(* Pure parts *)

Newest(S) == CHOOSE r \in S : \A q \in S : q <= r

\* list is a function from the listed runs to their status.
pickBootstrapRun(list) ==
  LET active == {r \in DOMAIN list : Active(list[r])}
  IN IF active # {} THEN Newest(active) ELSE IF DOMAIN list # {} THEN Newest(DOMAIN list) ELSE None

reconcileSelectedRunID(r, list) == IF r \in DOMAIN list THEN r ELSE pickBootstrapRun(list)

emptyEvidenceSnapshot == [run |-> None, status |-> "idle"]

resetRunLogs(s) == [s EXCEPT !.logs = {}, !.cursor = 0, !.eof = FALSE, !.logsGate = None]

\* Mutant of clearArtifacts: the request under way is not aborted.
clearArtifactsNoAbort(s) ==
  [s EXCEPT !.snap = emptyEvidenceSnapshot, !.committed = None, !.arts = None, !.art = None, !.preview = None]

clearArtifacts(s) ==
  [s EXCEPT !.snap = emptyEvidenceSnapshot, !.committed = None, !.arts = None, !.art = None,
            !.artGate = None, !.preview = None]

clearRunSelection(s) == clearArtifacts(resetRunLogs([s EXCEPT !.runId = None, !.status = None]))

\* clearRunStatusForRun of the reducer.
clearRunStatusForRun(s, r) ==
  IF s.status # None /\ s.status.run = r THEN [s EXCEPT !.status = None] ELSE s

\* fetchArtifacts up to its await.
beginArtifacts(s, i, r) == [s EXCEPT !.artGate = i, !.snap = [run |-> r, status |-> "loading"]]

\* applyEvidenceSnapshot: another run's snapshot closes the open artifact.
applyEvidenceSnapshot(s, r, status) ==
  LET arts == IF status = "available" THEN r ELSE None
      keep == s.committed = r /\ arts # None
  IN [s EXCEPT !.snap = [run |-> r, status |-> status], !.committed = r, !.arts = arts, !.artGate = None,
               !.art = IF keep THEN @ ELSE None, !.preview = IF keep THEN @ ELSE None]

\* A page of the log; one line is one page, and a cursor already shown is skipped.
mergeRunLogsPayload(s, r, reset, cursor) ==
  LET lines == IF cursor < srv[r].log THEN {<<r, cursor>>} ELSE {}
  IN [s EXCEPT !.logs = IF reset THEN lines ELSE @ \cup {x \in lines : \A y \in @ : y[2] # x[2]},
               !.cursor = cursor + Cardinality(lines),
               !.eof = cursor + 1 >= srv[r].log]

-----------------------------------------------------------------------------
(* Processes *)

Proc(kind, r, pc) ==
  [kind |-> kind, run |-> r, pc |-> pc, final |-> FALSE, fresh |-> FALSE, cursor |-> 0,
   pages |-> 0, aborted |-> FALSE, by |-> "user"]

\* No function.
Free == Proc("free", None, "none")

\* handleSelectRun up to its first await; "by" says who awaits it: the poll, the bootstrap or
\* nobody but the event of the user.
beginSelect(s, i, r) ==
  [clearArtifacts(resetRunLogs(s)) EXCEPT !.sel = i, !.runId = r, !.status = None, !.statusGate = i]

Selecting(r, by) == [Proc("select", r, "status") EXCEPT !.by = by]

selectionIsCurrent(i) == ui.sel = i

\* The first free process.
Idle(i) == procs[i] = Free /\ \A j \in Procs : j < i => procs[j] # Free

\* The function returns, to bootstrapConsoleData if that awaits it.
Ends(i) ==
  procs' = [procs EXCEPT ![i] = IF @.by = "boot" THEN Proc("boot", None, "bootRest") ELSE Free]

Becomes(i, p) == procs' = [procs EXCEPT ![i] = p]

\* The request of process i still has its gate and its signal.
Holds(i, gate) == gate = i /\ ~procs[i].aborted

SomeError == errs > 0 /\ errs' = errs - 1

Quiet == UNCHANGED <<srv, route, moves>>

-----------------------------------------------------------------------------
(* Selecting a run *)

\* What follows fetchRunStatus in handleSelectRun; s is the state it left.
AfterSelectStatus(i, s, final) ==
  IF s.sel # i THEN ui' = s /\ Ends(i)
  ELSE IF final
    THEN ui' = [s EXCEPT !.logsGate = i] /\ Becomes(i, [procs[i] EXCEPT !.pc = "logs", !.final = TRUE])
    ELSE ui' = beginArtifacts(s, i, procs[i].run) /\ Becomes(i, [procs[i] EXCEPT !.pc = "artifacts"])

Release(s, i) == [s EXCEPT !.statusGate = IF @ = i THEN None ELSE @]

SelectStatus(i) ==
  LET p == procs[i]
      r == p.run
      answered == [ui EXCEPT !.status = [run |-> r, status |-> srv[r].status]]
  IN /\ p.kind = "select" /\ p.pc = "status"
     /\ \/ /\ ~Holds(i, ui.statusGate)
           /\ AfterSelectStatus(i, ui, FALSE)
           /\ UNCHANGED errs
        \/ /\ Holds(i, ui.statusGate) /\ r \in Known
           /\ IF Active(srv[r].status)
                THEN AfterSelectStatus(i, Release(answered, i), FALSE)
                ELSE IF selectionIsCurrent(i)
                  THEN /\ ui' = beginArtifacts(answered, i, r)
                       /\ Becomes(i, [p EXCEPT !.pc = "finalArtifacts"])
                  ELSE AfterSelectStatus(i, Release(answered, i), TRUE)
           /\ UNCHANGED errs
        \/ /\ Holds(i, ui.statusGate)
           /\ IF r \in Known THEN SomeError ELSE UNCHANGED errs
           /\ ui' = Release(ui, i)
           /\ Ends(i)
     /\ Quiet

\* The end of fetchArtifacts: a snapshot, none or an error, or nothing if it was aborted.
Fetched(i, s) ==
  {IF s.artGate = i THEN applyEvidenceSnapshot(s, procs[i].run, status) ELSE s :
     status \in {"unavailable"} \cup IF procs[i].run \in Known THEN {"available"} ELSE {}}

SelectArtifacts(i) ==
  LET p == procs[i]
  IN /\ p.kind = "select" /\ p.pc \in {"finalArtifacts", "artifacts"}
     /\ \E s \in Fetched(i, ui) :
          LET t == IF p.pc = "finalArtifacts" THEN Release(s, i) ELSE s
          IN IF t.sel # i
               THEN ui' = t /\ Ends(i)
               ELSE /\ ui' = [t EXCEPT !.logsGate = i]
                    /\ Becomes(i, [p EXCEPT !.pc = "logs", !.final = (p.pc = "finalArtifacts")])
     /\ UNCHANGED errs /\ Quiet

\* After the first page, the rest of the log of a finished run.
AfterSelectLogs(i, s) ==
  IF procs[i].final
    THEN /\ ui' = [s EXCEPT !.logsGate = i]
         /\ Becomes(i, [procs[i] EXCEPT !.pc = "untilEOF"])
    ELSE ui' = s /\ Ends(i)

Unlogged(s, i) == [s EXCEPT !.logsGate = IF @ = i THEN None ELSE @]

SelectLogs(i) ==
  LET p == procs[i]
  IN /\ p.kind = "select" /\ p.pc = "logs"
     /\ \/ /\ ~Holds(i, ui.logsGate)
           /\ AfterSelectLogs(i, ui)
           /\ UNCHANGED errs
        \/ /\ Holds(i, ui.logsGate)
           /\ AfterSelectLogs(i, Unlogged(mergeRunLogsPayload(ui, p.run, TRUE, 0), i))
           /\ UNCHANGED errs
        \/ /\ Holds(i, ui.logsGate) /\ SomeError
           /\ ui' = Unlogged(ui, i) /\ Ends(i)
     /\ Quiet

\* One page of fetchRunLogsUntilEOF, for a selection or a poll.
UntilEOF(i) ==
  LET p == procs[i]
      s == mergeRunLogsPayload(ui, p.run, p.pages = 0, p.cursor)
      last == s.eof \/ s.cursor <= p.cursor \/ p.pages + 1 = MaxPages
  IN /\ p.pc = "untilEOF"
     /\ \/ /\ ~Holds(i, ui.logsGate)
           /\ Ends(i)
           /\ UNCHANGED <<ui, errs>>
        \/ /\ Holds(i, ui.logsGate)
           /\ IF last THEN ui' = Unlogged(s, i) /\ Ends(i)
              ELSE ui' = s /\ Becomes(i, [p EXCEPT !.cursor = s.cursor, !.pages = @ + 1])
           /\ UNCHANGED errs
        \/ /\ Holds(i, ui.logsGate) /\ SomeError
           /\ ui' = Unlogged(ui, i) /\ Ends(i)
     /\ Quiet

-----------------------------------------------------------------------------
(* Polling *)

hasActiveRuns == \E r \in DOMAIN ui.list : Active(ui.list[r])

selectedRunIsActive ==
  IF ui.runId # None /\ ui.status # None /\ ui.status.run = ui.runId
    THEN Active(ui.status.status)
    ELSE ui.runId \in DOMAIN ui.list /\ Active(ui.list[ui.runId])

shouldPollRunDetails == hasActiveRuns \/ selectedRunIsActive \/ (ui.runId # None /\ ~ui.eof)

PollEnabled == shouldPollRunDetails /\ ui.snap.status # "loading"

\* The loop awaits this process.
Polling(p) == ~p.aborted /\ (p.kind = "poll" \/ p.by = "poll")

StartPoll(i) ==
  /\ PollEnabled /\ Idle(i) /\ ~ \E j \in Procs : Polling(procs[j])
  /\ Becomes(i, [Proc("poll", ui.runId, "list") EXCEPT
                   !.final = (ui.status # None /\ ~Active(ui.status.status)), !.fresh = ~ui.eof])
  /\ UNCHANGED <<srv, ui, route, moves, errs>>

\* The effect of the loop is cleaned up: its signal is aborted.
StopPoll ==
  /\ ~PollEnabled
  /\ \E i \in Procs : Polling(procs[i])
  /\ procs' = [i \in Procs |-> IF Polling(procs[i])
                                 THEN [procs[i] EXCEPT !.aborted = procs[i].kind = "poll", !.by = "user"]
                                 ELSE procs[i]]
  /\ UNCHANGED <<srv, ui, route, moves, errs>>

Listed == [r \in Known |-> srv[r].status]

\* The selected run is gone: the poll drops it and selects another.
Replace(i, s, r) ==
  /\ ui' = beginSelect(clearArtifacts(resetRunLogs(clearRunStatusForRun(s, procs[i].run))), i, r)
  /\ Becomes(i, Selecting(r, "poll"))

PollList(i) ==
  LET p == procs[i]
      s == [ui EXCEPT !.list = Listed]
      next == reconcileSelectedRunID(p.run, Listed)
  IN /\ p.kind = "poll" /\ p.pc = "list"
     /\ \/ p.aborted /\ Ends(i) /\ UNCHANGED <<ui, errs>>
        \/ /\ ~p.aborted
           /\ IF p.run = None \/ ui.runId # p.run THEN ui' = s /\ Ends(i)
              ELSE IF next = p.run
                THEN ui' = [s EXCEPT !.statusGate = i] /\ Becomes(i, [p EXCEPT !.pc = "status"])
                ELSE IF next # None
                  THEN Replace(i, s, next)
                  ELSE ui' = [s EXCEPT !.statusGate = i] /\ Becomes(i, [p EXCEPT !.pc = "missing"])
           /\ UNCHANGED errs
        \/ ~p.aborted /\ SomeError /\ Ends(i) /\ UNCHANGED ui
     /\ Quiet

\* What follows the status of a poll: more of a running log, or all of a finished one.
AfterPollStatus(i, s) ==
  LET p == procs[i]
      active == Active(s.status.status)
  IN IF active /\ ~s.eof
       THEN ui' = [s EXCEPT !.logsGate = i] /\ Becomes(i, [p EXCEPT !.pc = "page", !.cursor = s.cursor])
       ELSE IF ~active /\ (~p.final \/ p.fresh)
         THEN ui' = [s EXCEPT !.logsGate = i] /\ Becomes(i, [p EXCEPT !.pc = "untilEOF"])
         ELSE ui' = s /\ Ends(i)

PollStatus(i) ==
  LET p == procs[i]
      s == [ui EXCEPT !.status = [run |-> p.run, status |-> srv[p.run].status]]
  IN /\ p.kind = "poll" /\ p.pc \in {"status", "missing"}
     /\ \/ /\ p.aborted \/ (p.pc = "status" /\ ~Holds(i, ui.statusGate))
           /\ ui' = Release(ui, i) /\ Ends(i)
           /\ UNCHANGED errs
        \/ /\ Holds(i, ui.statusGate) /\ p.run \in Known
           /\ IF Active(srv[p.run].status)
                THEN AfterPollStatus(i, Release(s, i))
                ELSE ui' = beginArtifacts(s, i, p.run) /\ Becomes(i, [p EXCEPT !.pc = "pollArtifacts"])
           /\ UNCHANGED errs
        \/ /\ Holds(i, ui.statusGate)
           /\ IF p.run \notin Known /\ p.pc = "status" THEN UNCHANGED errs ELSE SomeError
           /\ ui' = Release(ui, i) /\ Ends(i)
        \/ /\ p.pc = "missing" /\ ~p.aborted
           /\ ~Holds(i, ui.statusGate) \/ p.run \notin Known
           /\ ui' = [clearArtifacts(resetRunLogs(clearRunStatusForRun(Release(ui, i), p.run))) EXCEPT !.runId = None]
           /\ Ends(i)
           /\ UNCHANGED errs
     /\ Quiet

PollArtifacts(i) ==
  LET p == procs[i]
  IN /\ p.kind = "poll" /\ p.pc = "pollArtifacts"
     /\ \E s \in Fetched(i, ui) :
          LET t == Release(s, i)
          IN IF p.aborted THEN ui' = t /\ Ends(i)
             ELSE IF ~p.final \/ p.fresh
               THEN ui' = [t EXCEPT !.logsGate = i] /\ Becomes(i, [p EXCEPT !.pc = "untilEOF"])
               ELSE ui' = t /\ Ends(i)
     /\ UNCHANGED errs /\ Quiet

PollPage(i) ==
  LET p == procs[i]
  IN /\ p.pc = "page"
     /\ \/ ~Holds(i, ui.logsGate) /\ ui' = Unlogged(ui, i) /\ UNCHANGED errs
        \/ /\ Holds(i, ui.logsGate)
           /\ ui' = Unlogged(mergeRunLogsPayload(ui, p.run, FALSE, p.cursor), i)
           /\ UNCHANGED errs
        \/ Holds(i, ui.logsGate) /\ SomeError /\ ui' = Unlogged(ui, i)
     /\ Ends(i)
     /\ Quiet

-----------------------------------------------------------------------------
(* Address and selection *)

\* The effect that restores the run of the address has something to do.
RouteDue ==
  /\ ui.ready /\ DOMAIN ui.list # {} /\ ui.ref # route
  /\ route \in DOMAIN ui.list => ui.runId # route

Event == moves < MaxMoves /\ moves' = moves + 1

\* React runs the effects that are due before it handles an event of the user.
Move == ~RouteDue /\ Event

\* bootstrapApp, at start or from the refresh button: list the runs, select one,
\* load the rest of the console, then select the run of the address.
BootstrapBegins(i) ==
  /\ ui.ready /\ Idle(i) /\ ~ \E j \in Procs : procs[j].kind = "boot" \/ procs[j].by = "boot"
  /\ Move
  /\ Becomes(i, Proc("boot", None, "bootList"))
  /\ ui' = [ui EXCEPT !.failed = FALSE]
  /\ UNCHANGED <<srv, route, errs>>

BootstrapList(i) ==
  LET p == procs[i]
      select(list) ==
        LET r == pickBootstrapRun(list)
            s == [ui EXCEPT !.list = list]
        IN IF r = None
             THEN ui' = s /\ Becomes(i, [p EXCEPT !.pc = "bootRest"])
             ELSE ui' = beginSelect(s, i, r) /\ Becomes(i, Selecting(r, "boot"))
  IN /\ p.pc = "bootList"
     /\ \/ select(Listed) /\ UNCHANGED errs
        \/ SomeError /\ select(<<>>)
     /\ Quiet

\* Mutant of BootstrapEnds: the run of the address is left to the effect.
BootstrapEndsNoRestore(i) ==
  /\ procs[i].pc = "bootRest"
  /\ ui' = [ui EXCEPT !.ready = TRUE] /\ Ends(i)
  /\ UNCHANGED errs /\ Quiet

\* The selection of the bootstrap has ended and the other loads are done, or the
\* manifest could not be loaded.
BootstrapEnds(i) ==
  LET p == procs[i]
  IN /\ p.pc = "bootRest"
     /\ \/ /\ route = None
           /\ ui' = [ui EXCEPT !.ready = TRUE] /\ Ends(i)
           /\ UNCHANGED errs
        \/ /\ route # None
           /\ ui' = [beginSelect(ui, i, route) EXCEPT !.ready = TRUE] /\ Becomes(i, Selecting(route, "user"))
           /\ UNCHANGED errs
        \/ SomeError /\ Ends(i) /\ ui' = [ui EXCEPT !.failed = TRUE]
     /\ Quiet

\* handleSelectRunAndRoute, handleSelectRunInRuns
SelectRunAndRoute(i, r) ==
  /\ ui.ready /\ Idle(i) /\ r \in DOMAIN ui.list
  /\ Move
  /\ route' = r
  /\ ui' = [beginSelect(ui, i, r) EXCEPT !.ref = r, !.asked = TRUE]
  /\ Becomes(i, Selecting(r, "user"))
  /\ UNCHANGED <<srv, errs>>

\* popstate, or a link to a page with or without a run: before the console is ready
\* every address is the one of Setup, and the run of the link is forgotten.
Visit(r) ==
  /\ r # route
  /\ r # None => ui.ready /\ srv[r].status # "absent"
  /\ Move
  /\ route' = r
  /\ ui' = [ui EXCEPT !.asked = FALSE]
  /\ UNCHANGED <<srv, procs, errs>>

\* The effect that restores the run of the address, each run once.
RouteEffect(i) ==
  /\ RouteDue
  /\ \/ /\ route = None
        /\ ui' = [ui EXCEPT !.ref = None]
        /\ UNCHANGED <<procs, route>>
     \/ /\ route # None /\ route \notin DOMAIN ui.list
        /\ ui' = [clearRunSelection(ui) EXCEPT !.ref = route]
        /\ route' = None
        /\ UNCHANGED procs
     \/ /\ route \in DOMAIN ui.list /\ Idle(i)
        /\ ui' = [beginSelect(ui, i, route) EXCEPT !.ref = route]
        /\ Becomes(i, Selecting(route, "user"))
        /\ UNCHANGED route
  /\ UNCHANGED <<srv, moves, errs>>

-----------------------------------------------------------------------------
(* Artifact viewer *)

\* handleOpenArtifact, for an artifact of the inventory.
OpenArtifact ==
  /\ ui.arts # None
  /\ Move
  /\ ui' = [ui EXCEPT !.art = [run |-> ui.arts, shown |-> FALSE], !.preview = ui.arts]
  /\ UNCHANGED <<srv, procs, route, errs>>

\* The text, or the words that say why there is none.
ArtifactArrives ==
  /\ ui.preview # None
  /\ ui' = [ui EXCEPT !.art = [run |-> ui.preview, shown |-> TRUE], !.preview = None]
  /\ UNCHANGED <<srv, procs, errs>> /\ Quiet

-----------------------------------------------------------------------------
(* The service *)

RunStarts(r) ==
  /\ \A q \in Runs : q >= r => srv[q].status = "absent"
  /\ srv' = [srv EXCEPT ![r] = [status |-> "running", log |-> 0]]
  /\ Event
  /\ UNCHANGED <<ui, procs, route, errs>>

RunLogs(r) ==
  /\ srv[r].status = "running" /\ srv[r].log < MaxLog
  /\ srv' = [srv EXCEPT ![r].log = @ + 1]
  /\ Event
  /\ UNCHANGED <<ui, procs, route, errs>>

RunFinishes(r) ==
  /\ srv[r].status = "running"
  /\ srv' = [srv EXCEPT ![r].status = "done"]
  /\ Event
  /\ UNCHANGED <<ui, procs, route, errs>>

\* Retention drops the oldest finished run.
RunEvicted(r) ==
  /\ srv[r].status = "done" /\ \E q \in Known : q > r
  /\ srv' = [srv EXCEPT ![r] = [status |-> "evicted", log |-> 0]]
  /\ Event
  /\ UNCHANGED <<ui, procs, route, errs>>

-----------------------------------------------------------------------------
InitialUI ==
  [runId |-> None, status |-> None, list |-> <<>>, logs |-> {}, cursor |-> 0, eof |-> FALSE,
   snap |-> emptyEvidenceSnapshot, committed |-> None, arts |-> None, art |-> None,
   statusGate |-> None, logsGate |-> None, artGate |-> None, preview |-> None,
   sel |-> None, ref |-> None, ready |-> FALSE, failed |-> FALSE, asked |-> TRUE]

Init ==
  /\ srv \in [Runs -> {[status |-> "absent", log |-> 0], [status |-> "running", log |-> 0],
                       [status |-> "done", log |-> MaxLog], [status |-> "evicted", log |-> 0]}]
  /\ \A q, r \in Runs : q < r /\ srv[q].status = "absent" => srv[r].status = "absent"
  /\ \A r \in Runs : srv[r].status = "evicted" => \E q \in Known : q > r
  /\ \E i \in Procs : /\ \A j \in Procs : i <= j
                      /\ procs = [j \in Procs |-> IF j = i THEN Proc("boot", None, "bootList") ELSE Free]
  /\ ui = InitialUI
  /\ route \in {r \in Runs : srv[r].status # "absent"} \cup {None}
  /\ moves = 0 /\ errs = MaxErrors

Resume(i) ==
  \/ SelectStatus(i) \/ SelectArtifacts(i) \/ SelectLogs(i) \/ UntilEOF(i)
  \/ PollList(i) \/ PollStatus(i) \/ PollArtifacts(i) \/ PollPage(i)
  \/ BootstrapList(i) \/ BootstrapEnds(i)

User(i) ==
  \/ BootstrapBegins(i)
  \/ \E r \in Runs : SelectRunAndRoute(i, r)

Service == \E r \in Runs : RunStarts(r) \/ RunLogs(r) \/ RunFinishes(r) \/ RunEvicted(r)

Next ==
  \/ \E i \in Procs : Resume(i) \/ StartPoll(i) \/ User(i) \/ RouteEffect(i)
  \/ StopPoll
  \/ OpenArtifact \/ ArtifactArrives
  \/ \E r \in Runs \cup {None} : Visit(r)
  \/ Service

Spec == Init /\ [][Next]_vars

-----------------------------------------------------------------------------
(* Properties *)

RunOrNone == Runs \cup {None}

Statuses == {None} \cup [run : Runs, status : {"absent", "running", "done", "evicted"}]

\* Types; the cursor mergeRunLogsPayload keeps never points past the log the service
\* has, whichever pages of whichever run were merged before.
TypeOK ==
  /\ srv \in [Runs -> [status : {"absent", "running", "done", "evicted"}, log : 0..MaxLog]]
  /\ \A i \in Procs : procs[i].kind \in {"free", "boot", "select", "poll"}
  /\ ui.runId \in RunOrNone /\ ui.status \in Statuses
  /\ ui.logs \subseteq Runs \X (0..MaxLog) /\ ui.cursor \in 0..MaxLog
  /\ {ui.statusGate, ui.logsGate, ui.artGate, ui.sel} \subseteq Procs \cup {None}
  /\ route \in RunOrNone
  /\ moves \in 0..MaxMoves /\ errs \in 0..MaxErrors

\* Status (fetchRunStatus), evidence snapshot and inventory (applyEvidenceSnapshot)
\* and open artifact (handleOpenArtifact) on the screen are the selected run's,
\* whatever answer comes late from an earlier selection or poll.
ShownIsOfSelected ==
  ui.runId # None =>
  /\ ui.status = None \/ ui.status.run = ui.runId
  /\ ui.snap.run \in {None, ui.runId}
  /\ ui.arts \in {None, ui.runId}
  /\ ui.art = None \/ ui.art.run = ui.runId

\* Types, with the cursor of the log, and the screen of the selected run (the useRun* hooks).
ConsoleInv == TypeOK /\ ShownIsOfSelected

\* Once nothing is under way, the run the user clicked, or the one of the link the
\* console was opened with, is the selected one: neither a bootstrap nor a poll nor an
\* earlier handleSelectRun that ends later takes its place. (A bootstrap that failed
\* says so.)
AskedRunIsSelected ==
  (/\ ui.ready /\ ui.asked /\ ~ui.failed /\ \A i \in Procs : procs[i] = Free
   /\ route \in DOMAIN ui.list /\ ~RouteDue)
    => ui.runId = route
=============================================================================
