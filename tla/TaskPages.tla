------------------------------ MODULE TaskPages ------------------------------
(***************************************************************************)
(* The Task pages of the web console (ui/src/components/TaskRouteContainer *)
(* and TaskComposer, over lib/taskApi and hooks/usePollingLoop): Inbox,    *)
(* Task, Attempt, Pipeline Studio and the composer of new Tasks.           *)
(*                                                                         *)
(* One page is mounted at a time.  A page of another kind starts afresh; a *)
(* page of the same kind for another Task keeps its React state and runs   *)
(* its effects again.  A request is sent, answered by the service and      *)
(* delivered in three steps.  Aborted requests are dropped: the code       *)
(* ignores what they bring.  The polling loop is the one of PollingLoop:   *)
(* here it comes round whenever it is enabled.                             *)
(***************************************************************************)
EXTENDS Integers, Sequences, FiniteSets

CONSTANTS
  Tasks,        \* Task identities
  Known,        \* the Tasks the registry has when the console is opened
  None,         \* no Task, no review, no answer yet
  Filters,      \* Inbox filters
  FirstFilter,  \* the filter of the address the console is opened with
  Pages,        \* pages of Tasks the service has for a filter
  Texts,        \* goals a user types into the composer
  Empty,        \* the empty text; no stored draft
  FirstDraft,   \* the draft stored when the console is opened
  MaxAttempts,  \* bound: attempts of a Task
  MaxHistory,   \* bound: revision and attempts of a Task, added, up to which other clients act on it
  MaxMoves,     \* bound: user events
  MaxErrors,    \* bound: requests that fail or lose their answer
  Jumps         \* TRUE: the browser's history may switch between pages of one kind

ASSUME TaskPagesConstants ==
  /\ Known \subseteq Tasks /\ None \notin Tasks /\ Empty \notin Texts
  /\ FirstFilter \in Filters /\ FirstDraft \in Texts \cup {Empty}
  /\ Pages \in Nat \ {0} /\ MaxAttempts \in Nat \ {0} /\ MaxHistory \in Nat
  /\ MaxMoves \in Nat /\ MaxErrors \in Nat
  /\ Jumps \in BOOLEAN

VARIABLES
  srv,      \* the Task registry behind the API
  ready,    \* workspace, scope and runner are ready (props of the composer)
  route,    \* [view, task, n, filter]: the address
  page,     \* state of the mounted page
  reqs,     \* requests in flight that may still have an effect
  draft,    \* composer draft in localStorage
  moves,    \* user events so far
  errs,     \* failures left
  crossed   \* the page switched Task or Attempt in place, and its load overlapped with a
            \* poll, or a request about what it showed before was left running

vars == <<srv, ready, route, page, reqs, draft, moves, errs, crossed>>

Active(status) == status \in {"queued", "running"}

Last(s) == s[Len(s)]

-----------------------------------------------------------------------------
(* Addresses and requests *)

Entity == {"detail", "attempt", "studio"}

At(view, t, n) == [view |-> view, task |-> t, n |-> n, filter |-> route.filter]

Request(kind, t, n, arg) ==
  [kind |-> kind, own |-> TRUE, task |-> t, n |-> n, arg |-> arg, phase |-> "main", res |-> "none", ans |-> None]

\* The request the mount effect of a page sends.
LoadRequest(r) ==
  CASE r.view \in Entity -> {Request("load", r.task, r.n, 0)}
    [] r.view = "inbox"  -> {Request("list", r.filter, 0, 1)}
    [] OTHER             -> {}

\* Requests the cleanup of a load effect or the request gate aborts.
Guarded == {"load", "list", "more"}

\* Mutant of AbortLoad: only the request of the mount effect is aborted.
AbortLoadNotMore(rs) == {r \in rs : ~(r.own /\ r.kind \in {"load", "list"})}

\* Mutant of AbortLoad: the load effect has no cleanup.
AbortLoadOnlyLists(rs) == {r \in rs : ~(r.own /\ r.kind \in {"list", "more"})}

AbortLoad(rs) == {r \in rs : ~(r.own /\ r.kind \in Guarded)}

\* What survives the page: calls that act on the service and their continuations.
Unmounted(rs) ==
  {[r EXCEPT !.own = FALSE] : r \in {q \in rs : q.kind \notin Guarded \cup {"poll"}}}

\* Mutant of PollEnabled: a queued Attempt is not polled for.
PollEnabledRunning(view, pg) ==
  view \in Entity /\ pg.id # None /\ \E i \in DOMAIN pg.atts : pg.atts[i] = "running"

\* enabled of the page's polling loop: something shown is queued or running.
PollEnabled(view, pg) ==
  view \in Entity /\ pg.id # None /\ \E i \in DOMAIN pg.atts : Active(pg.atts[i])

-----------------------------------------------------------------------------
(* Pages *)

InboxPage == [list |-> <<>>, next |-> 0, status |-> "loading", busy |-> FALSE, moreErr |-> FALSE]

EntityPage ==
  [id |-> None, life |-> "open", rev |-> 0, atts |-> <<>>, review |-> None, notified |-> None,
   revErr |-> FALSE, state |-> "loading", adm |-> "idle", admErr |-> FALSE, born |-> moves]

ComposerPage == [text |-> draft, busy |-> FALSE, created |-> None, err |-> FALSE, born |-> moves]

FreshPage(view) ==
  CASE view = "inbox"    -> InboxPage
    [] view \in Entity   -> EntityPage
    [] view = "new"      -> ComposerPage
    [] OTHER             -> None

\* The mounted page when its address changes but its kind does not.
SamePage(r) ==
  CASE r.view = "inbox"  -> [page EXCEPT !.status = "loading", !.busy = FALSE, !.moreErr = FALSE]
    [] r.view = "detail" -> [page EXCEPT !.state = "loading", !.revErr = FALSE, !.adm = "idle",
                                         !.admErr = FALSE, !.born = moves]
    [] OTHER             -> [page EXCEPT !.state = "loading"]

\* navigateRoute and the page TaskRouteContainer renders for the new address.
Go(r) ==
  /\ route' = r
  /\ IF r.view # route.view
       THEN /\ page' = FreshPage(r.view)
            /\ reqs' = Unmounted(reqs) \cup LoadRequest(r)
            /\ crossed' = FALSE
       ELSE IF r = route \/ r.view \notin Entity \cup {"inbox"}
         THEN UNCHANGED <<page, reqs, crossed>>
         ELSE /\ page' = SamePage(r)
              /\ reqs' = AbortLoad(reqs) \cup LoadRequest(r)
              /\ crossed' = (crossed \/ (r.view \in Entity /\ \E q \in reqs : q.own /\ q.kind \notin Guarded))

Move == moves < MaxMoves /\ moves' = moves + 1

Steady == UNCHANGED <<srv, ready, draft, errs>>

InitialTask(life, atts) == [life |-> life, rev |-> 1, atts |-> atts, key |-> None]

Exists(t) == srv[t].life # "absent"

\* Addresses of pages the service has, and of the pages of no Task.
Addresses ==
  {[view |-> v, task |-> None, n |-> 0] : v \in {"inbox", "new"}}
    \cup {a \in [view : Entity, task : Tasks, n : 0..MaxAttempts] :
            /\ Exists(a.task) /\ a.n <= Len(srv[a.task].atts)
            /\ a.view = "detail" <=> a.n = 0}

\* The console is opened at any address, while an Attempt of at most one Task is going on.
Init ==
  /\ \E busy \in Known \cup {None} :
       srv = [t \in Tasks |-> InitialTask(IF t \in Known THEN "open" ELSE "absent",
                                         IF t = busy THEN <<"queued">> ELSE <<>>)]
  /\ ready = TRUE
  /\ draft = FirstDraft /\ moves = 0 /\ errs = MaxErrors
  /\ \E a \in Addresses : route = [view |-> a.view, task |-> a.task, n |-> a.n, filter |-> FirstFilter]
  /\ page = FreshPage(route.view)
  /\ reqs = LoadRequest(route)
  /\ crossed = FALSE

-----------------------------------------------------------------------------
(* Navigation *)

OpenTask(t) ==
  /\ route.view = "inbox" /\ Exists(t)
  /\ Move /\ Go(At("detail", t, 0)) /\ Steady

NewTask ==
  /\ route.view = "inbox"
  /\ Move /\ Go(At("new", None, 0)) /\ Steady

ChangeFilter(f) ==
  /\ route.view = "inbox" /\ f # route.filter
  /\ Move /\ Go([route EXCEPT !.filter = f]) /\ Steady

OpenAttempt ==
  /\ route.view = "detail" /\ page.id # None
  /\ \E n \in DOMAIN page.atts :
       Move /\ Go(At("attempt", page.id, n)) /\ Steady

\* The Attempt page opens the Studio of the Attempt it shows.
OpenStudio ==
  /\ route.view = "attempt" /\ page.id # None
  /\ Move /\ Go(At("studio", route.task, page.id[2])) /\ Steady

Back ==
  /\ route.view \in Entity \cup {"new"}
  /\ Move /\ Steady
  /\ Go(CASE route.view = "studio"  -> At("attempt", route.task, route.n)
          [] route.view = "attempt" -> At("detail", route.task, 0)
          [] OTHER                  -> At("inbox", None, 0))

\* Another part of the console: Changes, Architecture, Settings, Setup.
Leave ==
  /\ route.view # "other"
  /\ Move /\ Go(At("other", None, 0)) /\ Steady

\* popstate: the browser's history shows an address visited before.
Jump ==
  /\ Jumps
  /\ \E a \in Addresses :
       a.view \in Entity /\ Move /\ Go(At(a.view, a.task, a.n)) /\ Steady

-----------------------------------------------------------------------------
(* Inbox *)

LoadMore ==
  /\ route.view = "inbox" /\ page.next # 0 /\ ~page.busy
  /\ Move
  /\ page' = [page EXCEPT !.busy = TRUE, !.moreErr = FALSE]
  /\ reqs' = AbortLoad(reqs) \cup {Request("more", route.filter, 0, page.next)}
  /\ UNCHANGED <<route, crossed>> /\ Steady

RetryList ==
  /\ route.view = "inbox" /\ page.status = "error"
  /\ Move
  /\ page' = SamePage(route)
  /\ reqs' = AbortLoad(reqs) \cup LoadRequest(route)
  /\ UNCHANGED <<route, crossed>> /\ Steady

NextPage(p) == IF p < Pages THEN p + 1 ELSE 0

DeliverInbox(r) ==
  /\ r.kind \in {"list", "more"}
  /\ reqs' = reqs \ {r}
  /\ page' =
       CASE r.kind = "list" /\ r.res = "error" -> [page EXCEPT !.status = "error"]
         [] r.kind = "list" /\ r.res # "error" -> [page EXCEPT !.list = <<r.ans>>, !.next = NextPage(r.ans[2]), !.status = "loaded"]
         [] r.kind = "more" /\ r.res = "error" -> [page EXCEPT !.moreErr = TRUE, !.busy = FALSE]
         [] OTHER -> [page EXCEPT !.list = Append(@, r.ans), !.next = NextPage(r.ans[2]),
                                  !.moreErr = FALSE, !.busy = FALSE]
  /\ UNCHANGED <<srv, ready, route, draft, moves, errs, crossed>>

-----------------------------------------------------------------------------
(* Task, Attempt and Studio pages *)

RetryLoad ==
  /\ route.view \in Entity
  /\ page.state = "error" \/ (route.view = "detail" /\ page.revErr /\ page.state # "loading")
  /\ Move
  /\ page' = [page EXCEPT !.state = "loading", !.revErr = FALSE]
  /\ reqs' = AbortLoad(reqs) \cup LoadRequest(route)
  /\ crossed' = (crossed \/ \E r \in reqs : r.kind = "poll")
  /\ UNCHANGED route /\ Steady

\* The polling loop starts its one request, with the closure of the last render.
StartPoll ==
  /\ PollEnabled(route.view, page)
  /\ ~ \E r \in reqs : r.kind = "poll"
  /\ reqs' = reqs \cup {Request("poll", route.task, route.n, 0)}
  /\ crossed' = (crossed \/ page.state = "loading")
  /\ UNCHANGED <<srv, ready, route, page, draft, moves, errs>>

\* The loop's effect is cleaned up once a render disabled it: its request is aborted.
StopPoll ==
  /\ ~PollEnabled(route.view, page)
  /\ \E r \in reqs : r.kind = "poll"
  /\ reqs' = {r \in reqs : r.kind # "poll"}
  /\ UNCHANGED <<srv, ready, route, page, draft, moves, errs, crossed>>

\* What a load or poll brings: the Task with its Attempts, or the Attempt.
Shown(r) ==
  IF route.view = "detail"
    THEN [page EXCEPT !.id = r.task, !.life = r.ans.life, !.rev = r.ans.rev, !.atts = r.ans.atts]
    ELSE [page EXCEPT !.id = <<r.task, r.n>>, !.atts = <<r.ans.atts[r.n]>>]

Terminal(pg) == Len(pg.atts) > 0 /\ ~Active(Last(pg.atts))

\* The run whose review a page asks for after Shown.
ReviewOf(r, pg) == IF route.view = "detail" THEN <<r.task, Len(pg.atts)>> ELSE <<r.task, r.n>>

WantsReview(pg) == route.view = "studio" \/ (route.view = "detail" /\ Terminal(pg))

Loaded(r, pg) == IF r.kind = "load" THEN [pg EXCEPT !.state = "loaded"] ELSE pg

\* The Task page forgets the review of an earlier Attempt once a newer one is active.
Unreviewed(r, pg) ==
  IF route.view = "detail" THEN [pg EXCEPT !.review = None, !.revErr = (r.kind = "load" /\ @)] ELSE pg

DeliverMain(r) ==
  /\ r.kind \in {"load", "poll"} /\ r.phase = "main"
  /\ IF r.res = "error"
       THEN /\ page' = IF r.kind = "load" THEN [page EXCEPT !.state = "error"] ELSE page
            /\ reqs' = reqs \ {r}
       ELSE LET pg == Shown(r) IN
            IF WantsReview(pg)
              THEN /\ page' = pg
                   /\ reqs' = (reqs \ {r}) \cup
                        {[r EXCEPT !.phase = "review", !.res = "none", !.ans = None, !.n = ReviewOf(r, pg)[2]]}
              ELSE /\ page' = Loaded(r, Unreviewed(r, pg))
                   /\ reqs' = reqs \ {r}
  /\ UNCHANGED <<srv, ready, route, draft, moves, errs, crossed>>

\* Mutant of Reviewed: an error of the Studio's review leaves the earlier one on the page.
ReviewedKeepsOld(r) ==
  CASE r.res = "error" -> Loaded(r, page)
    [] r.res # "error" /\ r.ans = "missing" -> Loaded(r, [page EXCEPT !.review = None, !.revErr = (route.view = "detail")])
    [] OTHER -> Loaded(r, [page EXCEPT !.review = <<r.task, r.n>>, !.revErr = FALSE])

\* A review that is missing or cannot be read; otherwise the page shows it, and
\* notifySettledOutcome tells the console if the run changed the architecture.
Reviewed(r) ==
  CASE r.res = "error" /\ route.view = "studio" ->
         IF r.kind = "load" THEN [page EXCEPT !.state = "error"] ELSE page
    [] (r.res = "error" /\ route.view # "studio") \/ (r.res # "error" /\ r.ans = "missing") ->
         Loaded(r, [page EXCEPT !.review = None, !.revErr = (route.view = "detail")])
    [] OTHER ->
         Loaded(r, [page EXCEPT !.review = <<r.task, r.n>>, !.revErr = FALSE,
                                !.notified = IF route.view = "detail" /\ r.ans = "promoted" THEN <<r.task, r.n>> ELSE @])

DeliverReview(r) ==
  /\ r.kind \in {"load", "poll"} /\ r.phase = "review"
  /\ page' = Reviewed(r)
  /\ reqs' = reqs \ {r}
  /\ UNCHANGED <<srv, ready, route, draft, moves, errs, crossed>>

\* Mutant of Key: a retry draws a new key.
KeyPerTry(pg) == <<pg.born, errs>>

\* The admission key of a mounted Task page or composer.
Key(pg) == <<pg.born, 0>>

AdmitFirstAttempt ==
  /\ route.view = "detail" /\ page.id # None
  /\ page.life = "open" /\ page.atts = <<>> /\ page.adm = "idle"
  /\ Move
  /\ page' = [page EXCEPT !.adm = "busy", !.admErr = FALSE]
  /\ reqs' = reqs \cup {Request("admit", page.id, page.born, Key(page))}
  /\ UNCHANGED <<route, crossed>> /\ Steady

\* The answer opens the admitted Attempt, wherever the user has gone since.
DeliverAdmission(r) ==
  /\ r.kind = "admit"
  /\ IF r.res \in {"error", "conflict"}
       THEN /\ page' = IF r.own THEN [page EXCEPT !.adm = "idle", !.admErr = TRUE] ELSE page
            /\ reqs' = reqs \ {r}
            /\ UNCHANGED <<route, crossed>>
       ELSE /\ route' = At("attempt", r.task, r.ans)
            /\ page' = IF route.view = "attempt" THEN SamePage(route') ELSE EntityPage
            /\ reqs' = (IF route.view = "attempt" THEN AbortLoad(reqs \ {r}) ELSE Unmounted(reqs \ {r}))
                         \cup LoadRequest(route')
            /\ crossed' = (route.view = "attempt" /\ (crossed \/ \E q \in reqs : q.own /\ q.kind \notin Guarded))
  /\ UNCHANGED <<srv, ready, draft, moves, errs>>

ArchiveTask ==
  /\ route.view = "detail" /\ page.id # None
  /\ Move
  /\ reqs' = reqs \cup {Request("archive", page.id, page.rev, IF page.life = "open" THEN "archived" ELSE "open")}
  /\ crossed' = (crossed \/ page.id # route.task)
  /\ UNCHANGED <<route, page>> /\ Steady

DeliverArchive(r) ==
  /\ r.kind = "archive"
  /\ page' = IF r.own /\ r.res # "error"
               THEN [page EXCEPT !.id = r.task, !.life = r.ans.life, !.rev = r.ans.rev] ELSE page
  /\ reqs' = reqs \ {r}
  /\ UNCHANGED <<srv, ready, route, draft, moves, errs, crossed>>

-----------------------------------------------------------------------------
(* Composer *)

\* The draft effect: what is typed is stored unless a submission is under way.
Type(v) ==
  /\ route.view = "new" /\ v # page.text
  /\ Move
  /\ page' = [page EXCEPT !.text = v]
  /\ draft' = IF page.busy THEN draft ELSE v
  /\ UNCHANGED <<srv, ready, route, reqs, errs, crossed>>

ReadinessChanges ==
  /\ route.view = "new" /\ Move
  /\ ready' = ~ready
  /\ UNCHANGED <<srv, route, page, reqs, draft, errs, crossed>>

Submit ==
  /\ route.view = "new" /\ page.text # Empty /\ ready /\ ~page.busy
  /\ Move
  /\ page' = [page EXCEPT !.busy = TRUE, !.err = FALSE]
  /\ reqs' = reqs \cup {Request("create", None, page.born, Key(page))}
  /\ UNCHANGED <<route, crossed>> /\ Steady

\* A failed submission: busy ends and the draft effect stores what is shown.
Failed(pg) == [pg EXCEPT !.busy = FALSE, !.err = TRUE]

\* Mutant of DeliverCreate: what was typed during a failed submission is not stored.
DeliverCreateNoDraft(r) ==
  /\ r.kind = "create"
  /\ IF r.res = "error"
       THEN /\ reqs' = reqs \ {r}
            /\ page' = IF r.own THEN Failed(page) ELSE page
       ELSE /\ reqs' = (reqs \ {r}) \cup {[r EXCEPT !.kind = "start", !.task = r.ans, !.res = "none", !.ans = None]}
            /\ page' = IF r.own THEN [page EXCEPT !.created = r.ans] ELSE page
  /\ UNCHANGED <<srv, ready, route, draft, moves, errs, crossed>>

DeliverCreate(r) ==
  /\ r.kind = "create"
  /\ IF r.res = "error"
       THEN /\ reqs' = reqs \ {r}
            /\ page' = IF r.own THEN Failed(page) ELSE page
            /\ draft' = IF r.own THEN page.text ELSE draft
       ELSE /\ reqs' = (reqs \ {r}) \cup {[r EXCEPT !.kind = "start", !.task = r.ans, !.res = "none", !.ans = None]}
            /\ page' = IF r.own THEN [page EXCEPT !.created = r.ans] ELSE page
            /\ UNCHANGED draft
  /\ UNCHANGED <<srv, ready, route, moves, errs, crossed>>

DeliverStart(r) ==
  /\ r.kind = "start"
  /\ IF r.res \in {"error", "conflict"}
       THEN /\ reqs' = reqs \ {r}
            /\ page' = IF r.own THEN Failed(page) ELSE page
            /\ draft' = IF r.own THEN page.text ELSE draft
            /\ UNCHANGED <<route, crossed>>
       ELSE /\ draft' = Empty
            /\ route' = At("detail", r.task, 0)
            /\ page' = IF route.view = "detail" THEN SamePage(route') ELSE EntityPage
            /\ reqs' = (IF route.view = "detail" THEN AbortLoad(reqs \ {r}) ELSE Unmounted(reqs \ {r}))
                         \cup LoadRequest(route')
            /\ crossed' = (route.view = "detail" /\ (crossed \/ \E q \in reqs : q.own /\ q.kind \notin Guarded))
  /\ UNCHANGED <<srv, ready, moves, errs>>

OpenCreated ==
  /\ route.view = "new" /\ page.created # None /\ page.err
  /\ Move /\ Go(At("detail", page.created, 0)) /\ Steady

-----------------------------------------------------------------------------
(* The service, as the pages use it *)

Replies(r) ==
  CASE r.kind \in {"list", "more"} -> {<<r.task, r.arg>>}
    [] r.kind \in {"load", "poll"} /\ r.phase = "main" ->
         IF r.n <= Len(srv[r.task].atts) THEN {srv[r.task]} ELSE {}
    [] r.kind \in {"load", "poll"} /\ r.phase = "review" -> {"promoted", "unchanged", "missing"}
    [] OTHER -> {}

\* An Attempt the Task does not have is an error.
AnswerRead(r) ==
  /\ r.kind \in Guarded \cup {"poll"}
  /\ \/ \E a \in Replies(r) : reqs' = (reqs \ {r}) \cup {[r EXCEPT !.res = "ok", !.ans = a]}
     \/ Replies(r) = {} /\ reqs' = (reqs \ {r}) \cup {[r EXCEPT !.res = "error"]}
  /\ UNCHANGED <<srv, errs>>

\* The same request has started the Task's Attempt before: same key, and same fingerprint, which
\* holds the Task's revision.
SameRequest(t, r) == t.key # None /\ t.key.key = r.arg /\ t.key.rev = t.rev

\* Admission of a first Attempt.  An archived Task is refused before the key is looked up; the
\* Attempt a repeated request has started is returned; a start that is new needs a Task without
\* Attempts and a registry without one going on, and is refused too while a run outside the
\* registry holds the run service.
AnswerAdmission(r) ==
  LET t == srv[r.task]
      open == t.life = "open"
      idle == \A s \in Tasks : \A i \in DOMAIN srv[s].atts : ~Active(srv[s].atts[i])
      answered(res, n) == reqs' = (reqs \ {r}) \cup {[r EXCEPT !.res = res, !.ans = n]}
  IN /\ r.kind \in {"admit", "start"}
     /\ \/ open /\ SameRequest(t, r) /\ answered("ok", 1) /\ UNCHANGED srv
        \/ /\ open /\ ~SameRequest(t, r) /\ t.atts = <<>> /\ idle
           /\ srv' = [srv EXCEPT ![r.task].atts = <<"queued">>,
                                 ![r.task].key = [key |-> r.arg, by |-> r.n, rev |-> t.rev]]
           /\ answered("ok", 1)
        \/ ~(open /\ SameRequest(t, r)) /\ answered("conflict", None) /\ UNCHANGED srv
     /\ UNCHANGED errs

AnswerArchive(r) ==
  LET t == srv[r.task]
      next == [t EXCEPT !.life = r.arg, !.rev = t.rev + 1]
  IN /\ r.kind = "archive"
     /\ srv' = IF t.rev = r.n THEN [srv EXCEPT ![r.task] = next] ELSE srv
     /\ reqs' = (reqs \ {r}) \cup 
          {IF t.rev = r.n THEN [r EXCEPT !.res = "ok", !.ans = next] ELSE [r EXCEPT !.res = "error"]}
     /\ UNCHANGED errs

AnswerCreate(r) ==
  /\ r.kind = "create"
  /\ \E t \in Tasks :
       /\ ~Exists(t)
       /\ srv' = [srv EXCEPT ![t] = InitialTask("open", <<>>)]
       /\ reqs' = (reqs \ {r}) \cup {[r EXCEPT !.res = "ok", !.ans = t]}
  /\ UNCHANGED errs

Answer(r) ==
  /\ r.res = "none"
  /\ AnswerRead(r) \/ AnswerAdmission(r) \/ AnswerArchive(r) \/ AnswerCreate(r)
  /\ UNCHANGED <<ready, route, page, draft, moves, crossed>>

\* The request fails, or its answer is lost after the service acted on it.
Fails(r) ==
  /\ r.res # "error" /\ errs > 0
  /\ errs' = errs - 1
  /\ reqs' = (reqs \ {r}) \cup {[r EXCEPT !.res = "error", !.ans = None]}
  /\ UNCHANGED <<srv, ready, route, page, draft, moves, crossed>>

Deliver(r) ==
  /\ r.res # "none"
  /\ \/ DeliverInbox(r) \/ DeliverMain(r) \/ DeliverReview(r)
     \/ DeliverAdmission(r) \/ DeliverArchive(r) \/ DeliverCreate(r) \/ DeliverStart(r)

\* The run of the last Attempt goes on.
AttemptAdvances(t) ==
  /\ Len(srv[t].atts) > 0 /\ Active(Last(srv[t].atts))
  /\ srv' = [srv EXCEPT ![t].atts[Len(srv[t].atts)] = IF @ = "queued" THEN "running" ELSE "done"]
  /\ UNCHANGED <<ready, route, page, reqs, draft, moves, errs, crossed>>

\* The bound on what other clients do to a Task.
Others(t) == srv[t].rev + Len(srv[t].atts) < MaxHistory

\* Another client retries a finished Attempt, at once or queued behind the one that runs.
AttemptRetried(t) ==
  /\ Others(t) /\ srv[t].life = "open"
  /\ Len(srv[t].atts) \in 1..(MaxAttempts - 1) /\ ~Active(Last(srv[t].atts))
  /\ \A s \in Tasks : \A i \in DOMAIN srv[s].atts : srv[s].atts[i] # "queued"
  /\ srv' = [srv EXCEPT ![t].atts = Append(@, "queued")]
  /\ UNCHANGED <<ready, route, page, reqs, draft, moves, errs, crossed>>

\* Another client edits, archives or unarchives the Task.
TaskChanged(t) ==
  /\ Exists(t) /\ Others(t)
  /\ \E life \in {"open", "archived"} :
       srv' = [srv EXCEPT ![t].life = life, ![t].rev = @ + 1]
  /\ UNCHANGED <<ready, route, page, reqs, draft, moves, errs, crossed>>

-----------------------------------------------------------------------------
Navigate ==
  \/ \E t \in Tasks : OpenTask(t)
  \/ NewTask \/ OpenAttempt \/ OpenStudio \/ Back \/ Leave \/ Jump
  \/ \E f \in Filters : ChangeFilter(f)

UserActs ==
  \/ LoadMore \/ RetryList \/ RetryLoad \/ AdmitFirstAttempt \/ ArchiveTask
  \/ \E v \in Texts \cup {Empty} : Type(v)
  \/ ReadinessChanges \/ Submit \/ OpenCreated

Network ==
  \E r \in reqs : Answer(r) \/ Fails(r) \/ Deliver(r)

Service == \E t \in Tasks : AttemptAdvances(t) \/ AttemptRetried(t) \/ TaskChanged(t)

Next == Navigate \/ UserActs \/ StartPoll \/ StopPoll \/ Network \/ Service

\* The polling loop comes round, the service answers and the browser delivers.
Fairness ==
  /\ WF_vars(StartPoll)
  /\ WF_vars(\E r \in reqs : r.kind \in {"load", "poll"} /\ (Answer(r) \/ Deliver(r)))

Spec == Init /\ [][Next]_vars /\ Fairness

-----------------------------------------------------------------------------
(* Every variable keeps its type: in particular the draft that draftStorage    *)
(* holds is a text, whatever the composer's effects and submissions store, and *)
(* no Task has more Attempts than the service admitted.                        *)
TypeOK ==
  /\ route.view \in Entity \cup {"inbox", "new", "other"}
  /\ \A t \in Tasks : Len(srv[t].atts) <= MaxAttempts
  /\ draft \in Texts \cup {Empty}
  /\ \A r \in reqs : r.kind \in Guarded \cup {"poll", "admit", "archive", "create", "start"}

(* TaskInbox never mixes results: once it says "loaded", what it lists are the *)
(* first pages, in order and without a gap, of the filter in the address,      *)
(* whichever filter changes, retries and Load more answers overlapped.         *)
InboxIsOneList ==
  route.view = "inbox" /\ page.status = "loaded" =>
    page.list = [i \in 1..Len(page.list) |-> <<route.filter, i>>]

\* Types, and the Inbox as one list of the addressed filter (TaskInbox).
InboxInv == TypeOK /\ InboxIsOneList

\* The Task or Attempt of the address.
Addressed == IF route.view = "detail" THEN route.task ELSE <<route.task, route.n>>

(* TaskDetail, AttemptDetail and PipelineStudio, once their load has ended     *)
(* (state "loaded"), show exactly the Task or Attempt of the address and no    *)
(* other, as long as the page did not switch entity in place with a request    *)
(* left running (their load effects abort only their own request).             *)
ShownIsAddressed ==
  route.view \in Entity /\ page.state = "loaded" /\ ~crossed => page.id = Addressed

(* Under the same two conditions, the outcome refreshTask, the load effects    *)
(* and the Studio put on the page is the outcome of what the page shows: of    *)
(* the latest Attempt of the Task, or of the Attempt in the Studio, through    *)
(* retries, polls that bring newer Attempts and reviews that arrive late.      *)
ReviewIsOfShown ==
  route.view \in Entity /\ page.state = "loaded" /\ ~crossed /\ page.review # None =>
    page.review = IF route.view = "detail" THEN <<page.id, Len(page.atts)>> ELSE page.id

(* A user of the Task page who presses Start again (admitFirstAttempt) because *)
(* the first answer was lost finds the Attempt of the first press: as long as  *)
(* the Task is open and at the revision it was started with, the service does  *)
(* not refuse the repeated start, and starts no other Attempt for it.          *)
OwnStartIsFound ==
  [][\A r \in reqs \ reqs' :
       LET t == srv[r.task]
           refused == [r EXCEPT !.res = "conflict", !.ans = None]
       IN /\ r.kind \in {"admit", "start"} /\ r.res = "none"
          /\ t.key # None /\ t.key.by = r.n /\ t.life = "open" /\ t.key.rev = t.rev
          => refused \notin reqs' \ reqs /\ srv'[r.task].atts = t.atts]_vars

(* What TaskComposer shows survives a reload of the tab: unless a submission   *)
(* is under way, the draft its effect stored is the text on the page.          *)
DraftIsSaved ==
  route.view = "new" /\ ~page.busy => draft = page.text

\* The page says an Attempt is going on that the service has finished.
Behind ==
  /\ route.view \in Entity /\ page.id # None
  /\ \E i \in DOMAIN page.atts : Active(page.atts[i])
  /\ LET t == IF route.view = "detail" THEN page.id ELSE page.id[1]
         n == IF route.view = "detail" THEN Len(page.atts) ELSE page.id[2]
     IN n \in DOMAIN srv[t].atts /\ ~Active(srv[t].atts[n])

(* An open page does not go on showing a finished Attempt as queued or         *)
(* running: some poll of usePollingLoop brings the end to refreshTask or       *)
(* refresh, though requests fail and users move.                               *)
CatchesUp == Behind ~> ~Behind
=============================================================================
