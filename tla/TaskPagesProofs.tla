------------------------- MODULE TaskPagesProofs -------------------------
(***************************************************************************)
(* Theorems about TaskPages, for any Tasks, filters, pages and numbers of  *)
(* user events and failures: the Inbox shows one list, a page shows what   *)
(* its address names with its own review, a repeated start finds the       *)
(* Attempt it had started while the Task is unchanged, and the composer's  *)
(* text is stored.  One inductive invariant, PagesInv, says what every     *)
(* request in flight will do to the page it belongs to.                    *)
(***************************************************************************)
EXTENDS TaskPages, SequenceTheorems, TLAPS

Views == Entity \cup {"inbox", "new", "other"}

Statuses == {"queued", "running", "done"}

-----------------------------------------------------------------------------
(* The invariant *)

\* Only the last Attempt of a Task may be in flight.
OnlyLastActive(atts) == \A i \in 1..Len(atts) : i < Len(atts) => ~Active(atts[i])

\* A Task of the registry: its key names the page that started it.
TaskOK(t) ==
  /\ DOMAIN t = {"life", "rev", "atts", "key"}
  /\ t.atts \in Seq(Statuses) /\ Len(t.atts) <= MaxAttempts /\ OnlyLastActive(t.atts)
  /\ t.key # None => t.key.key = <<t.key.by, 0>>

SrvOK == DOMAIN srv = Tasks /\ \A t \in Tasks : TaskOK(srv[t])

RouteOK(r) ==
  /\ DOMAIN r = {"view", "task", "n", "filter"} /\ r.view \in Views
  /\ r.view \in Entity => r.task \in Tasks

Answered(r) == r.res \notin {"none", "error"}

Listing(r) == r.kind \in {"list", "more"}

Fetching(r) == r.kind \in {"load", "poll"}

\* A request belongs to the page that is open, unless it acts on the service, and its answer
\* is of the kind it asked for.
ReqOK(r) ==
  /\ DOMAIN r = {"kind", "own", "task", "n", "arg", "phase", "res", "ans"}
  /\ r.kind \in Guarded \cup {"poll", "admit", "archive", "create", "start"}
  /\ r.kind \in Guarded \cup {"poll"} => r.own = TRUE
  /\ Listing(r) => /\ route.view = "inbox" /\ r.task = route.filter
                   /\ Answered(r) => r.ans = <<r.task, r.arg>>
  /\ r.kind = "list" => r.arg = 1
  /\ Fetching(r) => /\ route.view \in Entity /\ r.task \in Tasks /\ r.phase \in {"main", "review"}
                    /\ r.phase = "main" /\ Answered(r) => TaskOK(r.ans)
  /\ r.own /\ r.kind \in {"admit", "archive"} => route.view = "detail"
  /\ r.own /\ r.kind \in {"create", "start"} => route.view = "new"
  /\ r.kind \in {"admit", "start", "archive"} => r.task \in Tasks
  /\ r.kind = "create" /\ Answered(r) => r.ans \in Tasks
  /\ r.kind \in {"admit", "start", "create"} => r.arg = <<r.n, 0>>

ReqsOK == \A r \in reqs : ReqOK(r)

\* The pages listed are the first ones, and the one request for more asks for the next.
InboxOK ==
  route.view = "inbox" =>
    /\ DOMAIN page = {"list", "next", "status", "busy", "moreErr"}
    /\ page.status = "loaded" =>
         \E k \in 1..Pages : page.list = [i \in 1..k |-> <<route.filter, i>>] /\ page.next = NextPage(k)
    /\ \A q, r \in reqs : Listing(q) /\ Listing(r) => q = r
    /\ \A r \in reqs : /\ r.kind = "list" => page.status = "loading"
                       /\ r.kind = "more" /\ page.status = "loaded" => r.arg = page.next /\ r.arg # 0

ComposerOK ==
  route.view = "new" =>
    /\ DOMAIN page = {"text", "busy", "created", "err", "born"}
    /\ page.text \in Texts \cup {Empty} /\ page.created \in Tasks \cup {None}
    /\ ~page.busy => draft = page.text

EntityFields ==
  {"id", "life", "rev", "atts", "review", "notified", "revErr", "state", "adm", "admErr", "born"}

EntityTyped ==
  route.view \in Entity =>
    /\ DOMAIN page = EntityFields
    /\ route.view = "detail" => page.id \in Tasks \cup {None}

Quiet(atts) == \A i \in DOMAIN atts : ~Active(atts[i])

\* A load or poll under way asks for what the address names; a poll of a Task found it active,
\* so there was no review.
MainOK(r) ==
  /\ r.task = route.task /\ r.n = route.n
  /\ r.kind = "poll" /\ route.view = "detail" => page.review = None

\* A review under way is of what the page shows.
ReviewOK(r) ==
  /\ r.task = route.task /\ page.id = Addressed
  /\ route.view = "detail" => r.n = Len(page.atts) /\ Quiet(page.atts)
  /\ route.view = "studio" => r.n = route.n
  /\ route.view # "attempt"

\* What the requests of a page that did not switch in place do to it.
EntityOK ==
  route.view \in Entity /\ ~crossed =>
    /\ \A q, r \in reqs : Fetching(q) /\ Fetching(r) => q = r
    /\ \A r \in reqs :
         /\ r.kind = "load" => page.state = "loading"
         /\ Fetching(r) /\ r.phase = "main" => MainOK(r)
         /\ Fetching(r) /\ r.phase = "review" => ReviewOK(r)
         /\ r.kind = "archive" /\ r.own => r.task = route.task
    /\ page.state = "loaded" => page.id = Addressed
    /\ page.state = "loaded" /\ page.review # None =>
         page.review = IF route.view = "detail" THEN <<page.id, Len(page.atts)>> ELSE page.id
    /\ route.view = "attempt" => page.review = None
    /\ route.view = "detail" /\ page.review # None => Quiet(page.atts)

PagesInv ==
  /\ SrvOK /\ RouteOK(route) /\ draft \in Texts \cup {Empty} /\ ReqsOK
  /\ InboxOK /\ ComposerOK /\ EntityTyped /\ EntityOK

-----------------------------------------------------------------------------
(* Opening a page and going from one to another *)

\* The requests a page sends when it is opened.
LEMMA LoadRequestOK ==
  ASSUME NEW r, NEW q \in LoadRequest(r)
  PROVE  \/ /\ r.view \in Entity /\ r.view # "inbox" /\ r.view # "new"
            /\ q = Request("load", r.task, r.n, 0)
         \/ /\ r.view = "inbox" /\ r.view \notin Entity
            /\ q = Request("list", r.filter, 0, 1)
  BY DEF LoadRequest, Entity

LEMMA LoadRequestOne ==
  ASSUME NEW r, NEW p \in LoadRequest(r), NEW q \in LoadRequest(r)
  PROVE  p = q
  BY LoadRequestOK DEF Entity

\* What is left of a closed page's requests belongs to no page.
LEMMA UnmountedOK ==
  ASSUME NEW rs, \A q \in rs : ReqOK(q), NEW p \in Unmounted(rs)
  PROVE  /\ p.own = FALSE /\ p.kind \in {"admit", "archive", "create", "start"}
         /\ \E q \in rs : /\ p.kind = q.kind /\ p.task = q.task /\ p.n = q.n /\ p.arg = q.arg
                          /\ p.res = q.res /\ p.ans = q.ans
                          /\ DOMAIN p = DOMAIN q
  <1>1. PICK q \in rs : q.kind \notin Guarded \cup {"poll"} /\ p = [q EXCEPT !.own = FALSE]
    BY DEF Unmounted
  <1>2. DOMAIN q = {"kind", "own", "task", "n", "arg", "phase", "res", "ans"}
    BY DEF ReqOK
  <1>3. q.kind \in {"admit", "archive", "create", "start"}
    BY <1>1 DEF ReqOK
  <1> QED
    BY <1>1, <1>2, <1>3

\* A page of another kind starts afresh: its own load is the only request it has.
LEMMA FreshKeeps ==
  ASSUME PagesInv, NEW rs \in SUBSET reqs,
         RouteOK(route'), page' = FreshPage(route'.view),
         reqs' = Unmounted(rs) \cup LoadRequest(route'),
         srv' = srv, draft' \in Texts \cup {Empty}, route'.view = "new" => draft' = draft
  PROVE  PagesInv'
  <1> DEFINE r == route'
  <1>1. SrvOK' BY DEF PagesInv, SrvOK, TaskOK, OnlyLastActive
  <1>2. \A q \in rs : ReqOK(q) BY DEF PagesInv, ReqsOK
  <1>3. ASSUME NEW p \in reqs' PROVE ReqOK(p)'
    <2>1. CASE p \in Unmounted(rs)
      <3>1. PICK q \in rs : /\ p.kind = q.kind /\ p.task = q.task /\ p.n = q.n /\ p.arg = q.arg
                            /\ p.res = q.res /\ p.ans = q.ans
                            /\ DOMAIN p = DOMAIN q
        BY <1>2, <2>1, UnmountedOK
      <3>2. p.own = FALSE /\ p.kind \in {"admit", "archive", "create", "start"}
        BY <1>2, <2>1, UnmountedOK
      <3>3. ReqOK(q) BY <1>2
      <3> QED BY <3>1, <3>2, <3>3 DEF ReqOK, Guarded, Listing, Fetching, Answered
    <2>2. CASE p \in LoadRequest(r)
      <3>1. CASE r.view \in Entity /\ p = Request("load", r.task, r.n, 0)
        <4>1. r.task \in Tasks BY <3>1 DEF RouteOK
        <4>2. /\ p.kind = "load" /\ p.own = TRUE /\ p.task = r.task /\ p.phase = "main" /\ p.res = "none"
              /\ DOMAIN p = {"kind", "own", "task", "n", "arg", "phase", "res", "ans"}
          BY <3>1 DEF Request
        <4> QED BY <3>1, <4>1, <4>2 DEF ReqOK, Guarded, Listing, Fetching, Answered
      <3>2. CASE r.view = "inbox" /\ p = Request("list", r.filter, 0, 1)
        <4>1. /\ p.kind = "list" /\ p.own = TRUE /\ p.task = r.filter /\ p.arg = 1 /\ p.res = "none"
              /\ DOMAIN p = {"kind", "own", "task", "n", "arg", "phase", "res", "ans"}
          BY <3>2 DEF Request
        <4> QED BY <3>2, <4>1 DEF ReqOK, Guarded, Listing, Fetching, Answered
      <3> QED BY <2>2, <3>1, <3>2, LoadRequestOK
    <2> QED BY <1>3, <2>1, <2>2
  <1>4. \A p \in reqs' : Listing(p) \/ Fetching(p) => p \in LoadRequest(r)
    BY <1>2, UnmountedOK DEF Listing, Fetching
  <1>5. \A p, q \in reqs' : (Listing(p) \/ Fetching(p)) /\ (Listing(q) \/ Fetching(q)) => p = q
    BY <1>4, LoadRequestOne
  <1>6. InboxOK'
    <2> SUFFICES ASSUME r.view = "inbox" PROVE InboxOK' BY DEF InboxOK
    <2>1. page' = InboxPage BY DEF FreshPage, Entity
    <2>2. \A p \in reqs' : p.kind # "more" BY <1>4, LoadRequestOK DEF Listing, Request
    <2> QED BY <1>5, <2>1, <2>2 DEF InboxOK, InboxPage
  <1>7. ComposerOK'
    <2> SUFFICES ASSUME r.view = "new" PROVE ComposerOK' BY DEF ComposerOK
    <2>1. page' = ComposerPage BY DEF FreshPage, Entity
    <2> QED BY <2>1 DEF ComposerOK, ComposerPage, PagesInv
  <1>8. ASSUME r.view \in Entity PROVE page' = EntityPage
    BY <1>8 DEF FreshPage, Entity
  <1>9. EntityTyped' BY <1>8 DEF EntityTyped, EntityPage, EntityFields
  <1>10. EntityOK'
    <2> SUFFICES ASSUME r.view \in Entity PROVE EntityOK' BY DEF EntityOK
    <2>1. page'.state = "loading" /\ page'.review = None BY <1>8 DEF EntityPage
    <2>2. \A p \in reqs' : Fetching(p) => p = Request("load", r.task, r.n, 0)
      BY <1>4, LoadRequestOK
    <2>3. \A p \in reqs' : Fetching(p) => p.kind = "load" /\ p.phase = "main" /\ MainOK(p)'
      BY <2>2 DEF Request, MainOK
    <2>4. \A p \in reqs' : ~ (p.kind = "archive" /\ p.own)
      <3>1. \A p \in Unmounted(rs) : p.own = FALSE BY <1>2, UnmountedOK
      <3>2. \A p \in LoadRequest(r) : p.kind # "archive" BY LoadRequestOK DEF Request
      <3> QED BY <3>1, <3>2
    <2> QED BY <1>5, <2>1, <2>3, <2>4 DEF EntityOK, Fetching
  <1> QED BY <1>1, <1>3, <1>6, <1>7, <1>9, <1>10 DEF PagesInv, ReqsOK

\* A load of the same page aborts the requests of its effect and asks anew.
LEMMA AbortLoadOK ==
  ASSUME NEW rs, \A q \in rs : ReqOK(q), NEW p \in AbortLoad(rs)
  PROVE  p \in rs /\ p.kind \notin Guarded
  BY DEF AbortLoad, ReqOK

\* The page goes on to another address of its kind, or loads again what it shows: what it was
\* still fetching is crossed.
LEMMA SameKeeps ==
  ASSUME PagesInv, NEW rs \in SUBSET reqs,
         RouteOK(route'), route'.view = route.view, route.view \in Entity \cup {"inbox"},
         route.view \in Entity =>
           /\ DOMAIN page' = EntityFields /\ page'.id = page.id /\ page'.state = "loading"
           /\ page'.review = page.review /\ page'.atts = page.atts
           /\ ~crossed' => /\ ~crossed
                           /\ \A q \in rs : q.kind # "poll"
                           /\ \A q \in rs : q.kind = "archive" /\ q.own => q.task = route'.task,
         route.view = "inbox" =>
           DOMAIN page' = DOMAIN page /\ page'.status = "loading",
         reqs' = AbortLoad(rs) \cup LoadRequest(route'),
         srv' = srv, draft' \in Texts \cup {Empty}
  PROVE  PagesInv'
  <1> DEFINE r == route'
  <1>1. SrvOK' BY DEF PagesInv, SrvOK, TaskOK, OnlyLastActive
  <1>2. \A q \in rs : ReqOK(q) BY DEF PagesInv, ReqsOK
  <1>3. \A p \in AbortLoad(rs) : p \in rs /\ p.kind \notin Guarded
    BY <1>2, AbortLoadOK
  <1>4. ASSUME NEW p \in reqs' PROVE ReqOK(p)'
    <2>1. CASE p \in AbortLoad(rs)
      <3>1. ReqOK(p) /\ p.kind \notin Guarded BY <1>2, <1>3, <2>1
      <3> QED BY <3>1 DEF ReqOK, Guarded, Listing, Fetching, Answered
    <2>2. CASE r.view \in Entity /\ p = Request("load", r.task, r.n, 0)
      <3>1. r.task \in Tasks BY <2>2 DEF RouteOK
      <3>2. /\ p.kind = "load" /\ p.own = TRUE /\ p.task = r.task /\ p.phase = "main" /\ p.res = "none"
            /\ DOMAIN p = {"kind", "own", "task", "n", "arg", "phase", "res", "ans"}
        BY <2>2 DEF Request
      <3> QED BY <2>2, <3>1, <3>2 DEF ReqOK, Guarded, Listing, Fetching, Answered
    <2>3. CASE r.view = "inbox" /\ p = Request("list", r.filter, 0, 1)
      <3>1. /\ p.kind = "list" /\ p.own = TRUE /\ p.task = r.filter /\ p.arg = 1 /\ p.res = "none"
            /\ DOMAIN p = {"kind", "own", "task", "n", "arg", "phase", "res", "ans"}
        BY <2>3 DEF Request
      <3> QED BY <2>3, <3>1 DEF ReqOK, Guarded, Listing, Fetching, Answered
    <2> QED BY <1>4, <2>1, <2>2, <2>3, LoadRequestOK
  <1>5. InboxOK'
    <2> SUFFICES ASSUME r.view = "inbox" PROVE InboxOK' BY DEF InboxOK
    <2>1. \A p \in reqs' : Listing(p) => p \in LoadRequest(r)
      BY <1>3 DEF Listing, Guarded
    <2>2. \A p \in reqs' : Listing(p) => p.kind # "more"
      BY <2>1, LoadRequestOK DEF Request
    <2>3. \A p, q \in reqs' : Listing(p) /\ Listing(q) => p = q BY <2>1, LoadRequestOne
    <2>4. DOMAIN page' = DOMAIN page /\ page'.status = "loading" OBVIOUS
    <2> QED BY <2>2, <2>3, <2>4 DEF InboxOK, PagesInv, Listing
  <1>6. ComposerOK' BY DEF ComposerOK, Entity
  <1>7. EntityTyped' BY DEF EntityTyped, PagesInv, Entity
  <1>8. EntityOK'
    <2> SUFFICES ASSUME r.view \in Entity, ~crossed' PROVE EntityOK' BY DEF EntityOK
    <2>1. \A p \in reqs' : Fetching(p) => p \in LoadRequest(r)
      BY <1>3 DEF Fetching, Guarded
    <2>2. \A p \in reqs' : Fetching(p) => p.kind = "load" /\ p.phase = "main" /\ MainOK(p)'
      BY <2>1, LoadRequestOK DEF Request, MainOK
    <2>3. \A p, q \in reqs' : Fetching(p) /\ Fetching(q) => p = q BY <2>1, LoadRequestOne
    <2>4. \A p \in reqs' : p.kind = "archive" /\ p.own => p.task = r.task
      <3>1. \A p \in LoadRequest(r) : p.kind # "archive" BY LoadRequestOK DEF Request
      <3> QED BY <1>3, <3>1
    <2>5. page'.state = "loading" /\ page'.review = page.review /\ page'.atts = page.atts
      OBVIOUS
    <2>6. /\ route.view = "attempt" => page.review = None
          /\ route.view = "detail" /\ page.review # None => Quiet(page.atts)
      BY DEF EntityOK, PagesInv
    <2> QED BY <2>2, <2>3, <2>4, <2>5, <2>6 DEF EntityOK, Fetching, Quiet
  <1> QED BY <1>1, <1>4, <1>5, <1>6, <1>7, <1>8 DEF PagesInv, ReqsOK

\* What stays on a page of the same kind.
LEMMA SamePageOK ==
  ASSUME EntityTyped, NEW r, r.view = route.view, route.view \in Entity
  PROVE  /\ DOMAIN SamePage(r) = EntityFields /\ SamePage(r).state = "loading"
         /\ SamePage(r).id = page.id /\ SamePage(r).review = page.review /\ SamePage(r).atts = page.atts
  <1>1. DOMAIN page = EntityFields BY DEF EntityTyped
  <1>2. CASE r.view = "detail"
    <2>1. SamePage(r) = [page EXCEPT !.state = "loading", !.revErr = FALSE, !.adm = "idle",
                                     !.admErr = FALSE, !.born = moves]
      BY <1>2 DEF SamePage
    <2> QED BY <1>1, <2>1 DEF EntityFields
  <1>3. CASE r.view # "detail"
    <2>1. SamePage(r) = [page EXCEPT !.state = "loading"]
      BY <1>3 DEF SamePage, Entity
    <2> QED BY <1>1, <2>1 DEF EntityFields
  <1> QED BY <1>2, <1>3

\* What a step of the service means for an open page: nothing.
LEMMA AroundSrv ==
  ASSUME PagesInv, SrvOK', UNCHANGED <<route, page, reqs, draft, crossed>>
  PROVE  PagesInv'
  <1>1. SrvOK' OBVIOUS
  <1>2. RouteOK(route)' /\ (draft \in Texts \cup {Empty})' BY DEF PagesInv, RouteOK
  <1>3. ReqsOK'
    <2>1. ASSUME NEW q \in reqs, ReqOK(q) PROVE ReqOK(q)'
      BY <2>1 DEF ReqOK, Answered, Listing, Fetching
    <2> QED BY <2>1 DEF ReqsOK, PagesInv
  <1>4. InboxOK' BY DEF PagesInv, InboxOK, Listing, NextPage
  <1>5. ComposerOK' /\ EntityTyped' BY DEF PagesInv, ComposerOK, EntityTyped
  <1>6. EntityOK' BY DEF PagesInv, EntityOK, MainOK, ReviewOK, Quiet, Addressed, Fetching
  <1> QED BY <1>1, <1>2, <1>3, <1>4, <1>5, <1>6 DEF PagesInv

LEMMA StutterKeeps ==
  ASSUME PagesInv, UNCHANGED <<srv, route, page, reqs, draft, crossed>>
  PROVE  PagesInv'
  <1>1. SrvOK' BY DEF PagesInv, SrvOK, TaskOK, OnlyLastActive
  <1> QED BY <1>1, AroundSrv

\* Every navigation opens another page or goes on in the same one.
LEMMA GoKeeps ==
  ASSUME PagesInv, NEW r, RouteOK(r), Go(r), UNCHANGED <<srv, draft>>
  PROVE  PagesInv'
  <1>1. route' = r BY DEF Go
  <1>2. CASE r.view # route.view
    <2>1. page' = FreshPage(r.view) /\ reqs' = Unmounted(reqs) \cup LoadRequest(r)
      BY <1>2 DEF Go
    <2>2. draft \in Texts \cup {Empty} BY DEF PagesInv
    <2> QED BY <1>1, <2>1, <2>2, FreshKeeps
  <1>3. CASE r.view = route.view /\ (r = route \/ r.view \notin Entity \cup {"inbox"})
    <2>1. UNCHANGED <<page, reqs, crossed>> BY <1>3 DEF Go
    <2>2. CASE r = route BY <1>1, <2>1, <2>2, StutterKeeps
    <2>3. CASE r.view \notin Entity \cup {"inbox"}
      <3>1. SrvOK' BY DEF PagesInv, SrvOK, TaskOK, OnlyLastActive
      <3>2. ASSUME NEW q \in reqs, ReqOK(q) PROVE ReqOK(q)'
        BY <1>1, <1>3, <2>3, <3>2 DEF ReqOK, Answered, Listing, Fetching
      <3>3. InboxOK' /\ ComposerOK' /\ EntityTyped' /\ EntityOK'
        BY <1>1, <1>3, <2>1, <2>3 DEF PagesInv, InboxOK, ComposerOK, EntityTyped, EntityOK
      <3> QED BY <1>1, <2>1, <3>1, <3>2, <3>3 DEF PagesInv, ReqsOK
    <2> QED BY <1>3, <2>2, <2>3
  <1>4. CASE r.view = route.view /\ r # route /\ r.view \in Entity \cup {"inbox"}
    <2>1. /\ page' = SamePage(r) /\ reqs' = AbortLoad(reqs) \cup LoadRequest(r)
          /\ crossed' = (crossed \/ (r.view \in Entity /\ \E q \in reqs : q.own /\ q.kind \notin Guarded))
      BY <1>4 DEF Go
    <2>2. ASSUME route.view \in Entity
          PROVE  /\ DOMAIN page' = EntityFields /\ page'.id = page.id /\ page'.state = "loading"
                 /\ page'.review = page.review /\ page'.atts = page.atts
      BY <1>4, <2>1, <2>2, SamePageOK DEF PagesInv
    <2>3. ASSUME ~crossed', route.view \in Entity
          PROVE  /\ ~crossed
                 /\ \A q \in reqs : q.kind # "poll"
                 /\ \A q \in reqs : q.kind = "archive" => ~q.own
      <3>1. ~crossed /\ ~ \E q \in reqs : q.own /\ q.kind \notin Guarded
        BY <1>4, <2>1, <2>3, Zenon
      <3>2. \A q \in reqs : q.kind = "poll" => q.own = TRUE BY DEF PagesInv, ReqsOK, ReqOK
      <3>3. "poll" \notin Guarded /\ "archive" \notin Guarded BY DEF Guarded
      <3>4. ASSUME NEW q \in reqs PROVE q.kind # "poll" BY <3>1, <3>2, <3>3, Zenon
      <3>5. ASSUME NEW q \in reqs, q.kind = "archive" PROVE ~q.own BY <3>1, <3>3, <3>5, Zenon
      <3> QED BY <3>1, <3>4, <3>5
    <2>4. route.view = "inbox" => DOMAIN page' = DOMAIN page /\ page'.status = "loading"
      BY <1>4, <2>1 DEF SamePage, PagesInv, InboxOK, Entity
    <2>5. draft \in Texts \cup {Empty} BY DEF PagesInv
    <2> QED BY <1>1, <1>4, <2>1, <2>2, <2>3, <2>4, <2>5, SameKeeps
  <1> QED BY <1>2, <1>3, <1>4

-----------------------------------------------------------------------------
(* Requests and their answers *)

\* Whatever a page already expects may go on or be dropped.
LEMMA ReqsPersist ==
  ASSUME ReqsOK, route' = route, NEW q, reqs' \subseteq reqs \cup {q}, q \in reqs' => ReqOK(q)
  PROVE  ReqsOK'
  <1>1. ASSUME NEW p, ReqOK(p) PROVE ReqOK(p)'
    BY <1>1 DEF ReqOK, Answered, Listing, Fetching
  <1> QED BY <1>1 DEF ReqsOK

\* The service or the network gives a request its result.
LEMMA ResultKeeps ==
  ASSUME PagesInv, NEW r \in reqs, NEW r1, ReqOK(r1), SrvOK',
         r1.kind = r.kind, r1.own = r.own, r1.task = r.task, r1.n = r.n, r1.arg = r.arg,
         r1.phase = r.phase,
         reqs' = (reqs \ {r}) \cup {r1}, UNCHANGED <<route, page, draft, crossed>>
  PROVE  PagesInv'
  <1>1. ReqsOK' BY ReqsPersist DEF PagesInv
  <1>2. RouteOK(route)' /\ (draft \in Texts \cup {Empty})' BY DEF PagesInv, RouteOK
  <1>3. \A p \in reqs' : p = r1 \/ (p \in reqs /\ p # r) OBVIOUS
  <1>4. ASSUME NEW p \in reqs'
        PROVE  \E q \in reqs : /\ p.kind = q.kind /\ p.own = q.own /\ p.task = q.task /\ p.n = q.n
                               /\ p.arg = q.arg /\ p.phase = q.phase
    BY <1>3
  <1>5. InboxOK'
    <2> SUFFICES ASSUME route.view = "inbox" PROVE InboxOK' BY DEF InboxOK
    <2>1. \A p, q \in reqs' : Listing(p) /\ Listing(q) => p = q
      BY <1>3 DEF PagesInv, InboxOK, Listing
    <2>2. \A p \in reqs' : /\ p.kind = "list" => page.status = "loading"
                          /\ p.kind = "more" /\ page.status = "loaded" => p.arg = page.next /\ p.arg # 0
      BY <1>4 DEF PagesInv, InboxOK
    <2> QED BY <2>1, <2>2 DEF PagesInv, InboxOK, NextPage
  <1>6. ComposerOK' /\ EntityTyped' BY DEF PagesInv, ComposerOK, EntityTyped
  <1>7. EntityOK'
    <2> SUFFICES ASSUME route.view \in Entity, ~crossed PROVE EntityOK' BY DEF EntityOK
    <2>1. EntityOK BY DEF PagesInv
    <2>2. \A p, q \in reqs' : Fetching(p) /\ Fetching(q) => p = q
      BY <1>3, <2>1 DEF EntityOK, Fetching
    <2>3. ASSUME NEW p \in reqs'
          PROVE  /\ p.kind = "load" => page.state = "loading"
                 /\ Fetching(p) /\ p.phase = "main" => MainOK(p)
                 /\ Fetching(p) /\ p.phase = "review" => ReviewOK(p)
                 /\ p.kind = "archive" /\ p.own => p.task = route.task
      <3>1. PICK q \in reqs : /\ p.kind = q.kind /\ p.own = q.own /\ p.task = q.task /\ p.n = q.n
                              /\ p.arg = q.arg /\ p.phase = q.phase
        BY <1>4, <2>3
      <3> QED BY <2>1, <3>1 DEF EntityOK, Fetching, MainOK, ReviewOK
    <2> QED BY <2>1, <2>2, <2>3 DEF EntityOK, MainOK, ReviewOK, Addressed, Quiet, Fetching
  <1> QED BY <1>1, <1>2, <1>5, <1>6, <1>7 DEF PagesInv

\* Requests are dropped, or one is added that only acts on the service.
LEMMA SideKeeps ==
  ASSUME PagesInv, UNCHANGED <<srv, route, page, draft, crossed>>,
         \A p \in reqs' : \/ p \in reqs
                          \/ ReqOK(p) /\ p.kind \in {"admit", "create", "start"}
  PROVE  PagesInv'
  <1>1. ReqsOK'
    <2>1. ASSUME NEW p, ReqOK(p) PROVE ReqOK(p)'
      BY <2>1 DEF ReqOK, Answered, Listing, Fetching
    <2> QED BY <2>1 DEF ReqsOK, PagesInv
  <1>2. \A p \in reqs' : Listing(p) \/ Fetching(p) \/ p.kind = "archive" => p \in reqs
    BY DEF Listing, Fetching
  <1>3. InboxOK' BY <1>2 DEF PagesInv, InboxOK, Listing, NextPage
  <1>4. ComposerOK' /\ EntityTyped' BY DEF PagesInv, ComposerOK, EntityTyped
  <1>5. EntityOK'
    <2> SUFFICES ASSUME route.view \in Entity, ~crossed PROVE EntityOK' BY DEF EntityOK
    <2>1. EntityOK BY DEF PagesInv
    <2> QED BY <1>2, <2>1 DEF EntityOK, MainOK, ReviewOK, Fetching, Addressed, Quiet
  <1>6. SrvOK' /\ RouteOK(route)' /\ (draft \in Texts \cup {Empty})'
    BY DEF PagesInv, SrvOK, TaskOK, OnlyLastActive, RouteOK
  <1> QED BY <1>1, <1>3, <1>4, <1>5, <1>6 DEF PagesInv

\* A registry in which one Task changes.
LEMMA SrvUpdate ==
  ASSUME SrvOK, NEW t, NEW rec, t \in Tasks => TaskOK(rec), srv' = [srv EXCEPT ![t] = rec]
  PROVE  SrvOK'
  <1>1. DOMAIN srv' = Tasks /\ \A u \in Tasks : srv'[u] = IF u = t THEN rec ELSE srv[u]
    BY DEF SrvOK
  <1>2. ASSUME NEW u \in Tasks PROVE TaskOK(srv'[u])
    BY <1>1 DEF SrvOK
  <1> QED BY <1>1, <1>2 DEF SrvOK, TaskOK, OnlyLastActive

\* A Task just created or started has one Attempt at most.
LEMMA FirstAttempt ==
  ASSUME NEW t, DOMAIN t = {"life", "rev", "atts", "key"},
         t.atts = <<>> \/ t.atts = <<"queued">>, t.key # None => t.key.key = <<t.key.by, 0>>
  PROVE  TaskOK(t)
  <1>1. t.atts \in Seq(Statuses) /\ Len(t.atts) <= 1 /\ Len(t.atts) \in Nat
    <2>1. CASE t.atts = <<>> BY <2>1
    <2>2. CASE t.atts = <<"queued">>
      <3>1. "queued" \in Statuses BY DEF Statuses
      <3>2. <<"queued">> \in Seq(Statuses) BY <3>1
      <3>3. Len(<<"queued">>) = 1 OBVIOUS
      <3> QED BY <2>2, <3>2, <3>3
    <2> QED BY <2>1, <2>2
  <1> QED BY <1>1, TaskPagesConstants DEF TaskOK, OnlyLastActive

LEMMA AnswerReadKeeps ==
  ASSUME PagesInv, NEW r \in reqs, Answer(r), AnswerRead(r)
  PROVE  PagesInv'
  <1>1. ReqOK(r) BY DEF PagesInv, ReqsOK
  <1>2. SrvOK' BY DEF AnswerRead, PagesInv, SrvOK, TaskOK, OnlyLastActive
  <1>3. CASE \E a \in Replies(r) : reqs' = (reqs \ {r}) \cup {[r EXCEPT !.res = "ok", !.ans = a]}
    <2>1. PICK a \in Replies(r) : reqs' = (reqs \ {r}) \cup {[r EXCEPT !.res = "ok", !.ans = a]}
      BY <1>3
    <2> DEFINE r1 == [r EXCEPT !.res = "ok", !.ans = a]
    <2>2. /\ DOMAIN r1 = DOMAIN r /\ r1.kind = r.kind /\ r1.own = r.own /\ r1.task = r.task
          /\ r1.n = r.n /\ r1.arg = r.arg /\ r1.phase = r.phase /\ r1.res = "ok" /\ r1.ans = a
      BY <1>1 DEF ReqOK
    <2>3. /\ Listing(r) => a = <<r.task, r.arg>>
          /\ Fetching(r) /\ r.phase = "main" => TaskOK(a)
      <3>1. Listing(r) => Replies(r) = {<<r.task, r.arg>>} BY DEF Replies, Listing
      <3>2. ASSUME Fetching(r), r.phase = "main" PROVE a = srv[r.task]
        <4>1. Replies(r) = IF r.n <= Len(srv[r.task].atts) THEN {srv[r.task]} ELSE {}
          BY <3>2 DEF Replies, Fetching
        <4> QED BY <2>1, <4>1
      <3>3. Fetching(r) => r.task \in Tasks BY <1>1 DEF ReqOK
      <3> QED BY <3>1, <3>2, <3>3 DEF PagesInv, SrvOK
    <2>4. r.kind \in Guarded \cup {"poll"} BY DEF AnswerRead
    <2> HIDE DEF r1
    <2>5. ReqOK(r1) BY <1>1, <2>2, <2>3, <2>4 DEF ReqOK, Guarded, Listing, Fetching, Answered
    <2>6. reqs' = (reqs \ {r}) \cup {r1} BY <2>1 DEF r1
    <2> QED BY <1>2, <2>2, <2>5, <2>6, ResultKeeps DEF Answer
  <1>4. CASE reqs' = (reqs \ {r}) \cup {[r EXCEPT !.res = "error"]}
    <2> DEFINE r1 == [r EXCEPT !.res = "error"]
    <2>1. /\ DOMAIN r1 = DOMAIN r /\ r1.kind = r.kind /\ r1.own = r.own /\ r1.task = r.task
          /\ r1.n = r.n /\ r1.arg = r.arg /\ r1.phase = r.phase /\ r1.res = "error"
      BY <1>1 DEF ReqOK
    <2> HIDE DEF r1
    <2>2. ReqOK(r1) BY <1>1, <2>1 DEF ReqOK, Listing, Fetching, Answered
    <2>3. reqs' = (reqs \ {r}) \cup {r1} BY <1>4 DEF r1
    <2> QED BY <1>2, <2>1, <2>2, <2>3, ResultKeeps DEF Answer
  <1> QED BY <1>3, <1>4 DEF AnswerRead

\* The first start of a Task records the key of the page; any other start changes nothing.
LEMMA AnswerAdmissionKeeps ==
  ASSUME PagesInv, NEW r \in reqs, Answer(r), AnswerAdmission(r)
  PROVE  PagesInv'
  <1>1. ReqOK(r) /\ r.kind \in {"admit", "start"} BY DEF PagesInv, ReqsOK, AnswerAdmission
  <1>2. r.task \in Tasks /\ r.arg = <<r.n, 0>> BY <1>1 DEF ReqOK
  <1>3. SrvOK'
    <2>1. CASE srv' = srv BY <2>1 DEF PagesInv, SrvOK, TaskOK, OnlyLastActive
    <2>2. CASE srv' = [srv EXCEPT ![r.task].atts = <<"queued">>,
                                  ![r.task].key = [key |-> r.arg, by |-> r.n, rev |-> srv[r.task].rev]]
      <3> DEFINE rec == [srv[r.task] EXCEPT !.atts = <<"queued">>,
                                            !.key = [key |-> r.arg, by |-> r.n, rev |-> srv[r.task].rev]]
      <3>1. DOMAIN srv[r.task] = {"life", "rev", "atts", "key"}
        BY <1>2 DEF PagesInv, SrvOK, TaskOK
      <3>2. /\ DOMAIN rec = {"life", "rev", "atts", "key"} /\ rec.atts = <<"queued">>
            /\ rec.key.key = <<r.n, 0>> /\ rec.key.by = r.n
        BY <1>2, <3>1
      <3>3. srv' = [srv EXCEPT ![r.task] = rec] BY <2>2, <1>2 DEF PagesInv, SrvOK
      <3> HIDE DEF rec
      <3>4. TaskOK(rec) BY <3>2, FirstAttempt
      <3> QED BY <3>3, <3>4, SrvUpdate DEF PagesInv
    <2> QED BY <2>1, <2>2 DEF AnswerAdmission
  <1>4. \E res, n : reqs' = (reqs \ {r}) \cup {[r EXCEPT !.res = res, !.ans = n]}
    BY DEF AnswerAdmission
  <1>5. PICK r1, res, n : reqs' = (reqs \ {r}) \cup {r1} /\ r1 = [r EXCEPT !.res = res, !.ans = n]
    BY <1>4
  <1>6. /\ DOMAIN r1 = DOMAIN r /\ r1.kind = r.kind /\ r1.own = r.own /\ r1.task = r.task
        /\ r1.n = r.n /\ r1.arg = r.arg /\ r1.phase = r.phase
    BY <1>1, <1>5 DEF ReqOK
  <1>7. ReqOK(r1) BY <1>1, <1>6 DEF ReqOK, Guarded, Listing, Fetching
  <1> QED BY <1>3, <1>5, <1>6, <1>7, ResultKeeps DEF Answer

LEMMA AnswerArchiveKeeps ==
  ASSUME PagesInv, NEW r \in reqs, Answer(r), AnswerArchive(r)
  PROVE  PagesInv'
  <1>1. ReqOK(r) /\ r.kind = "archive" BY DEF PagesInv, ReqsOK, AnswerArchive
  <1>2. r.task \in Tasks BY <1>1 DEF ReqOK
  <1> DEFINE next == [srv[r.task] EXCEPT !.life = r.arg, !.rev = srv[r.task].rev + 1]
  <1>3. TaskOK(srv[r.task]) BY <1>2 DEF PagesInv, SrvOK
  <1>4. DOMAIN next = DOMAIN srv[r.task] /\ next.atts = srv[r.task].atts /\ next.key = srv[r.task].key
    BY <1>3 DEF TaskOK
  <1>5. (srv' = [srv EXCEPT ![r.task] = next]) \/ srv' = srv BY DEF AnswerArchive
  <1>6. PICK r1 : /\ reqs' = (reqs \ {r}) \cup {r1}
                  /\ r1 = [r EXCEPT !.res = "ok", !.ans = next] \/ r1 = [r EXCEPT !.res = "error"]
    BY DEF AnswerArchive
  <1>7. /\ DOMAIN r1 = DOMAIN r /\ r1.kind = r.kind /\ r1.own = r.own /\ r1.task = r.task
        /\ r1.n = r.n /\ r1.arg = r.arg /\ r1.phase = r.phase
    BY <1>1, <1>6 DEF ReqOK
  <1> HIDE DEF next
  <1>8. SrvOK'
    <2>1. TaskOK(next) BY <1>3, <1>4 DEF TaskOK
    <2>2. CASE srv' = srv BY <2>2 DEF PagesInv, SrvOK, TaskOK, OnlyLastActive
    <2>3. CASE srv' = [srv EXCEPT ![r.task] = next] BY <2>1, <2>3, SrvUpdate DEF PagesInv
    <2> QED BY <1>5, <2>2, <2>3
  <1>9. ReqOK(r1) BY <1>1, <1>7 DEF ReqOK, Guarded, Listing, Fetching
  <1> QED BY <1>6, <1>7, <1>8, <1>9, ResultKeeps DEF Answer

LEMMA AnswerCreateKeeps ==
  ASSUME PagesInv, NEW r \in reqs, Answer(r), AnswerCreate(r)
  PROVE  PagesInv'
  <1>1. ReqOK(r) /\ r.kind = "create" BY DEF PagesInv, ReqsOK, AnswerCreate
  <1>2. PICK t \in Tasks : /\ srv' = [srv EXCEPT ![t] = InitialTask("open", <<>>)]
                           /\ reqs' = (reqs \ {r}) \cup {[r EXCEPT !.res = "ok", !.ans = t]}
    BY DEF AnswerCreate
  <1>3. TaskOK(InitialTask("open", <<>>)) BY FirstAttempt DEF InitialTask
  <1>4. SrvOK' BY <1>2, <1>3, SrvUpdate DEF PagesInv
  <1>5. PICK r1 : r1 = [r EXCEPT !.res = "ok", !.ans = t] OBVIOUS
  <1>6. /\ DOMAIN r1 = DOMAIN r /\ r1.kind = r.kind /\ r1.own = r.own /\ r1.task = r.task
        /\ r1.n = r.n /\ r1.arg = r.arg /\ r1.phase = r.phase /\ r1.ans = t
    BY <1>1, <1>5 DEF ReqOK
  <1>7. ReqOK(r1) BY <1>1, <1>6 DEF ReqOK, Guarded, Listing, Fetching
  <1> QED BY <1>2, <1>4, <1>5, <1>6, <1>7, ResultKeeps DEF Answer

LEMMA AnswerKeeps ==
  ASSUME PagesInv, NEW r \in reqs, Answer(r) \/ Fails(r)
  PROVE  PagesInv'
  <1>1. CASE Answer(r)
    BY <1>1, AnswerReadKeeps, AnswerAdmissionKeeps, AnswerArchiveKeeps, AnswerCreateKeeps DEF Answer
  <1>2. CASE Fails(r)
    <2>1. ReqOK(r) BY DEF PagesInv, ReqsOK
    <2>2. PICK r1 : r1 = [r EXCEPT !.res = "error", !.ans = None] OBVIOUS
    <2>3. /\ DOMAIN r1 = DOMAIN r /\ r1.kind = r.kind /\ r1.own = r.own /\ r1.task = r.task
          /\ r1.n = r.n /\ r1.arg = r.arg /\ r1.phase = r.phase /\ r1.res = "error"
      BY <2>1, <2>2 DEF ReqOK
    <2>4. ReqOK(r1) BY <2>1, <2>3 DEF ReqOK, Listing, Fetching, Answered
    <2>5. SrvOK' BY <1>2 DEF Fails, PagesInv, SrvOK, TaskOK, OnlyLastActive
    <2> QED BY <1>2, <2>2, <2>3, <2>4, <2>5, ResultKeeps DEF Fails
  <1> QED BY <1>1, <1>2

\* Runs go on, and other clients retry, edit or archive: the last Attempt changes, one is appended
\* to an ended one, or the Attempts stay as they are.
LEMMA ServiceKeeps ==
  ASSUME PagesInv, NEW t \in Tasks, AttemptAdvances(t) \/ AttemptRetried(t) \/ TaskChanged(t)
  PROVE  PagesInv'
  <1> DEFINE s == srv[t].atts
             n == Len(srv[t].atts)
  <1>1. /\ TaskOK(srv[t]) /\ s \in Seq(Statuses) /\ n \in Nat /\ DOMAIN srv = Tasks
        /\ DOMAIN srv[t] = {"life", "rev", "atts", "key"} /\ n <= MaxAttempts
    BY DEF PagesInv, SrvOK, TaskOK
  <1>2. ASSUME AttemptAdvances(t) \/ AttemptRetried(t)
        PROVE  \E new : /\ srv' = [srv EXCEPT ![t] = [srv[t] EXCEPT !.atts = new]]
                        /\ new \in Seq(Statuses) /\ Len(new) <= MaxAttempts /\ OnlyLastActive(new)
    <2>1. CASE AttemptAdvances(t)
      <3>1. PICK st \in Statuses : srv' = [srv EXCEPT ![t] = [srv[t] EXCEPT !.atts = [s EXCEPT ![n] = st]]]
        BY <2>1, <1>1 DEF AttemptAdvances, Statuses
      <3>2. n \in 1..Len(s) BY <2>1, <1>1 DEF AttemptAdvances
      <3>3. PICK new : new = [s EXCEPT ![n] = st] OBVIOUS
      <3>4. new \in Seq(Statuses) /\ Len(new) = n /\ \A i \in 1..n : i < n => new[i] = s[i]
        BY <1>1, <3>2, <3>3
      <3>5. OnlyLastActive(new) BY <1>1, <3>4 DEF OnlyLastActive, TaskOK
      <3> QED BY <1>1, <3>1, <3>3, <3>4, <3>5
    <2>2. CASE AttemptRetried(t)
      <3>1. /\ srv' = [srv EXCEPT ![t] = [srv[t] EXCEPT !.atts = Append(s, "queued")]]
            /\ n \in 1..(MaxAttempts - 1) /\ ~Active(s[n])
        BY <2>2, <1>1 DEF AttemptRetried, Last
      <3>2. PICK new : new = Append(s, "queued") OBVIOUS
      <3>3. /\ new \in Seq(Statuses) /\ Len(new) = n + 1
            /\ \A i \in 1..Len(new) : i < Len(new) => i \in 1..n /\ new[i] = s[i]
        BY <1>1, <3>2 DEF Statuses
      <3>4. OnlyLastActive(new) BY <1>1, <3>1, <3>3 DEF OnlyLastActive, TaskOK
      <3>5. Len(new) <= MaxAttempts BY <1>1, <3>1, <3>3, TaskPagesConstants
      <3> QED BY <3>1, <3>2, <3>3, <3>4, <3>5
    <2> QED BY <1>2, <2>1, <2>2
  <1>3. CASE AttemptAdvances(t) \/ AttemptRetried(t)
    <2>1. PICK new : /\ srv' = [srv EXCEPT ![t] = [srv[t] EXCEPT !.atts = new]]
                     /\ new \in Seq(Statuses) /\ Len(new) <= MaxAttempts /\ OnlyLastActive(new)
      BY <1>2, <1>3
    <2>2. PICK rec : rec = [srv[t] EXCEPT !.atts = new] OBVIOUS
    <2>3. DOMAIN rec = DOMAIN srv[t] /\ rec.atts = new /\ rec.key = srv[t].key
      BY <1>1, <2>2
    <2>4. TaskOK(rec) BY <1>1, <2>1, <2>3 DEF TaskOK
    <2>5. SrvOK' BY <2>1, <2>2, <2>4, SrvUpdate DEF PagesInv
    <2>6. UNCHANGED <<route, page, reqs, draft, crossed>> BY <1>3 DEF AttemptAdvances, AttemptRetried
    <2> QED BY <2>5, <2>6, AroundSrv
  <1>4. CASE TaskChanged(t)
    <2>1. PICK life : srv' = [srv EXCEPT ![t].life = life, ![t].rev = @ + 1]
      BY <1>4 DEF TaskChanged
    <2>2. PICK rec : rec = [srv[t] EXCEPT !.life = life, !.rev = srv[t].rev + 1] OBVIOUS
    <2>3. DOMAIN rec = DOMAIN srv[t] /\ rec.atts = srv[t].atts /\ rec.key = srv[t].key
      BY <1>1, <2>2
    <2>4. TaskOK(rec) BY <1>1, <2>3 DEF TaskOK
    <2>5. srv' = [srv EXCEPT ![t] = rec] BY <1>1, <2>1, <2>2
    <2>6. SrvOK' BY <2>4, <2>5, SrvUpdate DEF PagesInv
    <2>7. UNCHANGED <<route, page, reqs, draft, crossed>> BY <1>4 DEF TaskChanged
    <2> QED BY <2>6, <2>7, AroundSrv
  <1> QED BY <1>3, <1>4

-----------------------------------------------------------------------------
(* The Inbox *)

LEMMA AppendNext ==
  ASSUME NEW f, NEW k \in Nat, NEW s, s = [i \in 1..k |-> <<f, i>>]
  PROVE  Append(s, <<f, k + 1>>) = [i \in 1..(k + 1) |-> <<f, i>>]
  <1> DEFINE T == {<<f, i>> : i \in Nat}
             t == [i \in 1..(k + 1) |-> <<f, i>>]
  <1>1. s \in Seq(T) /\ Len(s) = k BY DEF T
  <1>2. <<f, k + 1>> \in T OBVIOUS
  <1>3. t \in Seq(T) /\ Len(t) = k + 1 OBVIOUS
  <1> HIDE DEF T
  <1>4. /\ Append(s, <<f, k + 1>>) \in Seq(T) /\ Len(Append(s, <<f, k + 1>>)) = k + 1
        /\ \A i \in 1..(k + 1) : Append(s, <<f, k + 1>>)[i] = IF i <= k THEN s[i] ELSE <<f, k + 1>>
    BY <1>1, <1>2
  <1>5. \A i \in 1..(k + 1) : Append(s, <<f, k + 1>>)[i] = t[i] BY <1>4
  <1> HIDE DEF t
  <1> QED BY <1>3, <1>4, <1>5, SeqEqual DEF t

LEMMA LoadMoreKeeps ==
  ASSUME PagesInv, LoadMore
  PROVE  PagesInv'
  <1>1. route.view = "inbox" /\ UNCHANGED <<route, srv, draft>> /\ page.next # 0
    BY DEF LoadMore, Steady
  <1> DEFINE new == Request("more", route.filter, 0, page.next)
  <1>2. page' = [page EXCEPT !.busy = TRUE, !.moreErr = FALSE] /\ reqs' = AbortLoad(reqs) \cup {new}
    BY DEF LoadMore
  <1>3. /\ new.kind = "more" /\ new.own = TRUE /\ new.task = route.filter /\ new.arg = page.next
        /\ new.res = "none" /\ DOMAIN new = {"kind", "own", "task", "n", "arg", "phase", "res", "ans"}
    BY DEF Request
  <1> HIDE DEF new
  <1>4. \A p \in AbortLoad(reqs) : p \in reqs /\ p.kind \notin Guarded
    BY AbortLoadOK DEF PagesInv, ReqsOK
  <1>5. ReqOK(new) BY <1>1, <1>3 DEF ReqOK, Guarded, Listing, Fetching, Answered
  <1>6. ReqsOK' BY <1>1, <1>2, <1>4, <1>5, ReqsPersist DEF PagesInv
  <1>7. \A p \in reqs' : Listing(p) => p = new BY <1>2, <1>4 DEF Listing, Guarded
  <1>8. /\ DOMAIN page' = DOMAIN page /\ page'.next = page.next /\ page'.list = page.list
        /\ page'.status = page.status
    BY <1>1, <1>2 DEF PagesInv, InboxOK
  <1>9. InboxOK' BY <1>1, <1>3, <1>7, <1>8 DEF PagesInv, InboxOK, Listing, NextPage
  <1>10. ComposerOK' /\ EntityTyped' /\ EntityOK'
    BY <1>1 DEF ComposerOK, EntityTyped, EntityOK, Entity
  <1>11. SrvOK' /\ RouteOK(route)' /\ (draft \in Texts \cup {Empty})'
    BY <1>1 DEF PagesInv, SrvOK, TaskOK, OnlyLastActive, RouteOK
  <1> QED BY <1>6, <1>9, <1>10, <1>11 DEF PagesInv

LEMMA RetryListKeeps ==
  ASSUME PagesInv, RetryList
  PROVE  PagesInv'
  <1>1. /\ route.view = "inbox" /\ UNCHANGED <<route, srv, draft>>
        /\ page' = SamePage(route) /\ reqs' = AbortLoad(reqs) \cup LoadRequest(route)
    BY DEF RetryList, Steady
  <1>2. DOMAIN page' = DOMAIN page /\ page'.status = "loading"
    BY <1>1 DEF SamePage, PagesInv, InboxOK
  <1>3. RouteOK(route') /\ draft' \in Texts \cup {Empty} BY <1>1 DEF PagesInv
  <1>4. route.view \notin Entity BY <1>1 DEF Entity
  <1> QED BY <1>1, <1>2, <1>3, <1>4, SameKeeps

\* The page asked for is the one after those listed, so the list has no gap.
LEMMA DeliverInboxKeeps ==
  ASSUME PagesInv, NEW r \in reqs, Deliver(r), DeliverInbox(r)
  PROVE  PagesInv'
  <1>1. /\ ReqOK(r) /\ Listing(r) /\ r.res # "none" /\ reqs' = reqs \ {r}
        /\ UNCHANGED <<srv, route, draft, crossed>>
    BY DEF PagesInv, ReqsOK, DeliverInbox, Deliver, Listing
  <1>2. route.view = "inbox" /\ r.task = route.filter BY <1>1 DEF ReqOK
  <1>3. DOMAIN page = {"list", "next", "status", "busy", "moreErr"} BY <1>2 DEF PagesInv, InboxOK
  <1>4. \A p \in reqs' : ~Listing(p) BY <1>1, <1>2 DEF PagesInv, InboxOK
  <1>5. /\ DOMAIN page' = DOMAIN page
        /\ page'.status = "loaded" =>
              \E k \in 1..Pages : page'.list = [i \in 1..k |-> <<route.filter, i>>] /\ page'.next = NextPage(k)
    <2>1. CASE r.kind = "list" /\ r.res = "error"
      <3>1. page' = [page EXCEPT !.status = "error"] BY <2>1 DEF DeliverInbox
      <3> QED BY <1>3, <3>1
    <2>2. CASE r.kind = "list" /\ r.res # "error"
      <3>1. page' = [page EXCEPT !.list = <<r.ans>>, !.next = NextPage(r.ans[2]), !.status = "loaded"]
        BY <2>2 DEF DeliverInbox
      <3>2. r.ans = <<route.filter, 1>> BY <1>1, <1>2, <2>2 DEF ReqOK, Answered
      <3>3. DOMAIN page' = DOMAIN page /\ page'.list = <<r.ans>> /\ page'.next = NextPage(1)
        BY <1>3, <3>1, <3>2
      <3>4. <<r.ans>> = [i \in 1..1 |-> <<route.filter, i>>] BY <3>2
      <3>5. 1 \in 1..Pages BY TaskPagesConstants
      <3> QED BY <3>3, <3>4, <3>5
    <2>3. CASE r.kind = "more" /\ r.res = "error"
      <3>1. page' = [page EXCEPT !.moreErr = TRUE, !.busy = FALSE] BY <2>3 DEF DeliverInbox
      <3>2. /\ DOMAIN page' = DOMAIN page /\ page'.status = page.status /\ page'.list = page.list
            /\ page'.next = page.next
        BY <1>3, <3>1
      <3> QED BY <1>2, <3>2 DEF PagesInv, InboxOK
    <2>4. CASE r.kind = "more" /\ r.res # "error"
      <3>1. page' = [page EXCEPT !.list = Append(@, r.ans), !.next = NextPage(r.ans[2]),
                                 !.moreErr = FALSE, !.busy = FALSE]
        BY <2>4 DEF DeliverInbox
      <3>2. r.ans = <<route.filter, r.arg>> BY <1>1, <1>2, <2>4 DEF ReqOK, Answered
      <3>3. /\ DOMAIN page' = DOMAIN page /\ page'.status = page.status
            /\ page'.list = Append(page.list, r.ans) /\ page'.next = NextPage(r.arg)
        BY <1>3, <3>1, <3>2
      <3>4. ASSUME page.status = "loaded"
            PROVE  \E k \in 1..Pages : page'.list = [i \in 1..k |-> <<route.filter, i>>] /\ page'.next = NextPage(k)
        <4>1. PICK k \in 1..Pages : page.list = [i \in 1..k |-> <<route.filter, i>>] /\ page.next = NextPage(k)
          BY <1>2, <3>4 DEF PagesInv, InboxOK
        <4>2. r.arg = page.next /\ r.arg # 0 BY <1>2, <2>4, <3>4 DEF PagesInv, InboxOK
        <4>3. r.arg = k + 1 /\ k + 1 \in 1..Pages
          BY <4>1, <4>2, TaskPagesConstants DEF NextPage
        <4>4. Append(page.list, r.ans) = [i \in 1..(k + 1) |-> <<route.filter, i>>]
          BY <4>1, <4>3, <3>2, AppendNext
        <4> QED BY <3>3, <4>3, <4>4
      <3> QED BY <3>3, <3>4
    <2> QED BY <1>1, <2>1, <2>2, <2>3, <2>4 DEF Listing
  <1>6. InboxOK' BY <1>1, <1>3, <1>4, <1>5 DEF InboxOK, NextPage, Listing
  <1>7. ReqsOK' BY <1>1, ReqsPersist DEF PagesInv
  <1>8. ComposerOK' /\ EntityTyped' /\ EntityOK'
    BY <1>1, <1>2 DEF ComposerOK, EntityTyped, EntityOK, Entity
  <1>9. SrvOK' /\ RouteOK(route)' /\ (draft \in Texts \cup {Empty})'
    BY <1>1 DEF PagesInv, SrvOK, TaskOK, OnlyLastActive, RouteOK
  <1> QED BY <1>6, <1>7, <1>8, <1>9 DEF PagesInv

-----------------------------------------------------------------------------
(* The pages of a Task, an Attempt and its pipeline *)

LEMMA RetryLoadKeeps ==
  ASSUME PagesInv, RetryLoad
  PROVE  PagesInv'
  <1>1. /\ route.view \in Entity /\ UNCHANGED <<route, srv, draft>>
        /\ page' = [page EXCEPT !.state = "loading", !.revErr = FALSE]
        /\ reqs' = AbortLoad(reqs) \cup LoadRequest(route)
        /\ crossed' = (crossed \/ \E r \in reqs : r.kind = "poll")
    BY DEF RetryLoad, Steady
  <1>2. DOMAIN page = EntityFields BY <1>1 DEF PagesInv, EntityTyped
  <1>3. /\ DOMAIN page' = EntityFields /\ page'.id = page.id /\ page'.state = "loading"
        /\ page'.review = page.review /\ page'.atts = page.atts
    BY <1>1, <1>2 DEF EntityFields
  <1>4. ASSUME ~crossed'
        PROVE  /\ ~crossed
               /\ \A q \in reqs : q.kind # "poll"
               /\ \A q \in reqs : q.kind = "archive" /\ q.own => q.task = route'.task
    <2>1. ~crossed /\ \A q \in reqs : q.kind # "poll" BY <1>1, <1>4
    <2> QED BY <1>1, <2>1 DEF PagesInv, EntityOK
  <1>5. RouteOK(route') /\ draft' \in Texts \cup {Empty} BY <1>1 DEF PagesInv
  <1>6. route.view # "inbox" BY <1>1 DEF Entity
  <1> QED BY <1>1, <1>3, <1>4, <1>5, <1>6, SameKeeps

\* A step of one of these pages, told by what it does to the page and to its requests.
LEMMA EntityStep ==
  ASSUME PagesInv, route.view \in Entity, UNCHANGED <<route, srv, draft>>,
         ReqsOK', DOMAIN page' = EntityFields,
         route.view = "detail" => page'.id \in Tasks \cup {None},
         EntityOK'
  PROVE  PagesInv'
  <1>1. InboxOK' /\ ComposerOK' BY DEF InboxOK, ComposerOK, Entity
  <1>2. EntityTyped' BY DEF EntityTyped
  <1>3. SrvOK' /\ RouteOK(route)' /\ (draft \in Texts \cup {Empty})'
    BY DEF PagesInv, SrvOK, TaskOK, OnlyLastActive, RouteOK
  <1> QED BY <1>1, <1>2, <1>3 DEF PagesInv

LEMMA StartPollKeeps ==
  ASSUME PagesInv, StartPoll
  PROVE  PagesInv'
  <1> DEFINE new == Request("poll", route.task, route.n, 0)
  <1>1. /\ route.view \in Entity /\ ~Quiet(page.atts) /\ \A p \in reqs : p.kind # "poll"
        /\ reqs' = reqs \cup {new} /\ crossed' = (crossed \/ page.state = "loading")
        /\ UNCHANGED <<srv, route, page, draft>>
    BY DEF StartPoll, PollEnabled, Quiet
  <1>2. /\ new.kind = "poll" /\ new.own = TRUE /\ new.task = route.task /\ new.n = route.n
        /\ new.phase = "main" /\ new.res = "none"
        /\ DOMAIN new = {"kind", "own", "task", "n", "arg", "phase", "res", "ans"}
    BY DEF Request
  <1> HIDE DEF new
  <1>3. ReqOK(new)
    BY <1>1, <1>2 DEF ReqOK, Guarded, Listing, Fetching, Answered, PagesInv, RouteOK
  <1>4. ReqsOK' BY <1>1, <1>3, ReqsPersist DEF PagesInv
  <1>5. EntityOK'
    <2> SUFFICES ASSUME ~crossed' PROVE EntityOK' BY DEF EntityOK
    <2>1. ~crossed /\ page.state # "loading" BY <1>1
    <2>2. EntityOK BY DEF PagesInv
    <2>3. \A p \in reqs : ~Fetching(p) BY <1>1, <2>1, <2>2 DEF EntityOK, Fetching
    <2>4. MainOK(new) BY <1>1, <1>2, <2>1, <2>2 DEF MainOK, EntityOK
    <2> QED BY <1>1, <1>2, <2>1, <2>2, <2>3, <2>4 DEF EntityOK, Fetching, MainOK, Addressed, Quiet
  <1> QED BY <1>1, <1>4, <1>5, EntityStep DEF PagesInv, EntityTyped

LEMMA StopPollKeeps ==
  ASSUME PagesInv, StopPoll
  PROVE  PagesInv'
  BY SideKeeps DEF StopPoll

\* The page shows the answer of a load or a poll, and keeps the rest.
LEMMA ShownFields ==
  ASSUME NEW r, DOMAIN page = EntityFields
  PROVE  /\ DOMAIN Shown(r) = EntityFields
         /\ Shown(r).state = page.state /\ Shown(r).review = page.review
         /\ Shown(r).id = IF route.view = "detail" THEN r.task ELSE <<r.task, r.n>>
         /\ route.view = "detail" => Shown(r).atts = r.ans.atts
  <1>1. CASE route.view = "detail"
    <2>1. Shown(r) = [page EXCEPT !.id = r.task, !.life = r.ans.life, !.rev = r.ans.rev, !.atts = r.ans.atts]
      BY <1>1 DEF Shown
    <2> QED BY <1>1, <2>1 DEF EntityFields
  <1>2. CASE route.view # "detail"
    <2>1. Shown(r) = [page EXCEPT !.id = <<r.task, r.n>>, !.atts = <<r.ans.atts[r.n]>>]
      BY <1>2 DEF Shown
    <2> QED BY <1>2, <2>1 DEF EntityFields
  <1> QED BY <1>1, <1>2

\* A Task whose last Attempt has ended has none in flight.
LEMMA TerminalIsQuiet ==
  ASSUME NEW t, TaskOK(t), Len(t.atts) > 0, ~Active(Last(t.atts))
  PROVE  Quiet(t.atts)
  <1>1. t.atts \in Seq(Statuses) /\ OnlyLastActive(t.atts) BY DEF TaskOK
  <1>2. DOMAIN t.atts = 1..Len(t.atts) /\ Len(t.atts) \in Nat BY <1>1
  <1> QED BY <1>1, <1>2 DEF OnlyLastActive, Last, Quiet

\* A load or poll fails: the page keeps what it shows.
LEMMA MainFails ==
  ASSUME PagesInv, NEW r \in reqs, Fetching(r), DeliverMain(r), r.res = "error"
  PROVE  PagesInv'
  <1>1. /\ page' = IF r.kind = "load" THEN [page EXCEPT !.state = "error"] ELSE page
        /\ reqs' = reqs \ {r} /\ UNCHANGED <<srv, route, draft, crossed>>
    BY DEF DeliverMain
  <1>2. ReqOK(r) BY DEF PagesInv, ReqsOK
  <1>3. route.view \in Entity BY <1>2 DEF ReqOK
  <1>4. DOMAIN page = EntityFields BY <1>3 DEF PagesInv, EntityTyped
  <1>5. /\ DOMAIN page' = EntityFields /\ page'.id = page.id /\ page'.review = page.review
        /\ page'.atts = page.atts /\ page'.state = "loaded" => page.state = "loaded"
    BY <1>1, <1>4 DEF EntityFields
  <1>6. ReqsOK' BY <1>1, <1>2, ReqsPersist DEF PagesInv
  <1>7. EntityOK'
    <2> SUFFICES ASSUME ~crossed PROVE EntityOK' BY <1>1 DEF EntityOK
    <2>1. EntityOK BY DEF PagesInv
    <2>2. \A p \in reqs' : ~Fetching(p) /\ p \in reqs BY <1>1, <1>3, <2>1 DEF EntityOK
    <2> QED BY <1>1, <1>3, <1>5, <2>1, <2>2 DEF EntityOK, Fetching, Addressed, Quiet
  <1>8. route.view = "detail" => page'.id \in Tasks \cup {None}
    BY <1>3, <1>5 DEF PagesInv, EntityTyped
  <1> QED BY <1>1, <1>3, <1>5, <1>6, <1>7, <1>8, EntityStep

\* What a load or poll brings is shown.  If it ends in a review, the request goes on to fetch it.
LEMMA MainArrives ==
  ASSUME PagesInv, NEW r \in reqs, Fetching(r), r.phase = "main", Answered(r), DeliverMain(r)
  PROVE  PagesInv'
  <1> DEFINE pg == Shown(r)
  <1>1. r.res # "error" /\ UNCHANGED <<srv, route, draft, crossed>>
    BY DEF DeliverMain, Answered
  <1>2. ReqOK(r) BY DEF PagesInv, ReqsOK
  <1>3. route.view \in Entity /\ r.task \in Tasks /\ TaskOK(r.ans) BY <1>2 DEF ReqOK
  <1>4. DOMAIN page = EntityFields BY <1>3 DEF PagesInv, EntityTyped
  <1>5. /\ DOMAIN pg = EntityFields /\ pg.state = page.state /\ pg.review = page.review
        /\ pg.id = IF route.view = "detail" THEN r.task ELSE <<r.task, r.n>>
        /\ route.view = "detail" => pg.atts = r.ans.atts
    BY <1>4, ShownFields
  <1>6. route.view = "detail" /\ WantsReview(pg) => Quiet(pg.atts)
    BY <1>3, <1>5, TerminalIsQuiet DEF WantsReview, Terminal
  <1>7. route.view = "attempt" => ~WantsReview(pg) BY DEF WantsReview
  <1>8. route.view = "studio" => WantsReview(pg) BY DEF WantsReview
  <1>9. ASSUME ~crossed
        PROVE  /\ pg.id = Addressed
               /\ r.task = route.task /\ r.n = route.n
               /\ r.kind = "poll" /\ route.view = "detail" => page.review = None
               /\ \A p \in reqs : Fetching(p) => p = r
    BY <1>3, <1>5, <1>9 DEF PagesInv, EntityOK, MainOK, Addressed
  <1>10. CASE WantsReview(pg)
    <2>0. PICK r1 : r1 = [r EXCEPT !.phase = "review", !.res = "none", !.ans = None, !.n = ReviewOf(r, pg)[2]]
      OBVIOUS
    <2>1. page' = pg /\ reqs' = (reqs \ {r}) \cup {r1} BY <1>1, <1>10, <2>0 DEF DeliverMain
    <2>2. /\ DOMAIN r1 = DOMAIN r /\ r1.kind = r.kind /\ r1.own = r.own /\ r1.task = r.task
          /\ r1.arg = r.arg /\ r1.phase = "review" /\ r1.res = "none"
          /\ r1.n = IF route.view = "detail" THEN Len(pg.atts) ELSE r.n
      BY <1>2, <2>0 DEF ReqOK, ReviewOf
    <2> HIDE DEF pg
    <2>3. ReqOK(r1) BY <1>2, <2>2 DEF ReqOK, Guarded, Listing, Fetching, Answered
    <2>4. ReqsOK' BY <1>1, <2>1, <2>3, ReqsPersist DEF PagesInv
    <2>5. EntityOK'
      <3> SUFFICES ASSUME ~crossed PROVE EntityOK' BY <1>1 DEF EntityOK
      <3>1. EntityOK BY DEF PagesInv
      <3>2. \A p \in reqs' : Fetching(p) => p = r1 BY <1>9, <2>1
      <3>3. ReviewOK(r1)'
        BY <1>1, <1>3, <1>6, <1>7, <1>9, <1>10, <2>1, <2>2 DEF ReviewOK, Addressed, Quiet, Entity
      <3>4. r1.kind = "load" => page'.state = "loading"
        BY <1>3, <1>5, <2>1, <2>2, <3>1 DEF EntityOK
      <3>5. page'.state = "loaded" /\ page'.review # None /\ route.view = "detail" => FALSE
        BY <1>3, <1>5, <1>9, <2>1, <3>1 DEF EntityOK, Fetching
      <3>6. page'.id = Addressed' BY <1>1, <1>9, <2>1 DEF Addressed
      <3>7. page'.state = "loaded" /\ page'.review # None /\ route.view # "detail" => page'.review = page'.id
        BY <1>1, <1>3, <1>5, <2>1, <3>1, <3>6 DEF EntityOK, Addressed
      <3>8. \A p \in reqs' : p.kind = "archive" => p \in reqs BY <2>1, <2>2 DEF Fetching
      <3>9. route.view = "detail" => Quiet(page'.atts) BY <1>6, <1>10, <2>1
      <3> QED BY <1>1, <1>7, <1>10, <2>2, <3>1, <3>2, <3>3, <3>4, <3>5, <3>6, <3>7, <3>8, <3>9
             DEF EntityOK, Fetching, Quiet
    <2> QED BY <1>1, <1>3, <1>5, <2>1, <2>4, <2>5, EntityStep
  <1>11. CASE ~WantsReview(pg)
    <2>1. page' = Loaded(r, Unreviewed(r, pg)) /\ reqs' = reqs \ {r} BY <1>1, <1>11 DEF DeliverMain
    <2> HIDE DEF pg
    <2>2. /\ DOMAIN page' = EntityFields /\ page'.id = pg.id /\ page'.atts = pg.atts
          /\ page'.review = IF route.view = "detail" THEN None ELSE page.review
      BY <1>5, <2>1 DEF Loaded, Unreviewed, EntityFields
    <2>3. ReqsOK' BY <1>1, <1>2, <2>1, ReqsPersist DEF PagesInv
    <2>4. EntityOK'
      <3> SUFFICES ASSUME ~crossed PROVE EntityOK' BY <1>1 DEF EntityOK
      <3>1. EntityOK BY DEF PagesInv
      <3>2. \A p \in reqs' : ~Fetching(p) /\ p \in reqs BY <1>9, <2>1
      <3>3. page'.id = Addressed' BY <1>1, <1>9, <2>2 DEF Addressed
      <3>4. page'.review = None BY <1>3, <1>8, <1>11, <2>2, <3>1 DEF EntityOK, Entity
      <3> QED BY <1>1, <1>3, <3>1, <3>2, <3>3, <3>4 DEF EntityOK, Fetching
    <2> QED BY <1>1, <1>3, <1>5, <2>2, <2>3, <2>4, EntityStep
  <1> QED BY <1>10, <1>11

\* The review that arrives is of what the page shows.
LEMMA DeliverReviewKeeps ==
  ASSUME PagesInv, NEW r \in reqs, DeliverReview(r)
  PROVE  PagesInv'
  <1>1. /\ Fetching(r) /\ r.phase = "review" /\ page' = Reviewed(r) /\ reqs' = reqs \ {r}
        /\ UNCHANGED <<srv, route, draft, crossed>>
    BY DEF DeliverReview, Fetching
  <1>2. ReqOK(r) BY DEF PagesInv, ReqsOK
  <1>3. route.view \in Entity BY <1>1, <1>2 DEF ReqOK
  <1>4. DOMAIN page = EntityFields BY <1>3 DEF PagesInv, EntityTyped
  <1>5. /\ DOMAIN page' = EntityFields /\ page'.id = page.id /\ page'.atts = page.atts
        /\ \/ page'.review = None
           \/ page'.review = <<r.task, r.n>>
           \/ /\ page'.review = page.review /\ route.view = "studio"
              /\ page'.state = "loaded" => page.state = "loaded"
    <2>1. CASE r.res = "error" /\ route.view = "studio"
      <3>1. page' = IF r.kind = "load" THEN [page EXCEPT !.state = "error"] ELSE page
        BY <1>1, <2>1 DEF Reviewed
      <3> QED BY <1>4, <2>1, <3>1 DEF EntityFields
    <2>2. CASE (r.res = "error" /\ route.view # "studio") \/ (r.res # "error" /\ r.ans = "missing")
      <3>1. page' = Loaded(r, [page EXCEPT !.review = None, !.revErr = (route.view = "detail")])
        BY <1>1, <2>2 DEF Reviewed
      <3> QED BY <1>4, <3>1 DEF Loaded, EntityFields
    <2>3. CASE r.res # "error" /\ r.ans # "missing"
      <3>1. PICK n : page' = Loaded(r, [page EXCEPT !.review = <<r.task, r.n>>, !.revErr = FALSE, !.notified = n])
        BY <1>1, <2>3 DEF Reviewed
      <3> QED BY <1>4, <3>1 DEF Loaded, EntityFields
    <2> QED BY <2>1, <2>2, <2>3
  <1>6. ReqsOK' BY <1>1, <1>2, ReqsPersist DEF PagesInv
  <1>7. EntityOK'
    <2> SUFFICES ASSUME ~crossed PROVE EntityOK' BY <1>1 DEF EntityOK
    <2>1. EntityOK BY DEF PagesInv
    <2>2. \A p \in reqs' : ~Fetching(p) /\ p \in reqs BY <1>1, <1>3, <2>1 DEF EntityOK
    <2>3. ReviewOK(r) BY <1>1, <1>3, <2>1 DEF EntityOK
    <2>4. page'.id = Addressed' BY <1>1, <1>5, <2>3 DEF ReviewOK, Addressed
    <2>5. <<r.task, r.n>> = IF route.view = "detail" THEN <<page.id, Len(page.atts)>> ELSE page.id
      BY <1>3, <2>3 DEF ReviewOK, Addressed, Entity
    <2>6. route.view = "detail" => Quiet(page.atts) BY <2>3 DEF ReviewOK
    <2>7. page'.review # None /\ page'.state = "loaded"
            => page'.review = IF route.view = "detail" THEN <<page.id, Len(page.atts)>> ELSE page.id
      BY <1>3, <1>5, <2>1, <2>5 DEF EntityOK
    <2>8. route.view = "attempt" => FALSE BY <2>3 DEF ReviewOK
    <2>9. \A p \in reqs' : p.kind = "archive" /\ p.own => p.task = route.task BY <1>3, <2>1, <2>2 DEF EntityOK
    <2> QED BY <1>1, <1>5, <2>2, <2>4, <2>6, <2>7, <2>8, <2>9 DEF EntityOK, Fetching, Quiet
  <1>8. route.view = "detail" => page'.id \in Tasks \cup {None}
    BY <1>3, <1>5 DEF PagesInv, EntityTyped
  <1> QED BY <1>1, <1>3, <1>5, <1>6, <1>7, <1>8, EntityStep

LEMMA DeliverMainKeeps ==
  ASSUME PagesInv, NEW r \in reqs, Deliver(r), DeliverMain(r)
  PROVE  PagesInv'
  <1>1. Fetching(r) /\ r.phase = "main" /\ r.res # "none" BY DEF Deliver, DeliverMain, Fetching
  <1> QED BY <1>1, MainFails, MainArrives DEF Answered

\* What the buttons of the page change beside what it shows, and the one request they send.
LEMMA AsideKeeps ==
  ASSUME PagesInv, route.view \in Entity, UNCHANGED <<route, srv, draft>>, crossed => crossed',
         NEW new, ReqOK(new), ~Fetching(new), reqs' \subseteq reqs \cup {new},
         ~crossed' /\ new \in reqs' /\ new.kind = "archive" /\ new.own => new.task = route.task,
         DOMAIN page' = EntityFields, page'.state = page.state, page'.review = page.review,
         page'.atts = page.atts,
         \/ page'.id = page.id
         \/ route.view = "detail" /\ page'.id \in Tasks /\ (~crossed => page'.id = route.task)
  PROVE  PagesInv'
  <1>1. ReqsOK' BY ReqsPersist DEF PagesInv
  <1>2. EntityOK'
    <2> SUFFICES ASSUME ~crossed' PROVE EntityOK' BY DEF EntityOK
    <2>1. EntityOK /\ ~crossed BY DEF PagesInv
    <2>2. \A p \in reqs' : Fetching(p) => p \in reqs OBVIOUS
    <2>3. page'.id = page.id \/ page'.id = Addressed BY DEF Addressed
    <2>4. page.id = Addressed => page'.id = page.id BY <2>3
    <2>5. Addressed' = Addressed BY DEF Addressed
    <2>6. \A p \in reqs' : p.kind = "archive" /\ p.own => p.task = route.task
      BY <2>1 DEF EntityOK
    <2>7. ASSUME NEW p \in reqs', Fetching(p)
          PROVE  /\ p.kind = "load" => page'.state = "loading"
                 /\ p.phase = "main" => MainOK(p)'
                 /\ p.phase = "review" => ReviewOK(p)'
      <3>1. p \in reqs BY <2>2, <2>7
      <3> QED BY <2>1, <2>4, <2>5, <2>7, <3>1 DEF EntityOK, MainOK, ReviewOK, Quiet
    <2>8. /\ page'.state = "loaded" => page'.id = Addressed
          /\ page'.state = "loaded" /\ page'.review # None =>
               page'.review = IF route.view = "detail" THEN <<page'.id, Len(page'.atts)>> ELSE page'.id
      BY <2>1, <2>4 DEF EntityOK
    <2>9. /\ \A p, q \in reqs' : Fetching(p) /\ Fetching(q) => p = q
          /\ route.view = "attempt" => page'.review = None
          /\ route.view = "detail" /\ page'.review # None => Quiet(page'.atts)
      BY <2>1, <2>2 DEF EntityOK
    <2> QED BY <2>5, <2>6, <2>7, <2>8, <2>9 DEF EntityOK, Fetching, Quiet
  <1>3. route.view = "detail" => page'.id \in Tasks \cup {None} BY DEF PagesInv, EntityTyped
  <1> QED BY <1>1, <1>2, <1>3, EntityStep

LEMMA AdmitKeeps ==
  ASSUME PagesInv, AdmitFirstAttempt
  PROVE  PagesInv'
  <1>1. PICK new : new = Request("admit", page.id, page.born, Key(page)) OBVIOUS
  <1>2. /\ route.view = "detail" /\ page.id # None /\ reqs' = reqs \cup {new}
        /\ page' = [page EXCEPT !.adm = "busy", !.admErr = FALSE]
        /\ UNCHANGED <<srv, route, draft, crossed>>
    BY <1>1 DEF AdmitFirstAttempt, Steady
  <1>3. DOMAIN page = EntityFields /\ page.id \in Tasks
    BY <1>2 DEF PagesInv, EntityTyped, Entity
  <1>4. /\ DOMAIN page' = EntityFields /\ page'.state = page.state /\ page'.review = page.review
        /\ page'.atts = page.atts /\ page'.id = page.id
    BY <1>2, <1>3 DEF EntityFields
  <1>5. /\ new.kind = "admit" /\ new.own = TRUE /\ new.task = page.id /\ new.n = page.born
        /\ new.arg = <<page.born, 0>> /\ new.res = "none"
        /\ DOMAIN new = {"kind", "own", "task", "n", "arg", "phase", "res", "ans"}
    BY <1>1 DEF Request, Key
  <1>6. ReqOK(new) /\ ~Fetching(new) BY <1>2, <1>3, <1>5 DEF ReqOK, Guarded, Listing, Fetching, Answered
  <1> QED BY <1>2, <1>4, <1>5, <1>6, AsideKeeps DEF Entity

LEMMA ArchiveKeeps ==
  ASSUME PagesInv, ArchiveTask
  PROVE  PagesInv'
  <1>1. PICK new, arg : /\ new = Request("archive", page.id, page.rev, arg)
                        /\ reqs' = reqs \cup {new}
    BY DEF ArchiveTask
  <1>2. /\ route.view = "detail" /\ page.id # None /\ UNCHANGED <<srv, route, page, draft>>
        /\ crossed' = (crossed \/ page.id # route.task)
    BY DEF ArchiveTask, Steady
  <1>3. DOMAIN page = EntityFields /\ page.id \in Tasks
    BY <1>2 DEF PagesInv, EntityTyped, Entity
  <1>4. /\ new.kind = "archive" /\ new.own = TRUE /\ new.task = page.id /\ new.res = "none"
        /\ DOMAIN new = {"kind", "own", "task", "n", "arg", "phase", "res", "ans"}
    BY <1>1 DEF Request
  <1>5. ReqOK(new) /\ ~Fetching(new) BY <1>2, <1>3, <1>4 DEF ReqOK, Guarded, Listing, Fetching, Answered
  <1> QED BY <1>1, <1>2, <1>3, <1>4, <1>5, AsideKeeps DEF Entity

\* A page that did not switch Task only hears of the one it shows.
LEMMA DeliverArchiveKeeps ==
  ASSUME PagesInv, NEW r \in reqs, DeliverArchive(r)
  PROVE  PagesInv'
  <1>1. r.kind = "archive" /\ reqs' = reqs \ {r} /\ UNCHANGED <<srv, route, draft, crossed>>
    BY DEF DeliverArchive
  <1>2. ReqOK(r) BY DEF PagesInv, ReqsOK
  <1>3. CASE r.own /\ r.res # "error"
    <2>1. page' = [page EXCEPT !.id = r.task, !.life = r.ans.life, !.rev = r.ans.rev]
      BY <1>3 DEF DeliverArchive
    <2>2. route.view = "detail" /\ r.task \in Tasks BY <1>1, <1>2, <1>3, Zenon DEF ReqOK
    <2>3. DOMAIN page = EntityFields BY <2>2 DEF PagesInv, EntityTyped, Entity
    <2>4. /\ DOMAIN page' = EntityFields /\ page'.state = page.state /\ page'.review = page.review
          /\ page'.atts = page.atts /\ page'.id = r.task
      BY <2>1, <2>3 DEF EntityFields
    <2>5. ~crossed => r.task = route.task
      BY <1>1, <1>3, <2>2 DEF PagesInv, EntityOK, Entity
    <2>6. ~Fetching(r) /\ r \notin reqs' BY <1>1 DEF Fetching
    <2> QED BY <1>1, <1>2, <2>2, <2>4, <2>5, <2>6, AsideKeeps DEF Entity
  <1>4. CASE ~(r.own /\ r.res # "error")
    <2>1. page' = page BY <1>4 DEF DeliverArchive
    <2> QED BY <1>1, <2>1, SideKeeps
  <1> QED BY <1>3, <1>4

\* An admitted Attempt or a started Task is opened, wherever the user is.
LEMMA OpensKeeps ==
  ASSUME PagesInv, NEW r \in reqs, NEW view \in {"attempt", "detail"}, NEW n, r.task \in Tasks,
         route' = At(view, r.task, n),
         page' = IF route.view = view THEN SamePage(route') ELSE EntityPage,
         reqs' = (IF route.view = view THEN AbortLoad(reqs \ {r}) ELSE Unmounted(reqs \ {r}))
                   \cup LoadRequest(route'),
         crossed' = (route.view = view /\ (crossed \/ \E q \in reqs : q.own /\ q.kind \notin Guarded)),
         srv' = srv, draft' \in Texts \cup {Empty}
  PROVE  PagesInv'
  <1>1. RouteOK(route') /\ route'.view = view BY DEF RouteOK, At, Views, Entity
  <1>2. PICK rs \in SUBSET reqs : rs = reqs \ {r} OBVIOUS
  <1>3. CASE route.view # view
    <2>1. page' = FreshPage(route'.view) BY <1>1, <1>3 DEF FreshPage, Entity
    <2>2. reqs' = Unmounted(rs) \cup LoadRequest(route') BY <1>2, <1>3
    <2> QED BY <1>1, <2>1, <2>2, FreshKeeps
  <1>4. CASE route.view = view
    <2>1. page' = SamePage(route') /\ reqs' = AbortLoad(rs) \cup LoadRequest(route') BY <1>2, <1>4
    <2>2. view \in Entity /\ view # "inbox" BY DEF Entity
    <2>3. /\ DOMAIN page' = EntityFields /\ page'.id = page.id /\ page'.state = "loading"
          /\ page'.review = page.review /\ page'.atts = page.atts
      BY <1>1, <1>4, <2>1, <2>2, SamePageOK DEF PagesInv
    <2>4. ASSUME ~crossed'
          PROVE  ~crossed /\ (\A q \in rs : q.kind # "poll") /\ (\A q \in rs : q.kind = "archive" => ~q.own)
      <3>1. ~crossed /\ ~ \E q \in reqs : q.own /\ q.kind \notin Guarded BY <1>4, <2>4, Zenon
      <3>2. \A q \in reqs : q.kind = "poll" => q.own = TRUE BY DEF PagesInv, ReqsOK, ReqOK
      <3>3. "poll" \notin Guarded /\ "archive" \notin Guarded BY DEF Guarded
      <3>4. ASSUME NEW q \in reqs PROVE q.kind # "poll" BY <3>1, <3>2, <3>3, Zenon
      <3>5. ASSUME NEW q \in reqs, q.kind = "archive" PROVE ~q.own BY <3>1, <3>3, <3>5, Zenon
      <3> QED BY <3>1, <3>4, <3>5
    <2> QED BY <1>1, <1>4, <2>1, <2>2, <2>3, <2>4, SameKeeps
  <1> QED BY <1>3, <1>4

LEMMA DeliverAdmissionKeeps ==
  ASSUME PagesInv, NEW r \in reqs, DeliverAdmission(r)
  PROVE  PagesInv'
  <1>1. r.kind = "admit" /\ UNCHANGED <<srv, draft>> BY DEF DeliverAdmission
  <1>2. ReqOK(r) /\ r.task \in Tasks BY <1>1 DEF PagesInv, ReqsOK, ReqOK
  <1>3. draft' \in Texts \cup {Empty} BY <1>1 DEF PagesInv
  <1>4. CASE r.res \in {"error", "conflict"}
    <2>1. /\ reqs' = reqs \ {r} /\ UNCHANGED <<route, crossed>>
          /\ page' = IF r.own THEN [page EXCEPT !.adm = "idle", !.admErr = TRUE] ELSE page
      BY <1>4 DEF DeliverAdmission
    <2>2. CASE r.own
      <3>1. route.view = "detail" BY <1>1, <1>2, <2>2, Zenon DEF ReqOK
      <3>2. DOMAIN page = EntityFields BY <3>1 DEF PagesInv, EntityTyped, Entity
      <3>3. page' = [page EXCEPT !.adm = "idle", !.admErr = TRUE] BY <2>1, <2>2
      <3>4. /\ DOMAIN page' = EntityFields /\ page'.state = page.state /\ page'.review = page.review
            /\ page'.atts = page.atts /\ page'.id = page.id
        BY <3>2, <3>3 DEF EntityFields
      <3>5. ~Fetching(r) /\ r \notin reqs' BY <1>1, <2>1 DEF Fetching
      <3> QED BY <1>1, <1>2, <2>1, <3>1, <3>4, <3>5, AsideKeeps DEF Entity
    <2>3. CASE ~r.own
      BY <1>1, <2>1, <2>3, SideKeeps
    <2> QED BY <2>2, <2>3
  <1>5. CASE r.res \notin {"error", "conflict"}
    BY <1>1, <1>2, <1>3, <1>5, OpensKeeps DEF DeliverAdmission
  <1> QED BY <1>4, <1>5

-----------------------------------------------------------------------------
(* The composer *)

LEMMA ComposerStep ==
  ASSUME PagesInv, route.view = "new", UNCHANGED <<route, srv>>, draft' \in Texts \cup {Empty},
         \A p \in reqs' : p \in reqs \/ ReqOK(p),
         DOMAIN page' = DOMAIN page, page'.text \in Texts \cup {Empty},
         page'.created \in Tasks \cup {None}, ~page'.busy => draft' = page'.text
  PROVE  PagesInv'
  <1>1. ReqsOK'
    <2>1. ASSUME NEW p, ReqOK(p) PROVE ReqOK(p)'
      BY <2>1 DEF ReqOK, Answered, Listing, Fetching
    <2> QED BY <2>1 DEF ReqsOK, PagesInv
  <1>2. ComposerOK' BY DEF PagesInv, ComposerOK
  <1>3. InboxOK' /\ EntityTyped' /\ EntityOK' BY DEF InboxOK, EntityTyped, EntityOK, Entity
  <1>4. SrvOK' /\ RouteOK(route)' BY DEF PagesInv, SrvOK, TaskOK, OnlyLastActive, RouteOK
  <1> QED BY <1>1, <1>2, <1>3, <1>4 DEF PagesInv

LEMMA TypeKeeps ==
  ASSUME PagesInv, NEW v \in Texts \cup {Empty}, Type(v)
  PROVE  PagesInv'
  <1>1. /\ route.view = "new" /\ page' = [page EXCEPT !.text = v]
        /\ draft' = IF page.busy THEN draft ELSE v
        /\ UNCHANGED <<srv, route, reqs>>
    BY DEF Type
  <1>2. /\ DOMAIN page = {"text", "busy", "created", "err", "born"}
        /\ page.created \in Tasks \cup {None} /\ draft \in Texts \cup {Empty}
    BY <1>1 DEF PagesInv, ComposerOK
  <1>3. /\ DOMAIN page' = DOMAIN page /\ page'.text = v /\ page'.created = page.created
        /\ page'.busy = page.busy
    BY <1>1, <1>2
  <1>4. ~page'.busy => draft' = page'.text BY <1>1, <1>3, Zenon
  <1> QED BY <1>1, <1>2, <1>3, <1>4, ComposerStep

LEMMA SubmitKeeps ==
  ASSUME PagesInv, Submit
  PROVE  PagesInv'
  <1>1. PICK new : new = Request("create", None, page.born, Key(page)) OBVIOUS
  <1>2. /\ route.view = "new" /\ page' = [page EXCEPT !.busy = TRUE, !.err = FALSE]
        /\ reqs' = reqs \cup {new} /\ UNCHANGED <<srv, route, draft>>
    BY <1>1 DEF Submit, Steady
  <1>3. /\ DOMAIN page = {"text", "busy", "created", "err", "born"}
        /\ page.text \in Texts \cup {Empty}
        /\ page.created \in Tasks \cup {None} /\ draft \in Texts \cup {Empty}
    BY <1>2 DEF PagesInv, ComposerOK
  <1>4. /\ DOMAIN page' = DOMAIN page /\ page'.text = page.text /\ page'.created = page.created
        /\ page'.busy
    BY <1>2, <1>3
  <1>5. /\ new.kind = "create" /\ new.own = TRUE /\ new.n = page.born
        /\ new.arg = <<page.born, 0>> /\ new.res = "none"
        /\ DOMAIN new = {"kind", "own", "task", "n", "arg", "phase", "res", "ans"}
    BY <1>1 DEF Request, Key
  <1>6. ReqOK(new) BY <1>2, <1>5 DEF ReqOK, Guarded, Listing, Fetching, Answered
  <1> QED BY <1>2, <1>3, <1>4, <1>6, ComposerStep

\* A failed submission stores what the composer shows.
LEMMA FailedKeeps ==
  ASSUME PagesInv, NEW r \in reqs, r.kind \in {"create", "start"}, reqs' = reqs \ {r},
         page' = IF r.own THEN Failed(page) ELSE page,
         draft' = IF r.own THEN page.text ELSE draft, UNCHANGED <<srv, route, crossed>>
  PROVE  PagesInv'
  <1>1. CASE r.own
    <2>1. ReqOK(r) BY DEF PagesInv, ReqsOK
    <2>2. route.view = "new" BY <1>1, <2>1, Zenon DEF ReqOK
    <2>3. /\ DOMAIN page = {"text", "busy", "created", "err", "born"}
          /\ page.text \in Texts \cup {Empty} /\ page.created \in Tasks \cup {None}
      BY <2>2 DEF PagesInv, ComposerOK
    <2>4. page' = Failed(page) /\ draft' = page.text BY <1>1
    <2>5. DOMAIN page' = DOMAIN page /\ page'.text = page.text /\ page'.created = page.created
      BY <2>3, <2>4 DEF Failed
    <2> QED BY <2>2, <2>3, <2>4, <2>5, ComposerStep
  <1>2. CASE ~r.own
    <2>1. page' = page /\ draft' = draft BY <1>2
    <2> QED BY <2>1, SideKeeps
  <1> QED BY <1>1, <1>2

LEMMA DeliverCreateKeeps ==
  ASSUME PagesInv, NEW r \in reqs, Deliver(r), DeliverCreate(r)
  PROVE  PagesInv'
  <1>1. r.kind = "create" /\ r.res # "none" /\ UNCHANGED <<srv, route, crossed>>
    BY DEF Deliver, DeliverCreate
  <1>2. ReqOK(r) BY DEF PagesInv, ReqsOK
  <1>3. CASE r.res = "error" BY <1>1, <1>3, FailedKeeps DEF DeliverCreate
  <1>4. CASE r.res # "error"
    <2>1. PICK r1 : r1 = [r EXCEPT !.kind = "start", !.task = r.ans, !.res = "none", !.ans = None]
      OBVIOUS
    <2>2. /\ reqs' = (reqs \ {r}) \cup {r1} /\ draft' = draft
          /\ page' = IF r.own THEN [page EXCEPT !.created = r.ans] ELSE page
      BY <1>4, <2>1 DEF DeliverCreate
    <2>3. /\ DOMAIN r1 = DOMAIN r /\ r1.kind = "start" /\ r1.own = r.own /\ r1.task = r.ans
          /\ r1.n = r.n /\ r1.arg = r.arg /\ r1.res = "none"
      BY <1>2, <2>1 DEF ReqOK
    <2>4. r.ans \in Tasks BY <1>1, <1>2, <1>4 DEF ReqOK, Answered
    <2>5. r1.own => route.view = "new" BY <1>1, <1>2, <2>3, Zenon DEF ReqOK
    <2>6. ReqOK(r1) BY <1>1, <1>2, <2>3, <2>4, <2>5 DEF ReqOK, Guarded, Listing, Fetching, Answered
    <2>7. CASE r.own
      <3>1. route.view = "new" BY <1>1, <1>2, <2>7, Zenon DEF ReqOK
      <3>2. /\ DOMAIN page = {"text", "busy", "created", "err", "born"}
            /\ page.text \in Texts \cup {Empty} /\ draft \in Texts \cup {Empty}
            /\ ~page.busy => draft = page.text
        BY <3>1 DEF PagesInv, ComposerOK
      <3>3. page' = [page EXCEPT !.created = r.ans] BY <2>2, <2>7
      <3>4. /\ DOMAIN page' = DOMAIN page /\ page'.text = page.text /\ page'.created = r.ans
            /\ page'.busy = page.busy
        BY <3>2, <3>3
      <3>5. ~page'.busy => draft' = page'.text BY <2>2, <3>2, <3>4, Zenon
      <3> QED BY <1>1, <2>2, <2>4, <2>6, <3>1, <3>2, <3>4, <3>5, ComposerStep
    <2>8. CASE ~r.own
      <3>1. page' = page BY <2>2, <2>8
      <3> QED BY <1>1, <2>2, <2>3, <2>6, <3>1, SideKeeps
    <2> QED BY <2>7, <2>8
  <1> QED BY <1>3, <1>4

LEMMA DeliverStartKeeps ==
  ASSUME PagesInv, NEW r \in reqs, DeliverStart(r)
  PROVE  PagesInv'
  <1>1. r.kind = "start" /\ UNCHANGED srv BY DEF DeliverStart
  <1>2. r.task \in Tasks BY <1>1 DEF PagesInv, ReqsOK, ReqOK
  <1>3. CASE r.res \in {"error", "conflict"} BY <1>1, <1>3, FailedKeeps DEF DeliverStart
  <1>4. CASE r.res \notin {"error", "conflict"}
    <2>1. draft' = Empty BY <1>4 DEF DeliverStart
    <2> QED BY <1>1, <1>2, <1>4, <2>1, OpensKeeps DEF DeliverStart
  <1> QED BY <1>3, <1>4

-----------------------------------------------------------------------------
(* Navigation *)

LEMMA NavigateKeeps ==
  ASSUME PagesInv, Navigate \/ OpenCreated
  PROVE  PagesInv'
  <1>1. \A v, t, n : v \in Views /\ (v \in Entity => t \in Tasks) => RouteOK(At(v, t, n))
    BY DEF RouteOK, At
  <1>2. RouteOK(route) BY DEF PagesInv
  <1>3. CASE \E t \in Tasks : OpenTask(t)
    <2>1. PICK t \in Tasks : Go(At("detail", t, 0)) /\ Steady BY <1>3 DEF OpenTask
    <2> QED BY <1>1, <2>1, GoKeeps DEF Steady, Views, Entity
  <1>4. CASE NewTask
    <2>1. Go(At("new", None, 0)) /\ Steady BY <1>4 DEF NewTask
    <2>2. RouteOK(At("new", None, 0)) BY <1>1 DEF Views, Entity
    <2> QED BY <2>1, <2>2, GoKeeps DEF Steady
  <1>5. CASE OpenAttempt
    <2>1. PICK n : route.view = "detail" /\ page.id # None /\ Go(At("attempt", page.id, n)) /\ Steady
      BY <1>5 DEF OpenAttempt
    <2>2. page.id \in Tasks BY <2>1 DEF PagesInv, EntityTyped, Entity
    <2>3. RouteOK(At("attempt", page.id, n)) BY <1>1, <2>2 DEF Views, Entity
    <2> QED BY <2>1, <2>3, GoKeeps DEF Steady
  <1>6. CASE OpenStudio
    <2>1. PICK n : route.view = "attempt" /\ Go(At("studio", route.task, n)) /\ Steady
      BY <1>6 DEF OpenStudio
    <2>2. RouteOK(At("studio", route.task, n)) BY <1>1, <1>2, <2>1 DEF RouteOK, Views, Entity
    <2> QED BY <2>1, <2>2, GoKeeps DEF Steady
  <1>7. CASE Back
    <2>1. PICK r : /\ Go(r) /\ Steady
                   /\ \/ r = At("attempt", route.task, route.n) /\ route.view = "studio"
                      \/ r = At("detail", route.task, 0) /\ route.view = "attempt"
                      \/ r = At("inbox", None, 0)
      BY <1>7 DEF Back
    <2>2. RouteOK(r) BY <1>1, <1>2, <2>1 DEF RouteOK, Views, Entity
    <2>3. UNCHANGED <<srv, draft>> BY <2>1 DEF Steady
    <2> QED BY <2>1, <2>2, <2>3, GoKeeps, Zenon
  <1>8. CASE Leave
    <2>1. Go(At("other", None, 0)) /\ Steady BY <1>8 DEF Leave
    <2>2. RouteOK(At("other", None, 0)) BY <1>1 DEF Views, Entity
    <2> QED BY <2>1, <2>2, GoKeeps DEF Steady
  <1>9. CASE Jump
    <2>1. PICK a \in Addresses : a.view \in Entity /\ Go(At(a.view, a.task, a.n)) /\ Steady
      BY <1>9 DEF Jump
    <2>2. a.task \in Tasks BY <2>1 DEF Addresses, Entity
    <2>3. RouteOK(At(a.view, a.task, a.n)) BY <1>1, <2>1, <2>2 DEF Views
    <2> QED BY <2>1, <2>3, GoKeeps DEF Steady
  <1>10. CASE \E f \in Filters : ChangeFilter(f)
    <2>1. PICK f \in Filters : route.view = "inbox" /\ Go([route EXCEPT !.filter = f]) /\ Steady
      BY <1>10 DEF ChangeFilter
    <2>2. RouteOK([route EXCEPT !.filter = f]) BY <1>2, <2>1 DEF RouteOK, Entity
    <2> QED BY <2>1, <2>2, GoKeeps DEF Steady
  <1>11. CASE OpenCreated
    <2>1. page.created \in Tasks
      BY <1>11 DEF OpenCreated, PagesInv, ComposerOK
    <2>2. RouteOK(At("detail", page.created, 0)) BY <1>1, <2>1 DEF Views, Entity
    <2> QED BY <1>11, <2>2, GoKeeps DEF OpenCreated, Steady
  <1> QED BY <1>3, <1>4, <1>5, <1>6, <1>7, <1>8, <1>9, <1>10, <1>11 DEF Navigate

-----------------------------------------------------------------------------
(* The invariant holds *)

LEMMA InitPagesInv == Init => PagesInv
  <1> SUFFICES ASSUME Init PROVE PagesInv OBVIOUS
  <1>1. SrvOK
    <2>1. PICK busy \in Known \cup {None} :
            srv = [t \in Tasks |-> InitialTask(IF t \in Known THEN "open" ELSE "absent",
                                              IF t = busy THEN <<"queued">> ELSE <<>>)]
      BY DEF Init
    <2>2. \A life : TaskOK(InitialTask(life, <<>>)) /\ TaskOK(InitialTask(life, <<"queued">>))
      BY FirstAttempt DEF InitialTask
    <2> QED BY <2>1, <2>2 DEF SrvOK
  <1>2. RouteOK(route)
    <2>1. PICK a \in Addresses :
            route = [view |-> a.view, task |-> a.task, n |-> a.n, filter |-> FirstFilter]
      BY DEF Init
    <2>2. a.view \in Views /\ (a.view \in Entity => a.task \in Tasks)
      BY DEF Addresses, Views, Entity
    <2> QED BY <2>1, <2>2 DEF RouteOK
  <1>3. draft \in Texts \cup {Empty} /\ page = FreshPage(route.view) /\ reqs = LoadRequest(route)
    BY TaskPagesConstants DEF Init
  <1>4. ASSUME NEW q \in reqs
        PROVE  /\ DOMAIN q = {"kind", "own", "task", "n", "arg", "phase", "res", "ans"}
               /\ q.own = TRUE /\ q.phase = "main" /\ q.res = "none" /\ q.n = q.n
               /\ \/ /\ route.view \in Entity /\ q.kind = "load" /\ q.task = route.task
                     /\ q.n = route.n
                  \/ /\ route.view = "inbox" /\ q.kind = "list" /\ q.task = route.filter
                     /\ q.arg = 1
    BY <1>3, LoadRequestOK DEF Request
  <1>5. \A p, q \in reqs : p = q BY <1>3, LoadRequestOne
  <1>6. ReqsOK
    <2>1. ASSUME NEW q \in reqs PROVE ReqOK(q)
      BY <1>2, <1>4 DEF ReqOK, RouteOK, Guarded, Listing, Fetching, Answered, Entity
    <2> QED BY <2>1 DEF ReqsOK
  <1>7. InboxOK
    <2> SUFFICES ASSUME route.view = "inbox" PROVE InboxOK BY DEF InboxOK
    <2>1. page = InboxPage BY <1>3 DEF FreshPage, Entity
    <2>2. \A p \in reqs : p.kind # "more" BY <1>4
    <2> QED BY <1>5, <2>1, <2>2 DEF InboxOK, InboxPage
  <1>8. ComposerOK
    <2> SUFFICES ASSUME route.view = "new" PROVE ComposerOK BY DEF ComposerOK
    <2>1. page = ComposerPage BY <1>3 DEF FreshPage, Entity
    <2> QED BY <1>3, <2>1 DEF ComposerOK, ComposerPage
  <1>9. route.view \in Entity => page = EntityPage BY <1>3 DEF FreshPage, Entity
  <1>10. EntityTyped BY <1>9 DEF EntityTyped, EntityPage, EntityFields
  <1>11. EntityOK
    <2> SUFFICES ASSUME route.view \in Entity PROVE EntityOK BY DEF EntityOK
    <2>1. page.state = "loading" /\ page.review = None BY <1>9 DEF EntityPage
    <2>2. \A q \in reqs : q.kind = "load" /\ q.phase = "main" /\ q.task = route.task /\ q.n = route.n
      BY <1>4 DEF Entity
    <2> QED BY <1>5, <2>1, <2>2 DEF EntityOK, MainOK
  <1> QED BY <1>1, <1>2, <1>3, <1>6, <1>7, <1>8, <1>10, <1>11 DEF PagesInv

LEMMA NextPagesInv ==
  ASSUME PagesInv, [Next]_vars
  PROVE  PagesInv'
  <1>1. CASE Navigate \/ OpenCreated BY <1>1, NavigateKeeps
  <1>2. CASE UserActs
    <2>1. CASE ReadinessChanges BY <2>1, StutterKeeps DEF ReadinessChanges
    <2>2. CASE \E v \in Texts \cup {Empty} : Type(v) BY <2>2, TypeKeeps
    <2> QED BY <1>1, <1>2, <2>1, <2>2, LoadMoreKeeps, RetryListKeeps, RetryLoadKeeps, AdmitKeeps,
               ArchiveKeeps, SubmitKeeps DEF UserActs
  <1>3. CASE StartPoll \/ StopPoll BY <1>3, StartPollKeeps, StopPollKeeps
  <1>4. CASE Network
    <2>1. PICK r \in reqs : Answer(r) \/ Fails(r) \/ Deliver(r) BY <1>4 DEF Network
    <2>2. CASE Answer(r) \/ Fails(r) BY <2>2, AnswerKeeps
    <2>3. CASE Deliver(r)
      <3>1. CASE DeliverInbox(r) \/ DeliverMain(r) \/ DeliverReview(r)
        BY <2>3, <3>1, DeliverInboxKeeps, DeliverMainKeeps, DeliverReviewKeeps
      <3>2. CASE DeliverAdmission(r) \/ DeliverArchive(r)
        BY <3>2, DeliverAdmissionKeeps, DeliverArchiveKeeps
      <3>3. CASE DeliverCreate(r) \/ DeliverStart(r)
        BY <2>3, <3>3, DeliverCreateKeeps, DeliverStartKeeps
      <3> QED BY <2>3, <3>1, <3>2, <3>3 DEF Deliver
    <2> QED BY <2>1, <2>2, <2>3
  <1>5. CASE Service BY <1>5, ServiceKeeps DEF Service
  <1>6. CASE UNCHANGED vars BY <1>6, StutterKeeps DEF vars
  <1> QED BY <1>1, <1>2, <1>3, <1>4, <1>5, <1>6 DEF Next

(* PagesInv holds in every state: what each request in flight will do to the page that    *)
(* sent it (the effects of TaskInbox, TaskDetail, AttemptDetail and PipelineStudio,        *)
(* loadMore, refreshTask, handleSubmit) is what the address and the page still expect.     *)
THEOREM PagesInvHolds == Spec => []PagesInv
  BY InitPagesInv, NextPagesInv, PTL DEF Spec

(* TaskInbox shows the first pages of the addressed filter, in order and without a gap,    *)
(* for any number of pages, filters, overlapping loads and retries.                        *)
THEOREM InboxIsSafe == Spec => []InboxInv
  <1>1. PagesInv => TypeOK
    BY DEF PagesInv, SrvOK, TaskOK, RouteOK, Views, ReqsOK, ReqOK, TypeOK
  <1>2. PagesInv => InboxIsOneList
    <2> SUFFICES ASSUME PagesInv, route.view = "inbox", page.status = "loaded"
                 PROVE  page.list = [i \in 1..Len(page.list) |-> <<route.filter, i>>]
      BY DEF InboxIsOneList
    <2>1. PICK k \in 1..Pages : page.list = [i \in 1..k |-> <<route.filter, i>>]
      BY DEF PagesInv, InboxOK
    <2>2. Len(page.list) = k BY <2>1, TaskPagesConstants
    <2> QED BY <2>1, <2>2
  <1>3. PagesInv => InboxInv BY <1>1, <1>2 DEF InboxInv
  <1> QED BY <1>3, PagesInvHolds, PTL

(* TaskDetail, AttemptDetail and PipelineStudio show what the address names, unless the    *)
(* page switched in place while a request of what it showed before was left running.       *)
THEOREM PagesShowTheirAddress == Spec => []ShownIsAddressed
  <1>1. PagesInv => ShownIsAddressed BY DEF PagesInv, EntityOK, ShownIsAddressed
  <1> QED BY <1>1, PagesInvHolds, PTL

(* The outcome that refreshTask, the load effects and the Studio put on a page is the one  *)
(* of the Attempt it shows, whatever polls and newer Attempts came between the two         *)
(* answers.                                                                                *)
THEOREM ReviewsAreOfTheShown == Spec => []ReviewIsOfShown
  <1>1. PagesInv => ReviewIsOfShown BY DEF PagesInv, EntityOK, ReviewIsOfShown
  <1> QED BY <1>1, PagesInvHolds, PTL

(* The text in TaskComposer is the stored draft whenever no submission is under way,       *)
(* through typing, failed and late submissions and pages opened meanwhile.                 *)
THEOREM DraftsAreSaved == Spec => []DraftIsSaved
  <1>1. PagesInv => DraftIsSaved BY DEF PagesInv, ComposerOK, DraftIsSaved
  <1> QED BY <1>1, PagesInvHolds, PTL

-----------------------------------------------------------------------------
(* Refused starts *)

\* Requests are sent without an answer, and what a closed page leaves behind stays.
LEMMA SentUnanswered ==
  ASSUME NEW r, NEW q \in LoadRequest(r)
  PROVE  q.res = "none"
  BY LoadRequestOK DEF Request

\* Requests are records.
Record(r) == r = [f \in DOMAIN r |-> r[f]]

RecordsInv == \A r \in reqs : Record(r)

LEMMA SentRecord ==
  ASSUME NEW p, \/ \E a : p \in LoadRequest(a)
                \/ \E kind, t, n, arg : p = Request(kind, t, n, arg)
                \/ \E rs : p \in Unmounted(rs)
  PROVE  Record(p)
  <1>1. \A kind, t, n, arg : Record(Request(kind, t, n, arg)) BY DEF Record, Request
  <1>2. \A q : Record([q EXCEPT !.own = FALSE]) BY DEF Record
  <1> QED BY <1>1, <1>2, LoadRequestOK DEF Unmounted

LEMMA RecordsStep ==
  ASSUME RecordsInv, [Next]_vars
  PROVE  RecordsInv'
  <1>1. \A rs : AbortLoad(rs) \subseteq rs BY DEF AbortLoad
  <1>2. SUFFICES ASSUME NEW p \in reqs' PROVE p \in reqs \/ Record(p)
    BY DEF RecordsInv, Record
  <1>3. CASE Navigate \/ OpenCreated
    <2>1. PICK a : Go(a)
      BY <1>3 DEF Navigate, OpenTask, NewTask, ChangeFilter, OpenAttempt, OpenStudio, Back, Leave,
                  Jump, OpenCreated
    <2> QED BY <1>1, <2>1, SentRecord DEF Go
  <1>4. CASE UserActs
    <2>1. CASE ReadinessChanges \/ \E v \in Texts \cup {Empty} : Type(v)
      BY <2>1 DEF ReadinessChanges, Type
    <2>2. CASE LoadMore \/ AdmitFirstAttempt \/ ArchiveTask \/ Submit
      <3>1. PICK kind, t, n, arg : reqs' \subseteq reqs \cup {Request(kind, t, n, arg)}
        BY <1>1, <2>2 DEF LoadMore, AdmitFirstAttempt, ArchiveTask, Submit
      <3> QED BY <3>1, SentRecord
    <2>3. CASE RetryList \/ RetryLoad
      <3>1. reqs' \subseteq reqs \cup LoadRequest(route) BY <1>1, <2>3 DEF RetryList, RetryLoad
      <3> QED BY <3>1, SentRecord
    <2> QED BY <1>3, <1>4, <2>1, <2>2, <2>3 DEF UserActs
  <1>5. CASE StartPoll \/ StopPoll BY <1>5, SentRecord DEF StartPoll, StopPoll
  <1>6. CASE Network
    <2>1. PICK q \in reqs : Answer(q) \/ Fails(q) \/ Deliver(q) BY <1>6 DEF Network
    <2>2. CASE Answer(q) \/ Fails(q)
      <3>1. \A a : Record([q EXCEPT !.res = "ok", !.ans = a]) BY DEF Record
      <3>2. Record([q EXCEPT !.res = "error"]) /\ Record([q EXCEPT !.res = "conflict", !.ans = None])
        BY DEF Record
      <3>3. Record([q EXCEPT !.res = "error", !.ans = None]) BY DEF Record
      <3>4. CASE Fails(q) BY <3>3, <3>4 DEF Fails
      <3>5. CASE AnswerRead(q)
        <4>1. CASE Replies(q) = {} /\ reqs' = (reqs \ {q}) \cup {[q EXCEPT !.res = "error"]}
          BY <3>2, <4>1
        <4>2. CASE \E a \in Replies(q) :
                     reqs' = (reqs \ {q}) \cup {[q EXCEPT !.res = "ok", !.ans = a]}
          BY <3>1, <4>2
        <4> QED BY <3>5, <4>1, <4>2 DEF AnswerRead
      <3>6. CASE AnswerAdmission(q)
        <4>1. \/ reqs' = (reqs \ {q}) \cup {[q EXCEPT !.res = "ok", !.ans = 1]}
              \/ reqs' = (reqs \ {q}) \cup {[q EXCEPT !.res = "conflict", !.ans = None]}
          BY <3>6 DEF AnswerAdmission
        <4>2. Record([q EXCEPT !.res = "ok", !.ans = 1]) BY <3>1
        <4> QED BY <3>2, <4>1, <4>2
      <3>7. CASE AnswerArchive(q) BY <3>1, <3>2, <3>7 DEF AnswerArchive
      <3>8. CASE AnswerCreate(q) BY <3>1, <3>8 DEF AnswerCreate
      <3> QED BY <2>2, <3>4, <3>5, <3>6, <3>7, <3>8 DEF Answer
    <2>3. CASE DeliverInbox(q) \/ DeliverReview(q) \/ DeliverArchive(q)
      BY <2>3 DEF DeliverInbox, DeliverReview, DeliverArchive
    <2>4. CASE DeliverMain(q)
      <3>1. \A n : Record([q EXCEPT !.phase = "review", !.res = "none", !.ans = None, !.n = n])
        BY DEF Record
      <3> QED BY <2>4, <3>1 DEF DeliverMain
    <2>5. CASE DeliverCreate(q)
      <3>1. Record([q EXCEPT !.kind = "start", !.task = q.ans, !.res = "none", !.ans = None])
        BY DEF Record
      <3> QED BY <2>5, <3>1 DEF DeliverCreate
    <2>6. CASE DeliverAdmission(q) \/ DeliverStart(q)
      BY <1>1, <2>6, SentRecord DEF DeliverAdmission, DeliverStart
    <2> QED BY <2>1, <2>2, <2>3, <2>4, <2>5, <2>6 DEF Deliver
  <1>7. CASE Service \/ UNCHANGED vars
    BY <1>7 DEF Service, AttemptAdvances, AttemptRetried, TaskChanged, vars
  <1> QED BY <1>3, <1>4, <1>5, <1>6, <1>7 DEF Next

LEMMA RecordsHold == Spec => []RecordsInv
  <1>1. Init => RecordsInv BY SentRecord DEF Init, RecordsInv
  <1> QED BY <1>1, RecordsStep, PTL DEF Spec

\* A request that answers no refusal leaves no refused one.
LEMMA LeavesUnrefused ==
  ASSUME PagesInv, RecordsInv, NEW rs \in SUBSET reqs, NEW a,
         reqs' = Unmounted(rs) \cup LoadRequest(a) \/ reqs' = AbortLoad(rs) \cup LoadRequest(a),
         NEW r \in rs \ reqs', r.kind \in {"admit", "start"},
         [r EXCEPT !.res = "conflict", !.ans = None] \in reqs' \ reqs
  PROVE  FALSE
  <1>1. DOMAIN r = {"kind", "own", "task", "n", "arg", "phase", "res", "ans"}
    BY DEF PagesInv, ReqsOK, ReqOK
  <1>2. PICK q \in reqs' : q = [r EXCEPT !.res = "conflict", !.ans = None] OBVIOUS
  <1>3. q \notin LoadRequest(a)
    <2>1. q.res = "conflict" BY <1>1, <1>2
    <2> QED BY <2>1, SentUnanswered
  <1>4. q \notin AbortLoad(rs) BY <1>2 DEF AbortLoad
  <1>5. q \in Unmounted(rs) /\ reqs' = Unmounted(rs) \cup LoadRequest(a) BY <1>3, <1>4
  <1>6. q.own = FALSE BY <1>5, UnmountedOK DEF PagesInv, ReqsOK
  <1>7. r.own = FALSE BY <1>1, <1>2, <1>6
  <1>8. [r EXCEPT !.own = FALSE] = r BY <1>1, <1>7 DEF RecordsInv, Record
  <1>9. r.kind \notin Guarded \cup {"poll"} BY DEF Guarded
  <1>10. r \in Unmounted(rs) BY <1>8, <1>9 DEF Unmounted
  <1> QED BY <1>5, <1>10

\* The page that sends this start has started the Task before, and nobody has changed the Task.
OwnStart(r) ==
  /\ r.kind \in {"admit", "start"} /\ r.res = "none" /\ srv[r.task].key # None
  /\ srv[r.task].key.by = r.n /\ srv[r.task].life = "open" /\ srv[r.task].key.rev = srv[r.task].rev

\* The service recognises such a start: keys belong to pages.
LEMMA OwnStartIsSame ==
  ASSUME PagesInv, NEW r \in reqs, OwnStart(r), AnswerAdmission(r)
  PROVE  UNCHANGED srv /\ reqs' = (reqs \ {r}) \cup {[r EXCEPT !.res = "ok", !.ans = 1]}
  <1>1. ReqOK(r) BY DEF PagesInv, ReqsOK
  <1>2. r.task \in Tasks /\ r.arg = <<r.n, 0>> BY <1>1 DEF ReqOK, OwnStart
  <1>3. srv[r.task].key.key = r.arg BY <1>2 DEF PagesInv, SrvOK, TaskOK, OwnStart
  <1>4. srv[r.task].life = "open" /\ SameRequest(srv[r.task], r) BY <1>3 DEF SameRequest, OwnStart
  <1> QED BY <1>4 DEF AnswerAdmission

\* Such a start is not refused: what users, polls and other requests do answers nothing, and the
\* service answers it ok.
LEMMA OwnStartUnrefused ==
  ASSUME PagesInv, RecordsInv, [Next]_vars, NEW r \in reqs \ reqs', OwnStart(r),
         [r EXCEPT !.res = "conflict", !.ans = None] \in reqs' \ reqs
  PROVE  FALSE
  <1>1. ReqOK(r) /\ r.kind \in {"admit", "start"} /\ r.res = "none"
    BY DEF PagesInv, ReqsOK, OwnStart
  <1>2. PICK p \in reqs' : p = [r EXCEPT !.res = "conflict", !.ans = None] /\ p \notin reqs OBVIOUS
  <1>3. p.res = "conflict" /\ p.kind = r.kind BY <1>1, <1>2 DEF ReqOK
  <1>4. CASE Navigate \/ OpenCreated
    <2>1. PICK a : Go(a)
      BY <1>4 DEF Navigate, OpenTask, NewTask, ChangeFilter, OpenAttempt, OpenStudio, Back, Leave,
                  Jump, OpenCreated
    <2>2. /\ reqs' # reqs
          /\ reqs' = Unmounted(reqs) \cup LoadRequest(a) \/ reqs' = AbortLoad(reqs) \cup LoadRequest(a)
      BY <1>2, <2>1 DEF Go
    <2> QED BY <1>1, <2>2, LeavesUnrefused
  <1>5. CASE UserActs
    <2>1. CASE LoadMore \/ AdmitFirstAttempt \/ ArchiveTask \/ Submit
      <3>1. PICK q : reqs' \subseteq reqs \cup {q} /\ q.res = "none"
        <4>1. PICK kind, t, n, arg : reqs' \subseteq reqs \cup {Request(kind, t, n, arg)}
          BY <2>1 DEF LoadMore, AdmitFirstAttempt, ArchiveTask, Submit, AbortLoad
        <4>2. Request(kind, t, n, arg).res = "none" BY DEF Request
        <4> QED BY <4>1, <4>2
      <3> QED BY <1>2, <1>3, <3>1
    <2>2. CASE RetryList \/ RetryLoad
      <3>1. reqs' = AbortLoad(reqs) \cup LoadRequest(route) BY <2>2 DEF RetryList, RetryLoad
      <3> QED BY <1>1, <3>1, LeavesUnrefused
    <2>3. CASE ReadinessChanges \/ \E v \in Texts \cup {Empty} : Type(v)
      BY <1>2, <2>3 DEF ReadinessChanges, Type
    <2> QED BY <1>4, <1>5, <2>1, <2>2, <2>3 DEF UserActs
  <1>6. CASE StartPoll \/ StopPoll
    BY <1>2, <1>3, <1>6 DEF StartPoll, StopPoll, Request
  <1>7. CASE Network
    <2>1. PICK q \in reqs : Answer(q) \/ Fails(q) \/ Deliver(q) BY <1>7 DEF Network
    <2>2. CASE Deliver(q)
      <3>1. q # r BY <1>1, <2>2 DEF Deliver
      <3>2. ASSUME reqs' \subseteq reqs PROVE FALSE BY <1>2, <3>2
      <3>3. CASE DeliverAdmission(q) \/ DeliverStart(q)
        <4>1. PICK rs \in SUBSET reqs : rs = reqs \ {q} OBVIOUS
        <4>2. PICK a : \/ reqs' = rs
                       \/ reqs' = Unmounted(rs) \cup LoadRequest(a)
                       \/ reqs' = AbortLoad(rs) \cup LoadRequest(a)
          BY <3>3, <4>1 DEF DeliverAdmission, DeliverStart
        <4> QED BY <1>1, <3>1, <3>2, <4>1, <4>2, LeavesUnrefused
      <3>4. CASE ~(DeliverAdmission(q) \/ DeliverStart(q))
        <4>1. ReqOK(q) BY DEF PagesInv, ReqsOK
        <4>2. \A n, t : /\ [q EXCEPT !.phase = "review", !.res = "none", !.ans = None, !.n = n].res = "none"
                        /\ [q EXCEPT !.kind = "start", !.task = t, !.res = "none", !.ans = None].res = "none"
          BY <4>1 DEF ReqOK
        <4>3. PICK s : reqs' \subseteq reqs \cup {s} /\ s.res = "none"
          BY <2>2, <3>4, <4>2 DEF Deliver, DeliverInbox, DeliverMain, DeliverReview, DeliverArchive, DeliverCreate
        <4> QED BY <1>2, <1>3, <4>3
      <3> QED BY <3>3, <3>4
    <2>3. CASE Answer(q) \/ Fails(q)
      <3>1. PICK s : reqs' = (reqs \ {q}) \cup {s}
        BY <2>3 DEF Answer, AnswerRead, AnswerAdmission, AnswerArchive, AnswerCreate, Fails
      <3>2. q = r /\ s = p BY <1>2, <3>1
      <3>3. AnswerAdmission(r)
        <4>1. CASE Fails(r)
          <5>1. [r EXCEPT !.res = "error", !.ans = None].res = "error" BY <1>1 DEF ReqOK
          <5> QED BY <1>2, <1>3, <4>1, <5>1 DEF Fails
        <4>2. CASE Answer(r)
          BY <1>1, <4>2 DEF Answer, AnswerRead, AnswerArchive, AnswerCreate, Guarded
        <4> QED BY <2>3, <3>2, <4>1, <4>2
      <3>4. p = [r EXCEPT !.res = "ok", !.ans = 1]
        <4>1. p \in (reqs \ {r}) \cup {[r EXCEPT !.res = "ok", !.ans = 1]}
          BY <1>2, <3>3, OwnStartIsSame
        <4> QED BY <1>2, <4>1
      <3> QED BY <1>1, <1>3, <3>4 DEF ReqOK
    <2> QED BY <2>1, <2>2, <2>3
  <1>8. CASE Service \/ UNCHANGED vars
    BY <1>2, <1>8 DEF Service, AttemptAdvances, AttemptRetried, TaskChanged, vars
  <1> QED BY <1>4, <1>5, <1>6, <1>7, <1>8 DEF Next

\* What starts an Attempt of a Task is another request or another client.
LEMMA OwnStartAdmitsNothing ==
  ASSUME PagesInv, [Next]_vars, NEW r \in reqs \ reqs', OwnStart(r)
  PROVE  UNCHANGED srv
  <1>1. CASE Navigate
    BY <1>1 DEF Navigate, OpenTask, NewTask, ChangeFilter, OpenAttempt, OpenStudio, Back, Leave, Jump, Steady
  <1>2. CASE UserActs
    BY <1>2 DEF UserActs, LoadMore, RetryList, RetryLoad, AdmitFirstAttempt, ArchiveTask, Type,
                ReadinessChanges, Submit, OpenCreated, Steady
  <1>3. CASE StartPoll \/ StopPoll BY <1>3 DEF StartPoll, StopPoll
  <1>4. CASE Network
    <2>1. PICK q \in reqs : Answer(q) \/ Fails(q) \/ Deliver(q) BY <1>4 DEF Network
    <2>2. CASE Fails(q) BY <2>2 DEF Fails
    <2>3. CASE Deliver(q)
      BY <2>3 DEF Deliver, DeliverInbox, DeliverMain, DeliverReview, DeliverAdmission, DeliverArchive,
                  DeliverCreate, DeliverStart
    <2>4. CASE Answer(q)
      <3>1. PICK s : reqs' = (reqs \ {q}) \cup {s}
        BY <2>4 DEF Answer, AnswerRead, AnswerAdmission, AnswerArchive, AnswerCreate
      <3>2. q = r BY <3>1
      <3>3. AnswerAdmission(r)
        BY <2>4, <3>2 DEF OwnStart, Answer, AnswerRead, AnswerArchive, AnswerCreate, Guarded
      <3> QED BY <3>3, OwnStartIsSame
    <2> QED BY <2>1, <2>2, <2>3, <2>4
  <1>5. CASE Service \/ UNCHANGED vars
    BY <1>5 DEF Service, AttemptAdvances, AttemptRetried, TaskChanged, vars
  <1> QED BY <1>1, <1>2, <1>3, <1>4, <1>5 DEF Next

(* A start that admitFirstAttempt repeats because its first answer was lost is answered    *)
(* with the Attempt the same page has started, and starts no other one, as long as the     *)
(* Task is open and at the revision it was started with.                                   *)
THEOREM OwnStartsAreFound == Spec => OwnStartIsFound
  <1>1. ASSUME PagesInv, RecordsInv, [Next]_vars, NEW r \in reqs \ reqs', OwnStart(r)
        PROVE  /\ [r EXCEPT !.res = "conflict", !.ans = None] \notin reqs' \ reqs
               /\ srv'[r.task].atts = srv[r.task].atts
    BY <1>1, OwnStartUnrefused, OwnStartAdmitsNothing
  <1> DEFINE Found(r) ==
        LET t == srv[r.task]
            refused == [r EXCEPT !.res = "conflict", !.ans = None]
        IN /\ r.kind \in {"admit", "start"} /\ r.res = "none"
           /\ t.key # None /\ t.key.by = r.n /\ t.life = "open" /\ t.key.rev = t.rev
           => refused \notin reqs' \ reqs /\ srv'[r.task].atts = t.atts
  <1>2. PagesInv /\ RecordsInv /\ [Next]_vars => [\A r \in reqs \ reqs' : Found(r)]_vars
    BY <1>1 DEF OwnStart
  <1> QED BY <1>2, PagesInvHolds, RecordsHold, PTL DEF Spec, OwnStartIsFound
=============================================================================
