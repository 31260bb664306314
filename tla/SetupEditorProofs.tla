------------------------- MODULE SetupEditorProofs -------------------------
(***************************************************************************)
(* Theorems about SetupEditor, for any workspaces, forms, overlapping      *)
(* handlers, user events and failures: an unsaved text has its draft, and  *)
(* the draft of an unsaved text is given up only for a save that has it.   *)
(* A step of the page is a chain of changes to a pending state, ended by   *)
(* Commit: the lemmas go along that chain.                                 *)
(***************************************************************************)
EXTENDS SetupEditor, TLAPS

-----------------------------------------------------------------------------
(* The invariant *)

UIFields ==
  {"path", "restored", "content", "form", "dirty", "unsaved", "valid", "doctor", "busy", "status",
   "ready", "route", "loading", "validating"}

ProcFields == {"op", "todo", "key", "ws", "val", "can", "sent", "cur", "got"}

Paths == Workspaces \cup {None}

SrvOK ==
  srv \in [ws : Paths, runtime : BOOLEAN, manifest : [Workspaces -> Texts \cup {Empty}]]

UIOK(u) ==
  /\ DOMAIN u = UIFields
  /\ u.path \in Paths /\ u.restored \in Paths
  /\ u.content \in Texts \cup {Empty} /\ u.form \in Forms \cup {Bad}
  /\ u.dirty \in BOOLEAN /\ u.unsaved \in BOOLEAN /\ u.busy \in BOOLEAN /\ u.ready \in BOOLEAN
  /\ u.valid \in {"none", "ok", "bad"} /\ u.doctor \in {"none", "ok", "bad"}
  /\ u.loading \in Procs \cup {0} /\ u.validating \in Procs \cup {0}

DraftsOK(d) == d \in [Workspaces -> Drafts \cup {None}]

\* The answer a handler got fits the call it waits for.
GotOK(q) ==
  q.got # None /\ q.got # Failed =>
    /\ Head(q.todo) \in {"status", "forget", "runtime", "enter", "select"} => q.got.ws \in Paths
    /\ Head(q.todo) = "load" => q.got \in Texts \cup {Empty}
    /\ Head(q.todo) \in {"validate", "precheck", "check", "doctor"} => q.got \in {"ok", "bad"}

ProcOK(q) ==
  /\ DOMAIN q = ProcFields
  /\ q.key \in Paths /\ q.ws \in Paths /\ q.sent \in Texts \cup {Empty}
  /\ GotOK(q)

\* While a guided save is the current one, its text is the editor's only with its form.
CurrentOK(q, u) ==
  q.cur =>
    /\ q.op \in Saves
    /\ q.op \in Guided =>
         /\ q.sent.form \in Forms /\ q.sent = Build(q.sent.form)
         /\ u.content = q.sent => u.form = q.sent.form

ProcsOK(ps, u) == DOMAIN ps = Procs /\ \A i \in Procs : ProcOK(ps[i]) /\ CurrentOK(ps[i], u)

\* A pending state of the page.
StateOK(st) ==
  DOMAIN st = {"u", "d", "p"} /\ UIOK(st.u) /\ DraftsOK(st.d) /\ ProcsOK(st.p, st.u)

Bounds == moves \in 0..MaxMoves /\ errs \in 0..MaxErrors

SetupInv ==
  SrvOK /\ UIOK(ui) /\ DraftsOK(drafts) /\ ProcsOK(procs, ui) /\ UnsavedIsStored /\ Bounds

\* No draft disappears.
Kept == \A w \in Workspaces : drafts'[w] = None => drafts[w] = None

-----------------------------------------------------------------------------
(* Changes to a pending state *)

LEMMA RevisedOK ==
  ASSUME NEW ps, NEW u, ProcsOK(ps, u), NEW v
  PROVE  ProcsOK(Revised(ps), v)
  <1>1. ASSUME NEW i \in Procs PROVE ProcOK(Revised(ps)[i]) /\ CurrentOK(Revised(ps)[i], v)
    <2>1. PICK q : q = Revised(ps)[i] OBVIOUS
    <2>2. q = [ps[i] EXCEPT !.cur = FALSE] BY <2>1 DEF Revised
    <2>3. ProcOK(ps[i]) BY DEF ProcsOK
    <2>4. /\ DOMAIN q = ProcFields /\ q.key = ps[i].key /\ q.ws = ps[i].ws /\ q.sent = ps[i].sent
          /\ q.got = ps[i].got /\ q.todo = ps[i].todo /\ q.cur = FALSE
      BY <2>2, <2>3 DEF ProcOK, ProcFields
    <2>5. ProcOK(q) BY <2>3, <2>4 DEF ProcOK, GotOK
    <2>6. CurrentOK(q, v) BY <2>4 DEF CurrentOK
    <2> QED BY <2>1, <2>5, <2>6
  <1> QED BY <1>1 DEF ProcsOK, Revised

\* The page changes, but not its text and form.
LEMMA PageStep ==
  ASSUME NEW st, StateOK(st), NEW t, DOMAIN t = {"u", "d", "p"}, t.d = st.d, t.p = st.p,
         UIOK(t.u), t.u.content = st.u.content, t.u.form = st.u.form
  PROVE  StateOK(t)
  BY DEF StateOK, ProcsOK, CurrentOK

\* One handler changes.
WithProc(st, i, q) == [st EXCEPT !.p[i] = q]

WithTodo(st, i, todo) == [st EXCEPT !.p[i].todo = todo]

WithoutAnswer(st, i) == [st EXCEPT !.p[i].got = None]

LEMMA ProcStep ==
  ASSUME NEW st, StateOK(st), NEW i \in Procs, NEW q, ProcOK(q), CurrentOK(q, st.u), NEW t,
         t = WithProc(st, i, q)
  PROVE  StateOK(t) /\ t.d = st.d /\ t.u = st.u /\ t.p[i] = q
  <1>1. DOMAIN t = {"u", "d", "p"} /\ t.d = st.d /\ t.u = st.u /\ t.p = [st.p EXCEPT ![i] = q]
    BY DEF StateOK, WithProc
  <1>2. DOMAIN t.p = Procs /\ \A j \in Procs : t.p[j] = IF j = i THEN q ELSE st.p[j]
    BY <1>1 DEF StateOK, ProcsOK
  <1> QED BY <1>1, <1>2 DEF StateOK, ProcsOK

LEMMA FreeOK ==
  ASSUME NEW u
  PROVE  ProcOK(Free) /\ CurrentOK(Free, u)
  <1>1. PICK q : q = Free OBVIOUS
  <1>2. DOMAIN q = ProcFields /\ q.key = None /\ q.ws = None /\ q.sent = Empty /\ q.cur = FALSE /\ q.got = None
    BY <1>1 DEF Free, ProcFields
  <1> QED BY <1>1, <1>2 DEF ProcOK, CurrentOK, GotOK, Paths

\* Every edit revises the form: no save under way is the current one any more.
LEMMA DirtyOK ==
  ASSUME NEW st, StateOK(st), NEW t, t = markSetupDirty(st)
  PROVE  /\ StateOK(t) /\ t.d = st.d /\ t.u.content = st.u.content /\ t.u.form = st.u.form
         /\ t.u.busy = st.u.busy /\ t.u.path = st.u.path /\ \A i \in Procs : ~t.p[i].cur
  <1>1. PICK u : u = [st.u EXCEPT !.dirty = TRUE, !.unsaved = TRUE, !.valid = "none"] OBVIOUS
  <1>2. DOMAIN t = {"u", "d", "p"} /\ t.u = u /\ t.d = st.d /\ t.p = Revised(st.p)
    BY <1>1 DEF markSetupDirty, StateOK
  <1>3. UIOK(u) /\ u.content = st.u.content /\ u.form = st.u.form /\ u.busy = st.u.busy /\ u.path = st.u.path
    BY <1>1 DEF StateOK, UIOK, UIFields
  <1>4. ProcsOK(t.p, u) BY <1>2, RevisedOK DEF StateOK
  <1>5. ASSUME NEW i \in Procs PROVE ~t.p[i].cur
    <2>1. t.p[i] = [st.p[i] EXCEPT !.cur = FALSE] BY <1>2 DEF Revised
    <2>2. DOMAIN st.p[i] = ProcFields BY DEF StateOK, ProcsOK, ProcOK
    <2> QED BY <2>1, <2>2 DEF ProcFields
  <1> QED BY <1>2, <1>3, <1>4, <1>5 DEF StateOK

LEMMA RestoreOK ==
  ASSUME NEW st, StateOK(st), NEW k \in Workspaces, st.d[k] # None, NEW t, t = restoreWorkspaceDraft(st, k)
  PROVE  /\ StateOK(t) /\ t.d = st.d /\ t.u.path = st.u.path
         /\ \A i \in Procs : t.p[i].got = st.p[i].got
  <1>1. st.d[k] \in Drafts BY DEF StateOK, DraftsOK
  <1>2. st.d[k].content \in Texts \cup {Empty} /\ st.d[k].form \in Forms \cup {Bad} BY <1>1 DEF Drafts
  <1>3. PICK u : u = [st.u EXCEPT !.dirty = TRUE, !.unsaved = TRUE, !.content = st.d[k].content,
                                  !.form = st.d[k].form, !.valid = "none", !.restored = k]
    OBVIOUS
  <1>4. DOMAIN t = {"u", "d", "p"} /\ t.u = u /\ t.d = st.d /\ t.p = Revised(st.p)
    BY <1>3 DEF restoreWorkspaceDraft, StateOK
  <1>5. UIOK(u) /\ u.path = st.u.path BY <1>2, <1>3 DEF StateOK, UIOK, UIFields, Paths
  <1>6. ProcsOK(t.p, u) BY <1>4, RevisedOK DEF StateOK
  <1>7. ASSUME NEW i \in Procs PROVE t.p[i].got = st.p[i].got
    <2>1. t.p[i] = [st.p[i] EXCEPT !.cur = FALSE] BY <1>4 DEF Revised
    <2>2. DOMAIN st.p[i] = ProcFields BY DEF StateOK, ProcsOK, ProcOK
    <2> QED BY <2>1, <2>2 DEF ProcFields
  <1> QED BY <1>4, <1>5, <1>6, <1>7 DEF StateOK

LEMMA CleanOK ==
  ASSUME NEW st, StateOK(st), NEW k \in Paths, NEW t, t = Clean(st, k)
  PROVE  /\ StateOK(t) /\ t.d = st.d /\ t.p = st.p /\ t.u.path = st.u.path /\ ~t.u.unsaved
  <1>1. PICK u : u = [st.u EXCEPT !.dirty = FALSE, !.unsaved = FALSE, !.restored = k] OBVIOUS
  <1>2. DOMAIN t = {"u", "d", "p"} /\ t.u = u /\ t.d = st.d /\ t.p = st.p
    BY <1>1 DEF Clean, StateOK
  <1>3. /\ UIOK(u) /\ u.content = st.u.content /\ u.form = st.u.form /\ u.path = st.u.path /\ ~u.unsaved
    BY <1>1 DEF StateOK, UIOK, UIFields
  <1> QED BY <1>2, <1>3, PageStep

\* The end of a handler changes nothing of the text, the form and the path.
LEMMA ReturnOK ==
  ASSUME NEW st, StateOK(st), NEW i \in Procs, NEW t, t = Return(st, i)
  PROVE  StateOK(t) /\ t.d = st.d /\ t.u.path = st.u.path /\ t.u.unsaved = st.u.unsaved
  <1>1. PICK b \in BOOLEAN : b = IF st.p[i].op \in Exclusive THEN FALSE ELSE st.u.busy
    BY DEF StateOK, UIOK
  <1>2. PICK u : u = [st.u EXCEPT !.busy = b] OBVIOUS
  <1>3. PICK s : s = WithProc(st, i, Free) OBVIOUS
  <1>4. StateOK(s) /\ s.d = st.d /\ s.u = st.u BY <1>3, FreeOK, ProcStep
  <1>5. DOMAIN t = {"u", "d", "p"} /\ t.u = u /\ t.d = s.d /\ t.p = s.p
    BY <1>1, <1>2, <1>3 DEF Return, StateOK, WithProc
  <1>6. /\ UIOK(u) /\ u.content = st.u.content /\ u.form = st.u.form /\ u.path = st.u.path
        /\ u.unsaved = st.u.unsaved
    BY <1>2 DEF StateOK, UIOK, UIFields
  <1> QED BY <1>4, <1>5, <1>6, PageStep

LEMMA TodoOK ==
  ASSUME NEW st, StateOK(st), NEW i \in Procs, st.p[i].got = None, NEW todo, NEW t,
         t = WithTodo(st, i, todo)
  PROVE  StateOK(t) /\ t.d = st.d /\ t.u = st.u
  <1>1. ProcOK(st.p[i]) /\ CurrentOK(st.p[i], st.u) BY DEF StateOK, ProcsOK
  <1>2. PICK q : q = [st.p[i] EXCEPT !.todo = todo] OBVIOUS
  <1>3. /\ DOMAIN q = ProcFields /\ q.op = st.p[i].op /\ q.key = st.p[i].key /\ q.ws = st.p[i].ws
        /\ q.sent = st.p[i].sent /\ q.cur = st.p[i].cur /\ q.got = None
    BY <1>1, <1>2 DEF ProcOK, ProcFields
  <1>4. ProcOK(q) /\ CurrentOK(q, st.u) BY <1>1, <1>3 DEF ProcOK, CurrentOK, GotOK
  <1>5. t = WithProc(st, i, q) BY <1>2 DEF WithProc, WithTodo
  <1> QED BY <1>4, <1>5, ProcStep

LEMMA ForgetAnswer ==
  ASSUME NEW st, StateOK(st), NEW i \in Procs, NEW t, t = WithoutAnswer(st, i)
  PROVE  StateOK(t) /\ t.d = st.d /\ t.u = st.u /\ t.p[i].got = None
  <1>1. ProcOK(st.p[i]) /\ CurrentOK(st.p[i], st.u) BY DEF StateOK, ProcsOK
  <1>2. PICK q : q = [st.p[i] EXCEPT !.got = None] OBVIOUS
  <1>3. /\ DOMAIN q = ProcFields /\ q.op = st.p[i].op /\ q.key = st.p[i].key /\ q.ws = st.p[i].ws
        /\ q.sent = st.p[i].sent /\ q.cur = st.p[i].cur /\ q.got = None
    BY <1>1, <1>2 DEF ProcOK, ProcFields
  <1>4. ProcOK(q) /\ CurrentOK(q, st.u) BY <1>1, <1>3 DEF ProcOK, CurrentOK, GotOK
  <1>5. t = WithProc(st, i, q) BY <1>2 DEF WithProc, WithoutAnswer
  <1> QED BY <1>3, <1>4, <1>5, ProcStep

\* loadManifest, which may restore a draft instead.
LEMMA BeginLoadOK ==
  ASSUME NEW st, StateOK(st), NEW i \in Procs, st.p[i].got = None, NEW todo, NEW t,
         t = BeginLoad(st, i, todo)
  PROVE  StateOK(t) /\ t.d = st.d
  <1>1. PICK k : k = IF st.p[i].op = "select" THEN st.p[i].ws ELSE st.p[i].key OBVIOUS
  <1>2. k \in Paths BY <1>1 DEF StateOK, ProcsOK, ProcOK
  <1>3. CASE k # None /\ st.u.restored # k /\ st.d[k] # None
    <2>1. PICK s : s = restoreWorkspaceDraft(st, k) OBVIOUS
    <2>2. StateOK(s) /\ s.d = st.d /\ s.p[i].got = None BY <1>2, <1>3, <2>1, RestoreOK DEF Paths
    <2>3. PICK rest : rest = Tail(todo) OBVIOUS
    <2>4. t = WithTodo(s, i, rest) BY <1>1, <1>3, <2>1, <2>3 DEF BeginLoad, WithTodo
    <2>5. StateOK(t) /\ t.d = s.d BY <2>2, <2>4, TodoOK
    <2> QED BY <2>2, <2>5
  <1>4. CASE ~(k # None /\ st.u.restored # k /\ st.d[k] # None)
    <2>1. PICK s : s = IF k # None /\ st.u.restored # k THEN Clean(st, k) ELSE st OBVIOUS
    <2>2. StateOK(s) /\ s.d = st.d /\ s.p = st.p BY <1>2, <2>1, CleanOK
    <2>3. t = [s EXCEPT !.u.loading = i, !.p[i].todo = todo] BY <1>1, <1>4, <2>1 DEF BeginLoad
    <2>4. PICK v : v = WithTodo(s, i, todo) OBVIOUS
    <2>5. StateOK(v) /\ v.d = st.d /\ v.u = s.u BY <2>2, <2>4, TodoOK
    <2>6. PICK u : u = [s.u EXCEPT !.loading = i] OBVIOUS
    <2>7. DOMAIN t = {"u", "d", "p"} /\ t.u = u /\ t.d = v.d /\ t.p = v.p
      BY <2>2, <2>3, <2>4, <2>6 DEF StateOK, WithTodo
    <2>8. UIOK(u) /\ u.content = v.u.content /\ u.form = v.u.form
      BY <2>2, <2>5, <2>6 DEF StateOK, UIOK, UIFields
    <2> QED BY <2>5, <2>7, <2>8, PageStep
  <1> QED BY <1>3, <1>4

LEMMA ContinueOK ==
  ASSUME NEW st, StateOK(st), NEW i \in Procs, NEW todo, NEW t, t = Continue(st, i, todo)
  PROVE  StateOK(t) /\ t.d = st.d
  <1>1. PICK on : on = WithoutAnswer(st, i) OBVIOUS
  <1>2. StateOK(on) /\ on.d = st.d /\ on.u = st.u /\ on.p[i].got = None BY <1>1, ForgetAnswer
  <1>3. CASE t = Return(on, i) BY <1>2, <1>3, ReturnOK
  <1>4. CASE t = BeginLoad(on, i, todo) BY <1>2, <1>4, BeginLoadOK
  <1>5. CASE t = [on EXCEPT !.u.validating = i, !.u.busy = TRUE, !.p[i].todo = todo]
    <2>1. PICK v : v = WithTodo(on, i, todo) OBVIOUS
    <2>2. StateOK(v) /\ v.d = st.d /\ v.u = on.u BY <1>2, <2>1, TodoOK
    <2>3. PICK u : u = [on.u EXCEPT !.validating = i, !.busy = TRUE] OBVIOUS
    <2>4. DOMAIN t = {"u", "d", "p"} /\ t.u = u /\ t.d = v.d /\ t.p = v.p
      BY <1>2, <1>5, <2>1, <2>3 DEF StateOK, WithTodo
    <2>5. UIOK(u) /\ u.content = v.u.content /\ u.form = v.u.form
      BY <1>2, <2>2, <2>3 DEF StateOK, UIOK, UIFields
    <2> QED BY <2>2, <2>4, <2>5, PageStep
  <1>6. CASE t = WithTodo(on, i, todo) BY <1>2, <1>6, TodoOK
  <1>7. \/ t = Return(on, i) \/ t = BeginLoad(on, i, todo)
        \/ t = [on EXCEPT !.u.validating = i, !.u.busy = TRUE, !.p[i].todo = todo]
        \/ t = WithTodo(on, i, todo)
    <2>1. CASE todo = <<>> BY <1>1, <2>1 DEF Continue, WithoutAnswer
    <2>2. CASE todo # <<>> /\ Head(todo) = "load" BY <1>1, <2>2 DEF Continue, WithoutAnswer
    <2>3. CASE todo # <<>> /\ Head(todo) \in {"validate", "precheck"} BY <1>1, <2>3 DEF Continue, WithoutAnswer
    <2>4. CASE todo # <<>> /\ Head(todo) \notin {"load", "validate", "precheck"} BY <1>1, <2>4 DEF Continue, WithoutAnswer, WithTodo
    <2> QED BY <2>1, <2>2, <2>3, <2>4
  <1> QED BY <1>1, <1>3, <1>4, <1>5, <1>6, <1>7

LEMMA RestOK ==
  ASSUME NEW st, StateOK(st), NEW i \in Procs, NEW t, t = Rest(st, i)
  PROVE  StateOK(t) /\ t.d = st.d
  <1>1. PICK todo, s : todo = Tail(st.p[i].todo) /\ s = IF todo = <<>> THEN Arrive(st, i) ELSE st OBVIOUS
  <1>2. t = Continue(s, i, todo) BY <1>1 DEF Rest
  <1>3. StateOK(s) /\ s.d = st.d
    <2>1. CASE s = st BY <2>1
    <2>2. CASE s = [st EXCEPT !.u.ready = TRUE]
      <3>1. PICK u : u = [st.u EXCEPT !.ready = TRUE] OBVIOUS
      <3>2. DOMAIN s = {"u", "d", "p"} /\ s.u = u /\ s.d = st.d /\ s.p = st.p BY <2>2, <3>1 DEF StateOK
      <3>3. UIOK(u) /\ u.content = st.u.content /\ u.form = st.u.form BY <3>1 DEF StateOK, UIOK, UIFields
      <3> QED BY <3>2, <3>3, PageStep
    <2> QED BY <1>1, <2>1, <2>2, Zenon DEF Arrive
  <1> QED BY <1>2, <1>3, ContinueOK

LEMMA AfterStatusOK ==
  ASSUME NEW st, StateOK(st), NEW i \in Procs, NEW t, t = AfterStatus(st, i)
  PROVE  StateOK(t) /\ t.d = st.d
  <1>1. CASE t = Return([st EXCEPT !.u.ready = FALSE, !.u.route = "setup"], i)
    <2>1. PICK u, s : u = [st.u EXCEPT !.ready = FALSE, !.route = "setup"]
                      /\ s = [st EXCEPT !.u.ready = FALSE, !.u.route = "setup"]
      OBVIOUS
    <2>2. DOMAIN s = {"u", "d", "p"} /\ s.u = u /\ s.d = st.d /\ s.p = st.p BY <2>1 DEF StateOK
    <2>3. UIOK(u) /\ u.content = st.u.content /\ u.form = st.u.form BY <2>1 DEF StateOK, UIOK, UIFields
    <2>4. StateOK(s) BY <2>2, <2>3, PageStep
    <2>5. t = Return(s, i) BY <1>1, <2>1
    <2> QED BY <2>2, <2>4, <2>5, ReturnOK
  <1>2. CASE t = Return(st, i) BY <1>2, ReturnOK
  <1>3. CASE \E todo : t = Continue(st, i, todo) BY <1>3, ContinueOK
  <1>4. CASE \E todo, can : t = Continue([st EXCEPT !.p[i].can = can], i, todo)
    <2>1. PICK todo, can : t = Continue([st EXCEPT !.p[i].can = can], i, todo) BY <1>4
    <2>2. PICK q, s : q = [st.p[i] EXCEPT !.can = can] /\ s = [st EXCEPT !.p[i].can = can] OBVIOUS
    <2>3. ProcOK(st.p[i]) /\ CurrentOK(st.p[i], st.u) BY DEF StateOK, ProcsOK
    <2>4. /\ DOMAIN q = ProcFields /\ q.op = st.p[i].op /\ q.key = st.p[i].key /\ q.ws = st.p[i].ws
          /\ q.sent = st.p[i].sent /\ q.cur = st.p[i].cur /\ q.got = st.p[i].got /\ q.todo = st.p[i].todo
      BY <2>2, <2>3 DEF ProcOK, ProcFields
    <2>5. ProcOK(q) /\ CurrentOK(q, st.u) BY <2>3, <2>4 DEF ProcOK, CurrentOK, GotOK
    <2>6. s = WithProc(st, i, q) BY <2>2 DEF WithProc
    <2>7. StateOK(s) /\ s.d = st.d BY <2>5, <2>6, ProcStep
    <2>8. t = Continue(s, i, todo) BY <2>1, <2>2
    <2> QED BY <2>7, <2>8, ContinueOK
  <1>5. PICK p, s : p = st.p[i] /\ s = st.u.status OBVIOUS
  <1>6. CASE p.op \in {"boot", "refresh"} BY <1>1, <1>3, <1>5, <1>6 DEF AfterStatus
  <1>7. CASE p.op = "sources" BY <1>3, <1>5, <1>7 DEF AfterStatus
  <1>8. CASE p.op = "runtime" BY <1>2, <1>3, <1>5, <1>8 DEF AfterStatus
  <1>9. CASE p.op = "enter" BY <1>4, <1>5, <1>9 DEF AfterStatus
  <1>10. CASE p.op \notin {"boot", "refresh", "sources", "runtime", "enter"} BY <1>2, <1>5, <1>10 DEF AfterStatus
  <1> QED BY <1>6, <1>7, <1>8, <1>9, <1>10

LEMMA AfterPrecheckOK ==
  ASSUME NEW st, StateOK(st), NEW i \in Procs, NEW ok, NEW t, t = AfterPrecheck(st, i, ok)
  PROVE  StateOK(t) /\ t.d = st.d
  <1>1. PICK todo : t = Continue(st, i, todo) BY Zenon DEF AfterPrecheck
  <1> QED BY <1>1, ContinueOK

LEMMA SyncOK ==
  ASSUME NEW st, StateOK(st), NEW i, NEW s, s.ws \in Paths, NEW t, t = syncOnboardingStatus(st, i, s)
  PROVE  StateOK(t) /\ t.d = st.d
  <1>1. PICK u : u = [st.u EXCEPT !.status = s,
                                  !.path = IF s.ws # None /\ st.p[i].key = None THEN s.ws ELSE st.u.path]
    OBVIOUS
  <1>2. t = [st EXCEPT !.u = u] BY <1>1 DEF syncOnboardingStatus
  <1>3. DOMAIN t = {"u", "d", "p"} /\ t.u = u /\ t.d = st.d /\ t.p = st.p BY <1>2 DEF StateOK
  <1>4. UIOK(u) /\ u.content = st.u.content /\ u.form = st.u.form BY <1>1 DEF StateOK, UIOK, UIFields
  <1> QED BY <1>3, <1>4, PageStep

-----------------------------------------------------------------------------
(* The commit *)

\* The effects store an unsaved draft under the key and erase none.  (That the pending
\* drafts are the stored ones is not required where the editor calls its text saved.)
LEMMA CommitOK ==
  ASSUME SetupInv, NEW st, StateOK(st), Commit(st),
         st.d = drafts \/ (~st.u.unsaved /\ st.u.path = ui.path)
  PROVE  /\ UIOK(ui') /\ DraftsOK(drafts') /\ ProcsOK(procs', ui') /\ UnsavedIsStored'
         /\ \A w \in Workspaces : drafts'[w] = None => st.d[w] = None
  <1> DEFINE Stays(s) == \A w \in Workspaces : s.d[w] = None => st.d[w] = None
  <1>1. ASSUME NEW u, UIOK(u) PROVE DraftOf(u) \in Drafts /\ DraftOf(u) # None
    <2>1. DraftOf(u) \in Drafts BY <1>1 DEF DraftOf, Drafts, UIOK
    <2> QED BY <2>1, NoDraft
  <1>2. PICK k, a : k = st.u.path /\ a = KeyEffect(st) OBVIOUS
  <1>3. k \in Paths BY <1>2 DEF StateOK, UIOK
  <1>4. /\ StateOK(a) /\ a.u.path = k /\ Stays(a)
        /\ k = ui.path => a = st
    <2>1. CASE k = ui.path \/ k = None \/ st.u.restored = k
      <3>1. a = st BY <1>2, <2>1 DEF KeyEffect
      <3> QED BY <1>2, <3>1
    <2>2. CASE ~(k = ui.path \/ k = None \/ st.u.restored = k) /\ st.d[k] # None
      <3>1. a = restoreWorkspaceDraft(st, k) /\ k \in Workspaces BY <1>2, <1>3, <2>2 DEF KeyEffect, Paths
      <3> QED BY <1>2, <2>2, <3>1, RestoreOK
    <2>3. CASE ~(k = ui.path \/ k = None \/ st.u.restored = k) /\ st.d[k] = None
      <3>1. PICK x : x = IF st.u.unsaved THEN DraftOf(st.u) ELSE st.d[k] OBVIOUS
      <3>2. PICK s : s = [st EXCEPT !.d[k] = x] OBVIOUS
      <3>3. a = Clean(s, k) /\ k \in Workspaces BY <1>2, <1>3, <2>3, <3>1, <3>2 DEF KeyEffect, Paths
      <3>4. x \in Drafts \cup {None}
        <4>1. UIOK(st.u) BY DEF StateOK
        <4> QED BY <1>1, <2>3, <3>1, <4>1
      <3>5. /\ DOMAIN s = {"u", "d", "p"} /\ s.u = st.u /\ s.p = st.p /\ s.d = [st.d EXCEPT ![k] = x]
        BY <3>2 DEF StateOK
      <3>6. DraftsOK(s.d) /\ Stays(s) BY <2>3, <3>3, <3>4, <3>5 DEF StateOK, DraftsOK
      <3>7. StateOK(s) BY <3>5, <3>6 DEF StateOK
      <3>8. StateOK(a) /\ a.d = s.d /\ a.u.path = s.u.path BY <1>3, <3>3, <3>7, CleanOK
      <3> QED BY <1>2, <2>3, <3>5, <3>6, <3>8
    <2> QED BY <2>1, <2>2, <2>3
  <1>5. PICK b : b = WriteEffect(a) OBVIOUS
  <1>6. ui' = b.u /\ drafts' = b.d /\ procs' = b.p BY <1>2, <1>5 DEF Commit
  <1>7. CASE a.u.unsaved /\ k # None /\ b = [a EXCEPT !.d[k] = DraftOf(a.u)]
    <2>1. UIOK(a.u) /\ k \in Workspaces BY <1>3, <1>4, <1>7 DEF StateOK, Paths
    <2>2. PICK x : x = DraftOf(a.u) OBVIOUS
    <2>3. x \in Drafts /\ x # None BY <1>1, <2>1, <2>2
    <2>4. b.u = a.u /\ b.p = a.p /\ b.d = [a.d EXCEPT ![k] = x] BY <1>4, <1>7, <2>2 DEF StateOK
    <2>5. DraftsOK(b.d) /\ Stays(b) /\ b.d[k] = x BY <1>4, <2>1, <2>3, <2>4 DEF StateOK, DraftsOK
    <2>6. UnsavedIsStored' BY <1>4, <1>6, <2>2, <2>4, <2>5 DEF UnsavedIsStored, DraftOf
    <2> QED BY <1>4, <1>6, <2>4, <2>5, <2>6 DEF StateOK
  <1>8. CASE b = a /\ ~(a.u.unsaved /\ k # None)
    <2>1. UnsavedIsStored' BY <1>4, <1>6, <1>8 DEF UnsavedIsStored
    <2> QED BY <1>4, <1>6, <1>8, <2>1 DEF StateOK
  <1>9. CASE /\ b = a /\ a.u.unsaved /\ k # None
             /\ a.u.content = ui.content /\ a.u.form = ui.form /\ a.u.unsaved = ui.unsaved /\ a.u.path = ui.path
    <2>1. a = st /\ st.d = drafts BY <1>4, <1>9
    <2>2. drafts[k] = DraftOf(ui) BY <1>4, <1>9 DEF SetupInv, UnsavedIsStored
    <2>3. DraftOf(a.u) = DraftOf(ui) BY <1>9 DEF DraftOf
    <2>4. UnsavedIsStored' BY <1>4, <1>6, <1>9, <2>1, <2>2, <2>3 DEF UnsavedIsStored, DraftOf
    <2> QED BY <1>4, <1>6, <1>9, <2>4 DEF StateOK
  <1>10. \/ a.u.unsaved /\ k # None /\ b = [a EXCEPT !.d[k] = DraftOf(a.u)]
         \/ b = a /\ ~(a.u.unsaved /\ k # None)
         \/ /\ b = a /\ a.u.unsaved /\ k # None
            /\ a.u.content = ui.content /\ a.u.form = ui.form /\ a.u.unsaved = ui.unsaved /\ a.u.path = ui.path
    BY <1>4, <1>5 DEF WriteEffect
  <1> QED BY <1>7, <1>8, <1>9, <1>10

\* The state of the page as it stands.
LEMMA Standing ==
  ASSUME SetupInv
  PROVE  StateOK(State) /\ State.u = ui /\ State.d = drafts /\ State.p = procs
  BY DEF SetupInv, State, StateOK

LEMMA QuietCommit ==
  ASSUME SetupInv, NEW st, StateOK(st), st.d = drafts, Commit(st), SrvOK', Bounds'
  PROVE  SetupInv' /\ Kept
  BY CommitOK DEF SetupInv, Kept

LEMMA DeliverCommit ==
  ASSUME SetupInv, NEW st, StateOK(st), st.d = drafts, Commit(st), Deliver
  PROVE  SetupInv' /\ Kept
  <1>1. SrvOK' /\ Bounds' BY DEF SetupInv, Deliver, SrvOK, Bounds
  <1> QED BY <1>1, QuietCommit

LEMMA UserCommit ==
  ASSUME SetupInv, NEW st, StateOK(st), st.d = drafts, Commit(st), Move
  PROVE  SetupInv' /\ Kept
  <1>1. SrvOK' /\ Bounds' BY SetupConstants DEF SetupInv, Move, SrvOK, Bounds
  <1> QED BY <1>1, QuietCommit

-----------------------------------------------------------------------------
(* The answers *)

\* A loaded text replaces the editor's and, if it has repositories, the form; a save under
\* way stays the current one only for a text it sent itself.
LEMMA LoadedOK ==
  ASSUME NEW st, StateOK(st), NEW text \in Texts \cup {Empty}, NEW t,
         DOMAIN t = {"u", "d", "p"}, t.d = st.d, t.p = st.p, UIOK(t.u), t.u.content = text,
         t.u.form = Parse(text, st.u.form)
  PROVE  StateOK(t)
  <1>1. ASSUME NEW i \in Procs PROVE CurrentOK(t.p[i], t.u)
    <2>1. PICK q : q = t.p[i] OBVIOUS
    <2>2. CurrentOK(q, st.u) BY <2>1 DEF StateOK, ProcsOK
    <2>3. text = q.sent /\ q.sent.form \in Forms => t.u.form = q.sent.form
      BY SetupConstants DEF Parse
    <2>4. CurrentOK(q, t.u) BY <2>2, <2>3 DEF CurrentOK
    <2> QED BY <2>1, <2>4
  <1> QED BY <1>1 DEF StateOK, ProcsOK

LEMMA DeliverStatusOK ==
  ASSUME SetupInv, NEW i \in Procs, DeliverStatus(i)
  PROVE  SetupInv' /\ Kept
  <1>1. CASE procs[i].got = Failed
    <2>1. PICK st : st = Return(State, i) OBVIOUS
    <2>2. StateOK(st) /\ st.d = drafts BY <2>1, Standing, ReturnOK
    <2> QED BY <1>1, <2>1, <2>2, DeliverCommit DEF DeliverStatus
  <1>2. CASE procs[i].got # Failed
    <2>1. procs[i].got.ws \in Paths BY <1>2 DEF DeliverStatus, Got, SetupInv, ProcsOK, ProcOK, GotOK
    <2>2. PICK s : s = syncOnboardingStatus(State, i, procs[i].got) OBVIOUS
    <2>3. StateOK(s) /\ s.d = drafts BY <2>1, <2>2, Standing, SyncOK
    <2>4. PICK st : st = AfterStatus(s, i) OBVIOUS
    <2>5. StateOK(st) /\ st.d = drafts BY <2>3, <2>4, AfterStatusOK
    <2> QED BY <1>2, <2>2, <2>4, <2>5, DeliverCommit DEF DeliverStatus
  <1> QED BY <1>1, <1>2

LEMMA DeliverSelectOK ==
  ASSUME SetupInv, NEW i \in Procs, DeliverSelect(i)
  PROVE  SetupInv' /\ Kept
  <1>1. CASE procs[i].got = Failed
    <2>1. PICK st : st = Return(State, i) OBVIOUS
    <2>2. StateOK(st) /\ st.d = drafts BY <2>1, Standing, ReturnOK
    <2> QED BY <1>1, <2>1, <2>2, DeliverCommit DEF DeliverSelect
  <1>2. CASE procs[i].got # Failed
    <2>1. procs[i].ws \in Paths BY DEF SetupInv, ProcsOK, ProcOK
    <2>2. PICK u : u = [ui EXCEPT !.path = procs[i].ws, !.status = procs[i].got] OBVIOUS
    <2>3. PICK open : open = [State EXCEPT !.u = [@ EXCEPT !.path = procs[i].ws, !.status = procs[i].got]] OBVIOUS
    <2>4. DOMAIN open = {"u", "d", "p"} /\ open.u = u /\ open.d = drafts /\ open.p = procs
      BY <2>2, <2>3 DEF State
    <2>5. UIOK(u) /\ u.content = ui.content /\ u.form = ui.form
      BY <2>1, <2>2 DEF SetupInv, UIOK, UIFields
    <2>6. StateOK(open) BY <2>4, <2>5, Standing, PageStep
    <2>7. PICK todo : Commit(Continue(open, i, todo)) BY <1>2, <2>3 DEF DeliverSelect
    <2>8. PICK st : st = Continue(open, i, todo) OBVIOUS
    <2>9. StateOK(st) /\ st.d = drafts BY <2>4, <2>6, <2>8, ContinueOK
    <2> QED BY <2>7, <2>8, <2>9, DeliverCommit DEF DeliverSelect
  <1> QED BY <1>1, <1>2

LEMMA DeliverLoadOK ==
  ASSUME SetupInv, NEW i \in Procs, DeliverLoad(i)
  PROVE  SetupInv' /\ Kept
  <1>1. CASE ui.loading # i
    <2>1. PICK st : st = Rest(State, i) OBVIOUS
    <2>2. StateOK(st) /\ st.d = drafts BY <2>1, Standing, RestOK
    <2> QED BY <1>1, <2>1, <2>2, DeliverCommit DEF DeliverLoad
  <1>2. CASE ui.loading = i
    <2>1. procs[i].got # None /\ Head(procs[i].todo) = "load" BY <1>2 DEF DeliverLoad, Got
    <2>2. procs[i].got # Failed => procs[i].got \in Texts \cup {Empty}
      BY <2>1 DEF SetupInv, ProcsOK, ProcOK, GotOK
    <2>3. PICK text : text = procs[i].got OBVIOUS
    <2>4. PICK over : over = [State EXCEPT !.u.loading = IF @ = i THEN 0 ELSE @] OBVIOUS
    <2>5. PICK u : u = [ui EXCEPT !.loading = 0] OBVIOUS
    <2>6. DOMAIN over = {"u", "d", "p"} /\ over.u = u /\ over.d = drafts /\ over.p = procs
      BY <1>2, <2>4, <2>5 DEF State
    <2>7. UIOK(u) /\ u.content = ui.content /\ u.form = ui.form BY <2>5 DEF SetupInv, UIOK, UIFields
    <2>8. StateOK(over) BY <2>6, <2>7, Standing, PageStep
    <2>9. CASE text = Failed
      <3>1. PICK s, v : s = [over EXCEPT !.u.content = Empty] /\ v = [u EXCEPT !.content = Empty] OBVIOUS
      <3>2. DOMAIN s = {"u", "d", "p"} /\ s.u = v /\ s.d = over.d /\ s.p = over.p BY <2>6, <3>1
      <3>3. UIOK(v) /\ v.content = Empty /\ v.form = u.form BY <2>7, <3>1 DEF UIOK, UIFields
      <3>4. Parse(Empty, u.form) = u.form BY DEF Parse, Empty
      <3>5. StateOK(s) BY <2>6, <2>8, <3>2, <3>3, <3>4, LoadedOK
      <3>6. PICK st : st = Return(s, i) OBVIOUS
      <3>7. StateOK(st) /\ st.d = drafts BY <2>6, <3>2, <3>5, <3>6, ReturnOK
      <3>8. Commit(st) BY <1>2, <2>3, <2>4, <2>9, <3>1, <3>6 DEF DeliverLoad
      <3> QED BY <3>7, <3>8, DeliverCommit DEF DeliverLoad
    <2>10. CASE text # Failed /\ ui.dirty
      <3>1. PICK st : st = Rest(over, i) OBVIOUS
      <3>2. StateOK(st) /\ st.d = drafts BY <2>6, <2>8, <3>1, RestOK
      <3>3. Commit(st) BY <1>2, <2>3, <2>4, <2>10, <3>1 DEF DeliverLoad
      <3> QED BY <3>2, <3>3, DeliverCommit DEF DeliverLoad
    <2>11. CASE text # Failed /\ ~ui.dirty
      <3>1. PICK s, v : /\ s = [over EXCEPT !.u.content = text, !.u.form = Parse(text, @)]
                        /\ v = [u EXCEPT !.content = text, !.form = Parse(text, u.form)]
        OBVIOUS
      <3>2. DOMAIN s = {"u", "d", "p"} /\ s.u = v /\ s.d = over.d /\ s.p = over.p BY <2>6, <3>1
      <3>3. text \in Texts \cup {Empty} BY <2>2, <2>3, <2>11
      <3>4. Parse(text, u.form) \in Forms \cup {Bad} BY <2>7, <3>3 DEF Parse, Texts, Empty, UIOK
      <3>5. UIOK(v) /\ v.content = text /\ v.form = Parse(text, u.form)
        BY <2>7, <3>1, <3>3, <3>4 DEF UIOK, UIFields
      <3>6. StateOK(s) BY <2>6, <2>8, <3>2, <3>3, <3>5, LoadedOK
      <3>7. PICK st : st = Rest(s, i) OBVIOUS
      <3>8. StateOK(st) /\ st.d = drafts BY <2>6, <3>2, <3>6, <3>7, RestOK
      <3>9. Commit(st) BY <1>2, <2>3, <2>4, <2>11, <3>1, <3>7 DEF DeliverLoad
      <3> QED BY <3>8, <3>9, DeliverCommit DEF DeliverLoad
    <2> QED BY <2>9, <2>10, <2>11
  <1> QED BY <1>1, <1>2

LEMMA DeliverValidateOK ==
  ASSUME SetupInv, NEW i \in Procs, DeliverValidate(i)
  PROVE  SetupInv' /\ Kept
  <1>1. PICK a, v : a = procs[i].got /\ v = IF a = Failed THEN ui.valid ELSE a OBVIOUS
  <1>2. PICK told : told = IF ui.validating # i THEN State
                           ELSE [State EXCEPT !.u = [@ EXCEPT !.validating = 0, !.busy = FALSE, !.valid = v]]
    OBVIOUS
  <1>3. StateOK(told) /\ told.d = drafts
    <2>1. CASE ui.validating # i BY <1>2, <2>1, Standing
    <2>2. CASE ui.validating = i
      <3>1. a # None /\ Head(procs[i].todo) \in {"validate", "precheck"}
        BY <1>1, <2>2 DEF DeliverValidate, Got
      <3>2. v \in {"none", "ok", "bad"}
        BY <1>1, <3>1 DEF SetupInv, ProcsOK, ProcOK, GotOK, UIOK
      <3>3. PICK u : u = [ui EXCEPT !.validating = 0, !.busy = FALSE, !.valid = v] OBVIOUS
      <3>4. DOMAIN told = {"u", "d", "p"} /\ told.u = u /\ told.d = drafts /\ told.p = procs
        BY <1>2, <2>2, <3>3 DEF State
      <3>5. UIOK(u) /\ u.content = ui.content /\ u.form = ui.form
        BY <3>2, <3>3 DEF SetupInv, UIOK, UIFields
      <3> QED BY <3>4, <3>5, Standing, PageStep
    <2> QED BY <2>1, <2>2
  <1>4. \/ \E ok : Commit(AfterPrecheck(told, i, ok))
        \/ Commit(Rest(told, i))
    BY <1>1, <1>2 DEF DeliverValidate
  <1>5. CASE \E ok : Commit(AfterPrecheck(told, i, ok))
    <2>1. PICK ok : Commit(AfterPrecheck(told, i, ok)) BY <1>5
    <2>2. PICK st : st = AfterPrecheck(told, i, ok) OBVIOUS
    <2>3. StateOK(st) /\ st.d = drafts BY <1>3, <2>2, AfterPrecheckOK
    <2> QED BY <2>1, <2>2, <2>3, DeliverCommit DEF DeliverValidate
  <1>6. CASE Commit(Rest(told, i))
    <2>1. PICK st : st = Rest(told, i) OBVIOUS
    <2>2. StateOK(st) /\ st.d = drafts BY <1>3, <2>1, RestOK
    <2> QED BY <1>6, <2>1, <2>2, DeliverCommit DEF DeliverValidate
  <1> QED BY <1>4, <1>5, <1>6

LEMMA DeliverQuietOK ==
  ASSUME SetupInv, NEW i \in Procs, DeliverQuiet(i)
  PROVE  SetupInv' /\ Kept
  <1>1. PICK st : st = Rest(State, i) OBVIOUS
  <1>2. StateOK(st) /\ st.d = drafts BY <1>1, Standing, RestOK
  <1> QED BY <1>1, <1>2, DeliverCommit DEF DeliverQuiet

LEMMA ContinueStatus ==
  ASSUME NEW st, StateOK(st), NEW i \in Procs, NEW t, t = Continue(st, i, <<"status">>)
  PROVE  t.u = st.u
  <1>1. PICK on, todo : on = WithoutAnswer(st, i) /\ todo = <<"status">> OBVIOUS
  <1>2. StateOK(on) /\ on.u = st.u /\ on.p[i].got = None BY <1>1, ForgetAnswer
  <1>3. todo # <<>> /\ Head(todo) \notin {"load", "validate", "precheck"} BY <1>1
  <1>4. t = WithTodo(on, i, todo) BY <1>1, <1>3 DEF Continue, WithoutAnswer, WithTodo
  <1> QED BY <1>2, <1>4, TodoOK

\* The end of a save gives up drafts only if it is the current one of the editor's text.
LEMMA EndSaveOK ==
  ASSUME SetupInv, NEW i \in Procs, NEW answer, answer # Failed => answer \in {"ok", "bad"},
         NEW t, t = EndSave(State, i, answer)
  PROVE  /\ StateOK(t)
         /\ \/ t.d = drafts
            \/ answer # Failed /\ isCurrentManifestSave(State, i) /\ ~t.u.unsaved /\ t.u.path = ui.path
  <1>1. PICK d : d = [w \in Workspaces |-> IF w = State.p[i].key THEN None ELSE State.d[w]] OBVIOUS
  <1>2. PICK idle : /\ StateOK(idle)
                    /\ \/ idle.d = drafts
                       \/ /\ answer # Failed /\ isCurrentManifestSave(State, i)
                          /\ ~idle.u.unsaved /\ idle.u.path = ui.path
                    /\ t = IF procs[i].op = "sources" THEN Continue(idle, i, <<"status">>) ELSE Return(idle, i)
    <2>1. CASE answer = Failed
      <3>1. PICK u, s : u = [ui EXCEPT !.busy = FALSE] /\ s = [State EXCEPT !.u.busy = FALSE] OBVIOUS
      <3>2. DOMAIN s = {"u", "d", "p"} /\ s.u = u /\ s.d = drafts /\ s.p = procs BY <3>1 DEF State
      <3>3. UIOK(u) /\ u.content = ui.content /\ u.form = ui.form BY <3>1 DEF SetupInv, UIOK, UIFields
      <3>4. StateOK(s) BY <3>2, <3>3, Standing, PageStep
      <3>5. t = IF procs[i].op = "sources" THEN Continue(s, i, <<"status">>) ELSE Return(s, i)
        BY <2>1, <3>1, Standing DEF EndSave
      <3> QED BY <3>2, <3>4, <3>5
    <2>2. CASE answer # Failed /\ isCurrentManifestSave(State, i)
      <3>1. PICK v : v = [ui EXCEPT !.valid = answer, !.dirty = FALSE, !.unsaved = FALSE] OBVIOUS
      <3>2. PICK saved : saved = [State EXCEPT !.u = [@ EXCEPT !.valid = answer, !.dirty = FALSE, !.unsaved = FALSE],
                                               !.d = d]
        OBVIOUS
      <3>3. PICK u, s : u = [v EXCEPT !.busy = FALSE] /\ s = [saved EXCEPT !.u.busy = FALSE] OBVIOUS
      <3>4. DOMAIN saved = {"u", "d", "p"} /\ saved.u = v /\ saved.d = d /\ saved.p = procs
        BY <3>1, <3>2 DEF State
      <3>5. DOMAIN s = {"u", "d", "p"} /\ s.u = u /\ s.d = d /\ s.p = procs BY <3>3, <3>4
      <3>6. UIOK(u) /\ u.content = ui.content /\ u.form = ui.form /\ u.path = ui.path /\ ~u.unsaved
        BY <2>2, <3>1, <3>3 DEF SetupInv, UIOK, UIFields
      <3>7. DraftsOK(d) BY <1>1, Standing DEF StateOK, DraftsOK
      <3>8. ProcsOK(procs, u) BY <3>6 DEF SetupInv, ProcsOK, CurrentOK
      <3>9. StateOK(s) BY <3>5, <3>6, <3>7, <3>8 DEF StateOK
      <3>10. t = IF procs[i].op = "sources" THEN Continue(s, i, <<"status">>) ELSE Return(s, i)
        BY <1>1, <2>2, <3>2, <3>3, Standing DEF EndSave
      <3> QED BY <2>2, <3>5, <3>6, <3>9, <3>10
    <2>3. CASE answer # Failed /\ ~isCurrentManifestSave(State, i)
      <3>1. PICK u, s : /\ u = [ui EXCEPT !.dirty = TRUE, !.busy = FALSE]
                        /\ s = [[State EXCEPT !.u.dirty = TRUE] EXCEPT !.u.busy = FALSE]
        OBVIOUS
      <3>2. DOMAIN s = {"u", "d", "p"} /\ s.u = u /\ s.d = drafts /\ s.p = procs BY <3>1 DEF State
      <3>3. UIOK(u) /\ u.content = ui.content /\ u.form = ui.form BY <3>1 DEF SetupInv, UIOK, UIFields
      <3>4. StateOK(s) BY <3>2, <3>3, Standing, PageStep
      <3>5. t = IF procs[i].op = "sources" THEN Continue(s, i, <<"status">>) ELSE Return(s, i)
        BY <2>3, <3>1, Standing DEF EndSave
      <3> QED BY <3>2, <3>4, <3>5
    <2> QED BY <2>1, <2>2, <2>3
  <1>3. CASE t = Continue(idle, i, <<"status">>) BY <1>2, <1>3, ContinueOK, ContinueStatus
  <1>4. CASE t = Return(idle, i) BY <1>2, <1>4, ReturnOK
  <1> QED BY <1>2, <1>3, <1>4

LEMMA DeliverSaveOK ==
  ASSUME SetupInv, NEW i \in Procs, DeliverSave(i)
  PROVE  /\ SetupInv'
         /\ Kept \/ (Got(i, "check") /\ procs[i].got # Failed /\ isCurrentManifestSave(State, i))
  <1>1. CASE Got(i, "put") /\ procs[i].got # Failed /\ Commit(Continue(State, i, <<"check">>))
    <2>1. PICK st : st = Continue(State, i, <<"check">>) OBVIOUS
    <2>2. StateOK(st) /\ st.d = drafts BY <2>1, Standing, ContinueOK
    <2> QED BY <1>1, <2>1, <2>2, DeliverCommit DEF DeliverSave
  <1>2. CASE Got(i, "put") /\ Commit(EndSave(State, i, Failed))
    <2>1. PICK st : st = EndSave(State, i, Failed) OBVIOUS
    <2>2. StateOK(st) /\ st.d = drafts BY <2>1, EndSaveOK
    <2> QED BY <1>2, <2>1, <2>2, DeliverCommit DEF DeliverSave
  <1>3. CASE Got(i, "check") /\ Commit(EndSave(State, i, procs[i].got))
    <2>1. procs[i].got # Failed => procs[i].got \in {"ok", "bad"}
      BY <1>3 DEF Got, SetupInv, ProcsOK, ProcOK, GotOK
    <2>2. PICK st : st = EndSave(State, i, procs[i].got) OBVIOUS
    <2>3. /\ StateOK(st)
          /\ \/ st.d = drafts
             \/ /\ procs[i].got # Failed /\ isCurrentManifestSave(State, i)
                /\ ~st.u.unsaved /\ st.u.path = ui.path
      BY <2>1, <2>2, EndSaveOK
    <2>4. CASE st.d = drafts BY <1>3, <2>2, <2>3, <2>4, DeliverCommit DEF DeliverSave
    <2>5. CASE st.d # drafts
      <3>1. UIOK(ui') /\ DraftsOK(drafts') /\ ProcsOK(procs', ui') /\ UnsavedIsStored'
        BY <1>3, <2>2, <2>3, <2>5, CommitOK
      <3>2. SrvOK' /\ Bounds' BY DEF DeliverSave, Deliver, SetupInv, SrvOK, Bounds
      <3> QED BY <1>3, <2>3, <2>5, <3>1, <3>2 DEF SetupInv
    <2> QED BY <2>4, <2>5
  <1> QED BY <1>1, <1>2, <1>3 DEF DeliverSave

LEMMA DeliverDoctorOK ==
  ASSUME SetupInv, NEW i \in Procs, DeliverDoctor(i)
  PROVE  SetupInv' /\ Kept
  <1>1. PICK a : a = IF procs[i].got = Failed THEN ui.doctor ELSE procs[i].got OBVIOUS
  <1>2. a \in {"none", "ok", "bad"}
    BY <1>1 DEF DeliverDoctor, Got, SetupInv, ProcsOK, ProcOK, GotOK, UIOK
  <1>3. PICK u, s : u = [ui EXCEPT !.doctor = a] /\ s = [State EXCEPT !.u.doctor = a] OBVIOUS
  <1>4. DOMAIN s = {"u", "d", "p"} /\ s.u = u /\ s.d = drafts /\ s.p = procs BY <1>3 DEF State
  <1>5. UIOK(u) /\ u.content = ui.content /\ u.form = ui.form BY <1>2, <1>3 DEF SetupInv, UIOK, UIFields
  <1>6. StateOK(s) BY <1>4, <1>5, Standing, PageStep
  <1>7. PICK st : st = Return(s, i) OBVIOUS
  <1>8. StateOK(st) /\ st.d = drafts BY <1>4, <1>6, <1>7, ReturnOK
  <1>9. s = [State EXCEPT !.u.doctor = IF procs[i].got = Failed THEN @ ELSE procs[i].got]
    BY <1>1, <1>3 DEF State
  <1>10. Commit(st) BY <1>7, <1>9 DEF DeliverDoctor
  <1> QED BY <1>8, <1>10, DeliverCommit DEF DeliverDoctor

LEMMA DeliverSettingsOK ==
  ASSUME SetupInv, NEW i \in Procs, DeliverSettings(i)
  PROVE  SetupInv' /\ Kept
  <1>1. PICK st : st = (IF procs[i].got = Failed THEN Return(State, i) ELSE Rest(State, i)) OBVIOUS
  <1>2. StateOK(st) /\ st.d = drafts
    <2>1. CASE st = Return(State, i) BY <2>1, Standing, ReturnOK
    <2>2. CASE st = Rest(State, i) BY <2>2, Standing, RestOK
    <2> QED BY <1>1, <2>1, <2>2
  <1> QED BY <1>1, <1>2, DeliverCommit DEF DeliverSettings

LEMMA DeliverModelsOK ==
  ASSUME SetupInv, NEW i \in Procs, DeliverModels(i)
  PROVE  SetupInv' /\ Kept
  <1>1. PICK st : st = Return(State, i) OBVIOUS
  <1>2. StateOK(st) /\ st.d = drafts BY <1>1, Standing, ReturnOK
  <1> QED BY <1>1, <1>2, DeliverCommit DEF DeliverModels

LEMMA DeliverEnterOK ==
  ASSUME SetupInv, NEW i \in Procs, DeliverEnter(i)
  PROVE  SetupInv' /\ Kept
  <1>1. CASE procs[i].got = Failed
    <2>1. PICK st : st = Return(State, i) OBVIOUS
    <2>2. StateOK(st) /\ st.d = drafts BY <2>1, Standing, ReturnOK
    <2> QED BY <1>1, <2>1, <2>2, DeliverCommit DEF DeliverEnter
  <1>2. CASE procs[i].got # Failed
    <2>1. procs[i].got.ws \in Paths BY <1>2 DEF DeliverEnter, Got, SetupInv, ProcsOK, ProcOK, GotOK
    <2>2. PICK s : s = syncOnboardingStatus(State, i, procs[i].got) OBVIOUS
    <2>3. StateOK(s) /\ s.d = drafts BY <2>1, <2>2, Standing, SyncOK
    <2>4. PICK r : Commit(Return([s EXCEPT !.u.ready = TRUE, !.u.route = r], i))
      BY <1>2, <2>2 DEF DeliverEnter
    <2>5. PICK u, t : u = [s.u EXCEPT !.ready = TRUE, !.route = r] /\ t = [s EXCEPT !.u.ready = TRUE, !.u.route = r]
      OBVIOUS
    <2>6. DOMAIN t = {"u", "d", "p"} /\ t.u = u /\ t.d = s.d /\ t.p = s.p BY <2>3, <2>5 DEF StateOK
    <2>7. UIOK(u) /\ u.content = s.u.content /\ u.form = s.u.form BY <2>3, <2>5 DEF StateOK, UIOK, UIFields
    <2>8. StateOK(t) BY <2>3, <2>6, <2>7, PageStep
    <2>9. PICK st : st = Return(t, i) OBVIOUS
    <2>10. StateOK(st) /\ st.d = drafts BY <2>3, <2>6, <2>8, <2>9, ReturnOK
    <2>11. Commit(st) BY <2>4, <2>5, <2>9
    <2> QED BY <2>10, <2>11, DeliverCommit DEF DeliverEnter
  <1> QED BY <1>1, <1>2

LEMMA ReplyOK ==
  ASSUME SetupInv, NEW i \in Procs, Reply(i)
  PROVE  /\ SetupInv'
         /\ Kept \/ (Got(i, "check") /\ procs[i].got # Failed /\ isCurrentManifestSave(State, i))
  BY DeliverStatusOK, DeliverSelectOK, DeliverLoadOK, DeliverValidateOK, DeliverQuietOK, DeliverSaveOK,
     DeliverDoctorOK, DeliverSettingsOK, DeliverModelsOK, DeliverEnterOK DEF Reply

-----------------------------------------------------------------------------
(* The user *)

LEMMA TypePathOK ==
  ASSUME SetupInv, NEW p \in Paths, TypePath(p)
  PROVE  SetupInv' /\ Kept
  <1>1. PICK u, st : u = [ui EXCEPT !.path = p] /\ st = [State EXCEPT !.u.path = p] OBVIOUS
  <1>2. DOMAIN st = {"u", "d", "p"} /\ st.u = u /\ st.d = drafts /\ st.p = procs BY <1>1 DEF State
  <1>3. UIOK(u) /\ u.content = ui.content /\ u.form = ui.form BY <1>1 DEF SetupInv, UIOK, UIFields
  <1>4. StateOK(st) BY <1>2, <1>3, Standing, PageStep
  <1> QED BY <1>1, <1>2, <1>4, UserCommit DEF TypePath

LEMMA ChangeRuntimeOK ==
  ASSUME SetupInv, ChangeRuntime
  PROVE  SetupInv' /\ Kept
  <1>1. PICK u, st : u = [ui EXCEPT !.doctor = "none"] /\ st = [State EXCEPT !.u.doctor = "none"] OBVIOUS
  <1>2. DOMAIN st = {"u", "d", "p"} /\ st.u = u /\ st.d = drafts /\ st.p = procs BY <1>1 DEF State
  <1>3. UIOK(u) /\ u.content = ui.content /\ u.form = ui.form BY <1>1 DEF SetupInv, UIOK, UIFields
  <1>4. StateOK(st) BY <1>2, <1>3, Standing, PageStep
  <1> QED BY <1>1, <1>2, <1>4, UserCommit DEF ChangeRuntime

LEMMA NavigateOK ==
  ASSUME SetupInv, Navigate
  PROVE  SetupInv' /\ Kept
  <1>1. PICK r : r = IF ui.route = "setup" THEN "other" ELSE "setup" OBVIOUS
  <1>2. PICK u, st : u = [ui EXCEPT !.route = r] /\ st = [State EXCEPT !.u.route = r] OBVIOUS
  <1>3. DOMAIN st = {"u", "d", "p"} /\ st.u = u /\ st.d = drafts /\ st.p = procs BY <1>2 DEF State
  <1>4. UIOK(u) /\ u.content = ui.content /\ u.form = ui.form BY <1>2 DEF SetupInv, UIOK, UIFields
  <1>5. StateOK(st) BY <1>3, <1>4, Standing, PageStep
  <1>6. st = [State EXCEPT !.u.route = IF @ = "setup" THEN "other" ELSE "setup"] BY <1>1, <1>2 DEF State
  <1> QED BY <1>3, <1>5, <1>6, UserCommit DEF Navigate

\* With no current save under way, any text and form may stand in the editor.
LEMMA RevisedText ==
  ASSUME NEW st, StateOK(st), \A i \in Procs : ~st.p[i].cur, NEW t, DOMAIN t = {"u", "d", "p"},
         t.d = st.d, t.p = st.p, UIOK(t.u)
  PROVE  StateOK(t)
  BY DEF StateOK, ProcsOK, CurrentOK

\* An edit of the text or the form.
LEMMA EditOK ==
  ASSUME SetupInv, Move, NEW m, m = markSetupDirty(State), NEW st, DOMAIN st = {"u", "d", "p"},
         st.d = m.d, st.p = m.p, UIOK(st.u), Commit(st)
  PROVE  SetupInv' /\ Kept
  <1>1. StateOK(m) /\ m.d = drafts /\ \A i \in Procs : ~m.p[i].cur BY Standing, DirtyOK
  <1>2. StateOK(st) BY <1>1, RevisedText
  <1> QED BY <1>1, <1>2, UserCommit

LEMMA EditFormOK ==
  ASSUME SetupInv, NEW f \in Forms \cup {Bad}, EditForm(f)
  PROVE  SetupInv' /\ Kept
  <1>1. PICK m : m = markSetupDirty(State) OBVIOUS
  <1>2. StateOK(m) BY <1>1, Standing, DirtyOK
  <1>3. PICK u, st : /\ u = [m.u EXCEPT !.form = f, !.doctor = "none"]
                     /\ st = [m EXCEPT !.u.form = f, !.u.doctor = "none"]
    OBVIOUS
  <1>4. DOMAIN st = {"u", "d", "p"} /\ st.u = u /\ st.d = m.d /\ st.p = m.p BY <1>2, <1>3 DEF StateOK
  <1>5. UIOK(u) BY <1>2, <1>3 DEF StateOK, UIOK, UIFields
  <1>6. Commit(st) BY <1>1, <1>3 DEF EditForm, Edited
  <1> QED BY <1>1, <1>4, <1>5, <1>6, EditOK DEF EditForm

LEMMA EditTextOK ==
  ASSUME SetupInv, NEW text \in Texts \cup {Empty}, EditText(text)
  PROVE  SetupInv' /\ Kept
  <1>1. PICK m : m = markSetupDirty(State) OBVIOUS
  <1>2. StateOK(m) BY <1>1, Standing, DirtyOK
  <1>3. PICK u, st : /\ u = [m.u EXCEPT !.content = text, !.doctor = "none"]
                     /\ st = [m EXCEPT !.u.content = text, !.u.doctor = "none"]
    OBVIOUS
  <1>4. DOMAIN st = {"u", "d", "p"} /\ st.u = u /\ st.d = m.d /\ st.p = m.p BY <1>2, <1>3 DEF StateOK
  <1>5. UIOK(u) BY <1>2, <1>3 DEF StateOK, UIOK, UIFields
  <1>6. Commit(st) BY <1>1, <1>3 DEF EditText
  <1> QED BY <1>1, <1>4, <1>5, <1>6, EditOK DEF EditText

\* The form in the editor builds, or is the one that does not.
LEMMA BuildOK ==
  ASSUME SetupInv, ui.form # Bad
  PROVE  /\ ui.form \in Forms /\ Build(ui.form) \in Texts /\ Build(ui.form).form = ui.form
  BY DEF SetupInv, UIOK, Build, Texts

LEMMA ApplyOK ==
  ASSUME SetupInv, Apply
  PROVE  SetupInv' /\ Kept
  <1>1. PICK m : m = markSetupDirty(State) OBVIOUS
  <1>2. StateOK(m) BY <1>1, Standing, DirtyOK
  <1>3. PICK text : text = IF ui.form = Bad THEN m.u.content ELSE Build(ui.form) OBVIOUS
  <1>4. text \in Texts \cup {Empty} BY <1>2, <1>3, BuildOK DEF StateOK, UIOK
  <1>5. PICK u, st : /\ u = [m.u EXCEPT !.content = text, !.doctor = "none"]
                     /\ st = [m EXCEPT !.u.content = text, !.u.doctor = "none"]
    OBVIOUS
  <1>6. DOMAIN st = {"u", "d", "p"} /\ st.u = u /\ st.d = m.d /\ st.p = m.p BY <1>2, <1>5 DEF StateOK
  <1>7. UIOK(u) BY <1>2, <1>4, <1>5 DEF StateOK, UIOK, UIFields
  <1>8. st = [m EXCEPT !.u.content = IF ui.form = Bad THEN @ ELSE Build(ui.form), !.u.doctor = "none"]
    BY <1>3, <1>5
  <1>9. Commit(st) BY <1>1, <1>8 DEF Apply
  <1> QED BY <1>1, <1>6, <1>7, <1>9, EditOK DEF Apply

\* The handler a button calls.
LEMMA HandlerIs ==
  ASSUME SetupInv, NEW op, NEW todo, NEW q, q = Handler(op, todo)
  PROVE  /\ DOMAIN q = ProcFields /\ q.op = op /\ q.todo = todo /\ q.key \in Paths /\ q.ws = None
         /\ q.sent = Empty /\ ~q.cur /\ q.got = None
  <1>1. PICK f : f = Free OBVIOUS
  <1>2. /\ DOMAIN f = ProcFields /\ f.ws = None /\ f.sent = Empty /\ f.cur = FALSE /\ f.got = None
    BY <1>1 DEF Free, ProcFields
  <1>3. q = [f EXCEPT !.op = op, !.todo = todo, !.key = ui.path, !.val = (ui.valid = "ok")]
    BY <1>1 DEF Handler
  <1>4. ui.path \in Paths BY DEF SetupInv, UIOK
  <1> QED BY <1>2, <1>3, <1>4 DEF ProcFields

LEMMA HandlerOK ==
  ASSUME SetupInv, NEW op, NEW todo, NEW u
  PROVE  ProcOK(Handler(op, todo)) /\ CurrentOK(Handler(op, todo), u)
  <1>1. PICK q : q = Handler(op, todo) OBVIOUS
  <1>2. /\ DOMAIN q = ProcFields /\ q.key \in Paths /\ q.ws = None /\ q.sent = Empty /\ ~q.cur
        /\ q.got = None
    BY <1>1, HandlerIs
  <1> QED BY <1>1, <1>2 DEF ProcOK, CurrentOK, GotOK, Paths

LEMMA ClickOK ==
  ASSUME SetupInv, NEW st, StateOK(st), st.d = drafts, NEW i \in Procs, NEW q, ProcOK(q),
         CurrentOK(q, st.u), Click(st, i, q)
  PROVE  SetupInv' /\ Kept
  <1>1. PICK s : s = WithProc(st, i, q) OBVIOUS
  <1>2. StateOK(s) /\ s.d = drafts /\ s.u = st.u BY <1>1, ProcStep
  <1>3. PICK b : b = (st.u.busy \/ q.op \in Exclusive \cup Saves) OBVIOUS
  <1>4. b \in BOOLEAN BY <1>3
  <1>5. PICK u, t : u = [st.u EXCEPT !.busy = b] /\ t = [st EXCEPT !.p[i] = q, !.u.busy = b] OBVIOUS
  <1>6. DOMAIN t = {"u", "d", "p"} /\ t.u = u /\ t.d = s.d /\ t.p = s.p
    BY <1>1, <1>5 DEF StateOK, WithProc
  <1>7. UIOK(u) /\ u.content = st.u.content /\ u.form = st.u.form
    BY <1>4, <1>5 DEF StateOK, UIOK, UIFields
  <1>8. StateOK(t) BY <1>2, <1>6, <1>7, PageStep
  <1>9. t = [st EXCEPT !.p[i] = q, !.u.busy = @ \/ q.op \in Exclusive \cup Saves] BY <1>3, <1>5
  <1>10. PICK x : x = Continue(t, i, q.todo) OBVIOUS
  <1>11. StateOK(x) /\ x.d = drafts BY <1>2, <1>6, <1>8, <1>10, ContinueOK
  <1>12. Commit(x) BY <1>9, <1>10 DEF Click
  <1> QED BY <1>11, <1>12, UserCommit DEF Click

\* Buttons whose handler changes nothing else before its first request.
LEMMA PlainClickOK ==
  ASSUME SetupInv, NEW i \in Procs, NEW op, NEW todo, Click(State, i, Handler(op, todo))
  PROVE  SetupInv' /\ Kept
  <1>1. ProcOK(Handler(op, todo)) /\ CurrentOK(Handler(op, todo), State.u) BY HandlerOK
  <1> QED BY <1>1, Standing, ClickOK

\* Opening a workspace.
LEMMA SelectHandlerOK ==
  ASSUME SetupInv, NEW w \in Paths, NEW u, NEW q, q = [Handler("select", <<"select">>) EXCEPT !.ws = w]
  PROVE  ProcOK(q) /\ CurrentOK(q, u)
  <1>1. PICK h : h = Handler("select", <<"select">>) OBVIOUS
  <1>2. DOMAIN h = ProcFields /\ h.key \in Paths /\ h.sent = Empty /\ ~h.cur /\ h.got = None
    BY <1>1, HandlerIs
  <1>3. DOMAIN q = ProcFields /\ q.key \in Paths /\ q.ws = w /\ q.sent = Empty /\ ~q.cur /\ q.got = None
    BY <1>1, <1>2 DEF ProcFields
  <1> QED BY <1>3 DEF ProcOK, CurrentOK, GotOK

LEMMA SelectOK ==
  ASSUME SetupInv, NEW i \in Procs, Select(i)
  PROVE  SetupInv' /\ Kept
  <1>1. PICK q : q = [Handler("select", <<"select">>) EXCEPT !.ws = ui.path] OBVIOUS
  <1>2. ui.path \in Paths BY DEF SetupInv, UIOK
  <1>3. ProcOK(q) /\ CurrentOK(q, State.u) BY <1>1, <1>2, SelectHandlerOK
  <1>4. Click(State, i, q) BY <1>1 DEF Select
  <1> QED BY <1>3, <1>4, Standing, ClickOK

LEMMA OpenRecentOK ==
  ASSUME SetupInv, NEW i \in Procs, NEW w \in Workspaces, OpenRecent(i, w)
  PROVE  SetupInv' /\ Kept
  <1>1. PICK q : q = [Handler("select", <<"select">>) EXCEPT !.ws = w] OBVIOUS
  <1>2. PICK u, st : u = [ui EXCEPT !.path = w] /\ st = [State EXCEPT !.u.path = w] OBVIOUS
  <1>3. DOMAIN st = {"u", "d", "p"} /\ st.u = u /\ st.d = drafts /\ st.p = procs BY <1>2 DEF State
  <1>4. UIOK(u) /\ u.content = ui.content /\ u.form = ui.form BY <1>2 DEF SetupInv, UIOK, UIFields, Paths
  <1>5. StateOK(st) BY <1>3, <1>4, Standing, PageStep
  <1>6. ProcOK(q) /\ CurrentOK(q, st.u) BY <1>1, SelectHandlerOK DEF Paths
  <1>7. Click(st, i, q) BY <1>1, <1>2 DEF OpenRecent
  <1> QED BY <1>3, <1>5, <1>6, <1>7, ClickOK

\* A guided save sends the text of the form it leaves in the editor.
LEMMA BeginSaveOK ==
  ASSUME SetupInv, NEW i \in Procs, NEW op \in Guided, BeginSave(i, op)
  PROVE  SetupInv' /\ Kept
  <1>1. PICK u, st : u = [ui EXCEPT !.doctor = "none"] /\ st = [State EXCEPT !.u.doctor = "none"] OBVIOUS
  <1>2. DOMAIN st = {"u", "d", "p"} /\ st.u = u /\ st.d = drafts /\ st.p = procs BY <1>1 DEF State
  <1>3. UIOK(u) /\ u.content = ui.content /\ u.form = ui.form BY <1>1 DEF SetupInv, UIOK, UIFields
  <1>4. StateOK(st) BY <1>2, <1>3, Standing, PageStep
  <1>5. CASE ui.form = Bad BY <1>1, <1>2, <1>4, <1>5, UserCommit DEF BeginSave
  <1>6. CASE ui.form # Bad
    <2>1. PICK text, m : text = Build(ui.form) /\ m = markSetupDirty(st) OBVIOUS
    <2>2. ui.form \in Forms /\ text \in Texts /\ text.form = ui.form BY <1>6, <2>1, BuildOK
    <2>3. StateOK(m) /\ m.d = drafts /\ m.u.form = ui.form /\ \A j \in Procs : ~m.p[j].cur
      BY <1>2, <1>3, <1>4, <2>1, DirtyOK
    <2>4. PICK v, t : v = [m.u EXCEPT !.content = text] /\ t = [m EXCEPT !.u.content = text] OBVIOUS
    <2>5. DOMAIN t = {"u", "d", "p"} /\ t.u = v /\ t.d = m.d /\ t.p = m.p BY <2>3, <2>4 DEF StateOK
    <2>6. UIOK(v) /\ v.form = ui.form BY <2>2, <2>3, <2>4 DEF StateOK, UIOK, UIFields
    <2>7. StateOK(t) BY <2>3, <2>5, <2>6, RevisedText
    <2>8. PICK h, q : /\ h = Handler(op, <<"put">>)
                      /\ q = [Handler(op, <<"put">>) EXCEPT !.sent = text, !.cur = TRUE]
      OBVIOUS
    <2>9. /\ DOMAIN h = ProcFields /\ h.op = op /\ h.key \in Paths /\ h.ws = None /\ h.got = None
      BY <2>8, HandlerIs
    <2>10. /\ DOMAIN q = ProcFields /\ q.op = op /\ q.key \in Paths /\ q.ws = None /\ q.got = None
           /\ q.sent = text
      BY <2>8, <2>9 DEF ProcFields
    <2>11. ProcOK(q) BY <2>2, <2>10 DEF ProcOK, GotOK, Paths
    <2>12. CurrentOK(q, t.u) BY <2>1, <2>2, <2>5, <2>6, <2>10 DEF CurrentOK, Saves, Guided
    <2>13. Click(t, i, q) BY <1>1, <1>6, <2>1, <2>4, <2>8 DEF BeginSave
    <2> QED BY <2>3, <2>5, <2>7, <2>11, <2>12, <2>13, ClickOK
  <1> QED BY <1>5, <1>6

LEMMA SaveRawOK ==
  ASSUME SetupInv, NEW i \in Procs, SaveRaw(i)
  PROVE  SetupInv' /\ Kept
  <1>1. PICK h, q : /\ h = Handler("raw", <<"put">>)
                    /\ q = [Handler("raw", <<"put">>) EXCEPT !.sent = ui.content, !.cur = TRUE]
    OBVIOUS
  <1>2. /\ DOMAIN h = ProcFields /\ h.op = "raw" /\ h.key \in Paths /\ h.ws = None /\ h.got = None
    BY <1>1, HandlerIs
  <1>3. /\ DOMAIN q = ProcFields /\ q.op = "raw" /\ q.key \in Paths /\ q.ws = None /\ q.got = None
        /\ q.sent = ui.content
    BY <1>1, <1>2 DEF ProcFields
  <1>4. ProcOK(q) BY <1>3 DEF ProcOK, GotOK, Paths, SetupInv, UIOK
  <1>5. CurrentOK(q, State.u) BY <1>3 DEF CurrentOK, Saves, Guided
  <1>6. Click(State, i, q) BY <1>1 DEF SaveRaw
  <1> QED BY <1>4, <1>5, <1>6, Standing, ClickOK

\* A page just loaded, and its only handler.
LEMMA FreshOK ==
  ASSUME NEW r, NEW u, u = FreshUI(r), NEW ps, ps = Booting
  PROVE  UIOK(u) /\ ~u.unsaved /\ ProcsOK(ps, u)
  <1>1. UIOK(u) /\ ~u.unsaved BY SetupConstants DEF FreshUI, UIOK, UIFields, Paths
  <1>2. DOMAIN ps = Procs BY DEF Booting
  <1>3. ASSUME NEW i \in Procs PROVE ProcOK(ps[i]) /\ CurrentOK(ps[i], u)
    <2>1. PICK f, q : f = Free /\ q = [Free EXCEPT !.op = "boot", !.todo = <<"status">>] OBVIOUS
    <2>2. /\ DOMAIN f = ProcFields /\ f.key = None /\ f.ws = None /\ f.sent = Empty /\ f.cur = FALSE
          /\ f.got = None
      BY <2>1 DEF Free, ProcFields
    <2>3. /\ DOMAIN q = ProcFields /\ q.key = None /\ q.ws = None /\ q.sent = Empty /\ ~q.cur
          /\ q.got = None
      BY <2>1, <2>2 DEF ProcFields
    <2>4. ProcOK(q) /\ CurrentOK(q, u) BY <2>3 DEF ProcOK, CurrentOK, GotOK, Paths
    <2>5. ProcOK(f) /\ CurrentOK(f, u) BY <2>1, FreeOK
    <2>6. ps[i] = q \/ ps[i] = f BY <2>1 DEF Booting
    <2> QED BY <2>4, <2>5, <2>6
  <1> QED BY <1>1, <1>2, <1>3 DEF ProcsOK

LEMMA ReloadOK ==
  ASSUME SetupInv, Reload
  PROVE  SetupInv' /\ Kept
  <1>1. UIOK(ui') /\ ~ui'.unsaved /\ ProcsOK(procs', ui') BY FreshOK DEF Reload
  <1>2. SrvOK' /\ Bounds' BY SetupConstants DEF Reload, Move, SetupInv, SrvOK, Bounds
  <1>3. drafts' = drafts BY DEF Reload
  <1> QED BY <1>1, <1>2, <1>3 DEF SetupInv, UnsavedIsStored, Kept

LEMMA UserOK ==
  ASSUME SetupInv, User
  PROVE  SetupInv' /\ Kept
  <1>1. ASSUME NEW p \in Workspaces \cup {None}, TypePath(p) PROVE SetupInv' /\ Kept
    BY <1>1, TypePathOK DEF Paths
  <1>2. ASSUME NEW i \in Procs, ForgetRecent(i) PROVE SetupInv' /\ Kept
    BY <1>2, PlainClickOK DEF ForgetRecent
  <1>3. ASSUME NEW i \in Procs, SaveSources(i) PROVE SetupInv' /\ Kept
    BY <1>3, BeginSaveOK DEF SaveSources, Guided
  <1>4. ASSUME NEW i \in Procs, SaveGuided(i) PROVE SetupInv' /\ Kept
    BY <1>4, BeginSaveOK DEF SaveGuided, Guided
  <1>5. ASSUME NEW i \in Procs, SaveRuntime(i) PROVE SetupInv' /\ Kept
    BY <1>5, PlainClickOK DEF SaveRuntime
  <1>6. ASSUME NEW i \in Procs, SaveSettings(i) PROVE SetupInv' /\ Kept
    BY <1>6, PlainClickOK DEF SaveSettings
  <1>7. ASSUME NEW i \in Procs, SaveModels(i) PROVE SetupInv' /\ Kept
    BY <1>7, PlainClickOK DEF SaveModels
  <1>8. ASSUME NEW i \in Procs, Validate(i) PROVE SetupInv' /\ Kept
    BY <1>8, PlainClickOK DEF Validate
  <1>9. ASSUME NEW i \in Procs, Doctor(i) PROVE SetupInv' /\ Kept
    BY <1>9, PlainClickOK DEF Doctor
  <1>10. ASSUME NEW i \in Procs, Refresh(i) PROVE SetupInv' /\ Kept
    BY <1>10, PlainClickOK DEF Refresh
  <1>11. ASSUME NEW i \in Procs, NEW firstTask, EnterConsole(i, firstTask) PROVE SetupInv' /\ Kept
    BY <1>11, PlainClickOK DEF EnterConsole
  <1> QED BY <1>1, <1>2, <1>3, <1>4, <1>5, <1>6, <1>7, <1>8, <1>9, <1>10, <1>11, EditFormOK, EditTextOK,
             ApplyOK, ChangeRuntimeOK, NavigateOK, ReloadOK, SelectOK, OpenRecentOK, SaveRawOK DEF User

-----------------------------------------------------------------------------
(* The API *)

\* An answer to a call.
Fits(call, a) ==
  /\ call \in {"status", "forget", "runtime", "enter", "select"} => a.ws \in Paths
  /\ call = "load" => a \in Texts \cup {Empty}
  /\ call \in {"validate", "precheck", "check", "doctor"} => a \in {"ok", "bad"}

LEMMA AnswerOK ==
  ASSUME SetupInv, NEW i \in Procs, NEW a, a = Failed \/ Fits(Head(procs[i].todo), a), Answer(i, a),
         Same, SrvOK', errs' \in 0..MaxErrors
  PROVE  SetupInv' /\ Kept
  <1>1. PICK q : q = [procs[i] EXCEPT !.got = a] OBVIOUS
  <1>2. ProcOK(procs[i]) /\ CurrentOK(procs[i], ui) BY DEF SetupInv, ProcsOK
  <1>3. /\ DOMAIN q = ProcFields /\ q.op = procs[i].op /\ q.key = procs[i].key /\ q.ws = procs[i].ws
        /\ q.sent = procs[i].sent /\ q.cur = procs[i].cur /\ q.todo = procs[i].todo /\ q.got = a
    BY <1>1, <1>2 DEF ProcOK, ProcFields
  <1>4. ProcOK(q) /\ CurrentOK(q, ui) BY <1>2, <1>3 DEF ProcOK, CurrentOK, GotOK, Fits
  <1>5. procs' = [procs EXCEPT ![i] = q] BY <1>1 DEF Answer
  <1>6. ui' = ui /\ drafts' = drafts /\ moves' = moves BY DEF Same
  <1>7. \A j \in Procs : procs'[j] = IF j = i THEN q ELSE procs[j] BY <1>5 DEF SetupInv, ProcsOK
  <1>8. ProcsOK(procs, ui)' BY <1>4, <1>5, <1>6, <1>7 DEF SetupInv, ProcsOK
  <1>9. UIOK(ui') /\ DraftsOK(drafts') /\ UnsavedIsStored' BY <1>6 DEF SetupInv, UnsavedIsStored, DraftOf
  <1>10. Bounds' BY <1>6 DEF SetupInv, Bounds
  <1> QED BY <1>6, <1>8, <1>9, <1>10 DEF SetupInv, Kept

LEMMA SnapshotIs ==
  ASSUME SetupInv
  PROVE  Snapshot.ws \in Paths /\ (Snapshot.ready => srv.ws \in Workspaces /\ srv.manifest[srv.ws] \in Texts)
  BY DEF SetupInv, SrvOK, Snapshot, Paths

LEMMA ServeReadOK ==
  ASSUME SetupInv, NEW i \in Procs, ServeRead(i), Same, UNCHANGED errs
  PROVE  SetupInv' /\ Kept
  <1>1. SrvOK' /\ errs' \in 0..MaxErrors BY DEF ServeRead, SetupInv, SrvOK, Bounds
  <1>2. PICK call : call = Head(procs[i].todo) OBVIOUS
  <1>3. CASE call \in {"status", "forget"} /\ Answer(i, Snapshot)
    <2>1. Fits(Head(procs[i].todo), Snapshot) BY <1>2, <1>3, SnapshotIs DEF Fits
    <2> QED BY <1>1, <1>3, <2>1, AnswerOK
  <1>4. CASE call = "load" /\ Answer(i, IF srv.ws = None THEN Failed ELSE srv.manifest[srv.ws])
    <2>1. PICK a : a = IF srv.ws = None THEN Failed ELSE srv.manifest[srv.ws] OBVIOUS
    <2>2. a = Failed \/ a \in Texts \cup {Empty} BY <2>1 DEF SetupInv, SrvOK, Paths
    <2>3. a = Failed \/ Fits(Head(procs[i].todo), a) BY <1>2, <1>4, <2>2 DEF Fits
    <2>4. Answer(i, a) BY <1>4, <2>1
    <2> QED BY <1>1, <2>3, <2>4, AnswerOK
  <1>5. ASSUME call \in {"validate", "precheck", "check", "doctor"}, NEW a \in {"ok", "bad"}, Answer(i, a)
        PROVE  SetupInv' /\ Kept
    <2>1. Fits(Head(procs[i].todo), a) BY <1>2, <1>5 DEF Fits
    <2> QED BY <1>1, <1>5, <2>1, AnswerOK
  <1>6. CASE Answer(i, Failed) BY <1>1, <1>6, AnswerOK
  <1>7. CASE call = "enter" /\ Answer(i, IF can_enter_console(Snapshot) THEN Snapshot ELSE Failed)
    <2>1. CASE Answer(i, Snapshot)
      <3>1. Fits(Head(procs[i].todo), Snapshot) BY <1>2, <1>7, SnapshotIs DEF Fits
      <3> QED BY <1>1, <2>1, <3>1, AnswerOK
    <2> QED BY <1>6, <1>7, <2>1
  <1> QED BY <1>2, <1>3, <1>4, <1>5, <1>6, <1>7 DEF ServeRead, Waiting

LEMMA ServeSelectOK ==
  ASSUME SetupInv, NEW i \in Procs, ServeSelect(i), Same, UNCHANGED errs
  PROVE  SetupInv' /\ Kept
  <1>1. procs[i].ws \in Paths BY DEF SetupInv, ProcsOK, ProcOK
  <1>2. SrvOK' BY <1>1 DEF ServeSelect, SetupInv, SrvOK
  <1>3. errs' \in 0..MaxErrors BY DEF SetupInv, Bounds
  <1>4. PICK a : a = [Snapshot EXCEPT !.ws = procs[i].ws, !.ready = (srv.manifest[procs[i].ws] # Empty)] OBVIOUS
  <1>5. a.ws = procs[i].ws BY <1>4 DEF Snapshot
  <1>6. Fits(Head(procs[i].todo), a) BY <1>1, <1>5 DEF Fits, ServeSelect, Waiting
  <1>7. Answer(i, a) BY <1>4 DEF ServeSelect
  <1> QED BY <1>2, <1>3, <1>6, <1>7, AnswerOK

LEMMA ServeRuntimeOK ==
  ASSUME SetupInv, NEW i \in Procs, ServeRuntime(i), Same, UNCHANGED errs
  PROVE  SetupInv' /\ Kept
  <1>1. SrvOK' BY DEF ServeRuntime, SetupInv, SrvOK
  <1>2. errs' \in 0..MaxErrors BY DEF SetupInv, Bounds
  <1>3. PICK a : a = [Snapshot EXCEPT !.runtime = TRUE] OBVIOUS
  <1>4. a.ws \in Paths BY <1>3, SnapshotIs DEF Snapshot
  <1>5. Fits(Head(procs[i].todo), a) BY <1>4 DEF Fits, ServeRuntime, Waiting
  <1>6. Answer(i, a) BY <1>3 DEF ServeRuntime
  <1> QED BY <1>1, <1>2, <1>5, <1>6, AnswerOK

\* Any text may be written to the attached workspace's manifest.
LEMMA WrittenOK ==
  ASSUME SetupInv, srv.ws \in Workspaces, NEW text \in Texts,
         srv' = [srv EXCEPT !.manifest = [srv.manifest EXCEPT ![srv.ws] = text]]
  PROVE  SrvOK'
  BY DEF SetupInv, SrvOK

\* Answers whose content nothing depends on.
LEMMA PlainAnswerOK ==
  ASSUME SetupInv, NEW i \in Procs, NEW call \in {"put", "settings", "models"}, Waiting(i, call),
         NEW a, Answer(i, a), Same, UNCHANGED errs, SrvOK'
  PROVE  SetupInv' /\ Kept
  <1>1. Fits(Head(procs[i].todo), a) BY DEF Fits, Waiting
  <1>2. errs' \in 0..MaxErrors BY DEF SetupInv, Bounds
  <1> QED BY <1>1, <1>2, AnswerOK

LEMMA ServePutOK ==
  ASSUME SetupInv, NEW i \in Procs, ServePut(i), Same, UNCHANGED errs
  PROVE  SetupInv' /\ Kept
  <1>1. CASE srv.ws = None \/ procs[i].sent = Empty
    <2>1. SrvOK' BY <1>1 DEF ServePut, SetupInv, SrvOK
    <2> QED BY <1>1, <2>1, PlainAnswerOK DEF ServePut
  <1>2. CASE ~(srv.ws = None \/ procs[i].sent = Empty)
    <2>1. srv.ws \in Workspaces /\ procs[i].sent \in Texts
      BY <1>2 DEF SetupInv, SrvOK, ProcsOK, ProcOK, Paths
    <2>2. SrvOK' BY <1>2, <2>1, WrittenOK DEF ServePut
    <2> QED BY <1>2, <2>2, PlainAnswerOK DEF ServePut
  <1> QED BY <1>1, <1>2

\* Settings change what the form cannot show.
LEMMA ExtraOK ==
  ASSUME SetupInv, Snapshot.ready, NEW x \in BOOLEAN, srv' = [srv EXCEPT !.manifest[srv.ws].extra = x]
  PROVE  SrvOK'
  <1>1. PICK text : text = [srv.manifest[srv.ws] EXCEPT !.extra = x] OBVIOUS
  <1>2. srv.ws \in Workspaces /\ srv.manifest[srv.ws] \in Texts BY SnapshotIs
  <1>3. text \in Texts BY <1>1, <1>2 DEF Texts
  <1> QED BY <1>1, <1>2, <1>3, WrittenOK

LEMMA ServeSettingsOK ==
  ASSUME SetupInv, NEW i \in Procs, ServeSettings(i), Same, UNCHANGED errs
  PROVE  SetupInv' /\ Kept
  <1>1. SrvOK'
    <2>1. CASE Snapshot.ready BY <2>1, ExtraOK DEF ServeSettings
    <2>2. CASE ~Snapshot.ready BY <2>2 DEF ServeSettings, SetupInv, SrvOK
    <2> QED BY <2>1, <2>2
  <1>2. PICK a : Answer(i, a) BY DEF ServeSettings
  <1> QED BY <1>1, <1>2, PlainAnswerOK DEF ServeSettings

LEMMA ServeModelsOK ==
  ASSUME SetupInv, NEW i \in Procs, ServeModels(i), Same, UNCHANGED errs
  PROVE  SetupInv' /\ Kept
  <1>1. SrvOK'
    <2>1. CASE Snapshot.ready BY <2>1, ExtraOK DEF ServeModels
    <2>2. CASE ~Snapshot.ready BY <2>2 DEF ServeModels, SetupInv, SrvOK
    <2> QED BY <2>1, <2>2
  <1>2. PICK a : Answer(i, a) BY DEF ServeModels
  <1> QED BY <1>1, <1>2, PlainAnswerOK DEF ServeModels

LEMMA ServeOK ==
  ASSUME SetupInv, NEW i \in Procs, Serve(i)
  PROVE  SetupInv' /\ Kept
  BY ServeReadOK, ServeSelectOK, ServeRuntimeOK, ServePutOK, ServeSettingsOK, ServeModelsOK DEF Serve

LEMMA FailOK ==
  ASSUME SetupInv, NEW i \in Procs, Fail(i)
  PROVE  SetupInv' /\ Kept
  <1>1. SrvOK' BY DEF Fail, SetupInv, SrvOK
  <1>2. errs' \in 0..MaxErrors BY SetupConstants DEF Fail, SetupInv, Bounds
  <1> QED BY <1>1, <1>2, AnswerOK DEF Fail

-----------------------------------------------------------------------------
(* The theorems *)

LEMMA InitOK ==
  ASSUME Init
  PROVE  SetupInv
  <1>1. SrvOK
    <2>1. PICK w \in Present \cup {None}, rt \in BOOLEAN :
             srv = [ws |-> w, runtime |-> rt,
                    manifest |-> [v \in Workspaces |-> IF v \in Present THEN Build(Stored) ELSE Empty]]
      BY DEF Init
    <2>2. w \in Paths /\ Build(Stored) \in Texts BY SetupConstants DEF Paths, Build, Texts
    <2> QED BY <2>1, <2>2 DEF SrvOK
  <1>2. PICK r : ui = FreshUI(r) BY DEF Init
  <1>3. UIOK(ui) /\ ~ui.unsaved /\ ProcsOK(procs, ui) BY <1>2, FreshOK DEF Init
  <1>4. DraftsOK(drafts) BY DEF Init, DraftsOK
  <1>5. Bounds BY SetupConstants DEF Init, Bounds
  <1> QED BY <1>1, <1>3, <1>4, <1>5 DEF SetupInv, UnsavedIsStored

LEMMA NextOK ==
  ASSUME SetupInv, Next
  PROVE  /\ SetupInv'
         /\ \/ Kept
            \/ \E i \in Procs : Got(i, "check") /\ procs[i].got # Failed /\ isCurrentManifestSave(State, i)
  BY UserOK, ServeOK, FailOK, ReplyOK DEF Next

\* Whatever the users, handlers, requests and failures do, the state has its types, unsaved
\* edits have their draft, and no guided save is the current one of a text whose form is not
\* the one it sent (useManifestEditor, draftStorage and the handlers of App).
THEOREM SetupInvHolds == Spec => []SetupInv
  <1>1. Init => SetupInv BY InitOK
  <1>2. SetupInv /\ [Next]_vars => SetupInv'
    <2> SUFFICES ASSUME SetupInv, [Next]_vars PROVE SetupInv' OBVIOUS
    <2>1. CASE Next BY <2>1, NextOK
    <2>2. CASE UNCHANGED vars
      BY <2>2 DEF vars, SetupInv, SrvOK, UIOK, DraftsOK, ProcsOK, ProcOK, GotOK, CurrentOK, UnsavedIsStored,
                  DraftOf, Bounds
    <2> QED BY <2>1, <2>2
  <1> QED BY <1>1, <1>2, PTL DEF Spec

\* The types, the form that never empties, and the stored draft of an unsaved text
\* (useManifestEditor): leaving the page loses no edit.
THEOREM UnsavedEditsAreStored == Spec => []EditorInv
  <1>1. SetupInv => EditorInv
    <2> SUFFICES ASSUME SetupInv PROVE EditorInv OBVIOUS
    <2>1. TypeOK BY DEF SetupInv, SrvOK, UIOK, DraftsOK, ProcsOK, Bounds, Paths, TypeOK
    <2> QED BY <2>1 DEF SetupInv, EditorInv
  <1> QED BY <1>1, SetupInvHolds, PTL

\* The stored draft of unsaved edits disappears only at the end of a save that sent the
\* draft's text, a guided one also its form (isCurrentManifestSave).
THEOREM DraftsAreGivenUpForSaves == Spec => ClearedIsSaved
  <1> DEFINE Given == \A w \in Workspaces :
               ui.unsaved /\ ui.path = w /\ drafts'[w] = None
                 => \E i \in Procs :
                      /\ procs[i].op \in Saves /\ Got(i, "check") /\ procs[i].got # Failed
                      /\ procs[i].sent = drafts[w].content
                      /\ procs[i].op \in Guided => Build(drafts[w].form) = procs[i].sent
  <1>1. SetupInv /\ [Next]_vars => [Given]_vars
    <2> SUFFICES ASSUME SetupInv, Next, NEW w \in Workspaces, ui.unsaved, ui.path = w, drafts'[w] = None
                 PROVE  \E i \in Procs :
                          /\ procs[i].op \in Saves /\ Got(i, "check") /\ procs[i].got # Failed
                          /\ procs[i].sent = drafts[w].content
                          /\ procs[i].op \in Guided => Build(drafts[w].form) = procs[i].sent
      OBVIOUS
    <2>1. drafts[w] = DraftOf(ui) BY SetupConstants DEF SetupInv, UnsavedIsStored
    <2>2. DraftOf(ui) \in Drafts BY DEF SetupInv, UIOK, DraftOf, Drafts
    <2>3. ~Kept BY <2>1, <2>2, NoDraft DEF Kept
    <2>4. PICK i \in Procs : Got(i, "check") /\ procs[i].got # Failed /\ isCurrentManifestSave(State, i)
      BY <2>3, NextOK
    <2>5. procs[i].cur /\ ui.content = procs[i].sent BY <2>4, Standing DEF isCurrentManifestSave
    <2>6. CurrentOK(procs[i], ui) BY DEF SetupInv, ProcsOK
    <2>7. drafts[w].content = ui.content /\ drafts[w].form = ui.form BY <2>1 DEF DraftOf
    <2>8. procs[i].op \in Saves /\ (procs[i].op \in Guided => Build(ui.form) = procs[i].sent)
      BY <2>5, <2>6 DEF CurrentOK
    <2> QED BY <2>4, <2>5, <2>7, <2>8
  <1> QED BY <1>1, SetupInvHolds, PTL DEF Spec, ClearedIsSaved
=============================================================================
