---------------------------- MODULE SetupEditor ----------------------------
(***************************************************************************)
(* Workspace setup in the web console: the manifest editor                 *)
(* (ui/src/hooks/useManifestEditor, lib/draftStorage), the onboarding      *)
(* shell and the handlers of App that open a workspace, save its sources,  *)
(* choose a runner and enter the console.                                  *)
(*                                                                         *)
(* A handler is a process: the calls it still awaits are its todo list,    *)
(* and each call is served by the API and then delivered to the handler.   *)
(* The fields of the page stay editable while handlers run; only buttons   *)
(* look at busy.  A step ends with the effects of the React commit it      *)
(* causes (Commit).  A manifest text is its repositories, as the guided    *)
(* form can show them, and whether it says more than the form can.         *)
(***************************************************************************)
EXTENDS Integers, Sequences

CONSTANTS
  Workspaces,   \* paths of workspaces
  Present,      \* the workspaces that have a workspace.yaml at first
  None,         \* the empty path; no workspace; no stored draft
  Forms,        \* contents of the guided form that build
  Sample,       \* the form a page starts with (initialGuidedRepos)
  Stored,       \* the form of the manifests at first
  Bad,          \* a form that does not build
  Failed,       \* the answer of a call that failed
  Procs,        \* handlers that may run at the same time
  MaxMoves,     \* bound: user events
  MaxErrors     \* bound: calls that fail or lose their answer

ASSUME SetupConstants ==
  /\ Present \subseteq Workspaces /\ None \notin Workspaces
  /\ {Sample, Stored} \subseteq Forms /\ Bad \notin Forms /\ None \notin Forms
  /\ MaxMoves \in Nat /\ MaxErrors \in Nat

VARIABLES
  srv,      \* the API's session: workspace, manifests, runner
  ui,       \* state of App, useManifestEditor and the address
  drafts,   \* localStorage: workspace -> draft
  procs,    \* running handlers
  moves,    \* user events so far
  errs      \* failures left

vars == <<srv, ui, drafts, procs, moves, errs>>

-----------------------------------------------------------------------------
(* Manifests, forms and drafts *)

Empty == [form |-> None, extra |-> FALSE]

Texts == [form : Forms, extra : BOOLEAN]

\* buildManifestFromGuidedForm: what only the raw text can say is not in the form.
Build(f) == [form |-> f, extra |-> FALSE]

\* parseGuidedSetupFromManifest: a text without repositories leaves the form alone.
Parse(text, f) == IF text.form = None THEN f ELSE text.form

Drafts == [content : Texts \cup {Empty}, form : Forms \cup {Bad}]

\* An absent entry of localStorage is no draft.
ASSUME NoDraft == None \notin Drafts

DraftOf(u) == [content |-> u.content, form |-> u.form]

Snapshot == [ws |-> srv.ws, ready |-> srv.ws # None /\ srv.manifest[srv.ws] # Empty, runtime |-> srv.runtime]

NoStatus == [ws |-> None, ready |-> FALSE, runtime |-> FALSE]

can_enter_console(s) == s.ready /\ s.runtime

-----------------------------------------------------------------------------
(* Processes *)

Free == [op |-> "free", todo |-> <<>>, key |-> None, ws |-> None, val |-> FALSE, can |-> FALSE,
         sent |-> Empty, cur |-> FALSE, got |-> None]

\* A handler called now: it sees the path and the validation of this render.
Handler(op, todo) ==
  [Free EXCEPT !.op = op, !.todo = todo, !.key = ui.path, !.val = (ui.valid = "ok")]

Idle(i) == procs[i] = Free /\ \A j \in Procs : j < i => procs[j] # Free

\* bootstrapConsoleData: runs, manifest, identity and settings, validation.  The loads of
\* runs, identity and settings catch their own errors and touch nothing modelled here.
bootstrapConsoleData(validate) ==
  <<"quiet", "load", "quiet">> \o (IF validate THEN <<"validate">> ELSE <<>>)

\* Handlers that set busy when they start and reset it at their end.
Exclusive == {"select", "forget", "refresh", "runtime", "doctor", "settings", "models"}

Saves == {"sources", "guided", "raw"}

Guided == {"sources", "guided"}

State == [u |-> ui, d |-> drafts, p |-> procs]

\* formRevisionRef moves on: no save in flight is the current one any more.
Revised(ps) == [i \in Procs |-> [ps[i] EXCEPT !.cur = FALSE]]

\* restoreWorkspaceDraft(k), the draft being there.
restoreWorkspaceDraft(st, k) ==
  [st EXCEPT !.u = [@ EXCEPT !.dirty = TRUE, !.unsaved = TRUE, !.content = st.d[k].content,
                             !.form = st.d[k].form, !.valid = "none", !.restored = k],
             !.p = Revised(@)]

Clean(st, k) == [st EXCEPT !.u = [@ EXCEPT !.dirty = FALSE, !.unsaved = FALSE, !.restored = k]]

\* The effect on a new key: it restores that key's draft, or calls the editor clean.  The
\* effect that stores drafts runs in the same commit, with the state from before.
KeyEffect(st) ==
  LET k == st.u.path IN
  IF st.u.path = ui.path \/ k = None \/ st.u.restored = k THEN st
  ELSE IF st.d[k] # None THEN restoreWorkspaceDraft(st, k)
  ELSE Clean([st EXCEPT !.d[k] = IF st.u.unsaved THEN DraftOf(st.u) ELSE @], k)

\* Mutant of WriteEffect: the effect does not depend on the guided form.
WriteEffectNoForm(st) ==
  LET changed == <<st.u.content, st.u.unsaved, st.u.path>> # <<ui.content, ui.unsaved, ui.path>>
  IN IF changed /\ st.u.unsaved /\ st.u.path # None
       THEN [st EXCEPT !.d[st.u.path] = DraftOf(st.u)] ELSE st

\* The effect that stores an unsaved draft under the key.
WriteEffect(st) ==
  LET changed == <<st.u.content, st.u.form, st.u.unsaved, st.u.path>>
                   # <<ui.content, ui.form, ui.unsaved, ui.path>>
  IN IF changed /\ st.u.unsaved /\ st.u.path # None
       THEN [st EXCEPT !.d[st.u.path] = DraftOf(st.u)] ELSE st

Commit(st) ==
  LET new == WriteEffect(KeyEffect(st))
  IN ui' = new.u /\ drafts' = new.d /\ procs' = new.p

-----------------------------------------------------------------------------
(* Continuations *)

\* markSetupDirty
markSetupDirty(st) ==
  [st EXCEPT !.u = [@ EXCEPT !.dirty = TRUE, !.unsaved = TRUE, !.valid = "none"], !.p = Revised(@)]

\* syncOnboardingStatus: the path is filled in if it was empty when the handler was called.
syncOnboardingStatus(st, i, s) ==
  [st EXCEPT !.u = [@ EXCEPT !.status = s,
                             !.path = IF s.ws # None /\ st.p[i].key = None THEN s.ws ELSE st.u.path]]

\* Mutant of Return: the finally block is missing.
ReturnStaysBusy(st, i) == [st EXCEPT !.p[i] = Free]

\* The handler ends, with or without an error.
Return(st, i) ==
  [st EXCEPT !.p[i] = Free, !.u.busy = IF st.p[i].op \in Exclusive THEN FALSE ELSE @]

\* loadManifest up to its request.  A stored draft of a new key takes the request's place.
BeginLoad(st, i, todo) ==
  LET k   == IF st.p[i].op = "select" THEN st.p[i].ws ELSE st.p[i].key
      new == k # None /\ st.u.restored # k
  IN IF new /\ st.d[k] # None
       THEN [restoreWorkspaceDraft(st, k) EXCEPT !.p[i].todo = Tail(todo)]
       ELSE [(IF new THEN Clean(st, k) ELSE st) EXCEPT !.u.loading = i, !.p[i].todo = todo]

\* The handler goes on to the next call it awaits.
Continue(st, i, todo) ==
  LET on == [st EXCEPT !.p[i].got = None] IN
  IF todo = <<>> THEN Return(on, i)
  ELSE IF Head(todo) = "load" THEN BeginLoad(on, i, todo)
  ELSE IF Head(todo) \in {"validate", "precheck"}
    THEN [on EXCEPT !.u.validating = i, !.u.busy = TRUE, !.p[i].todo = todo]
  ELSE [on EXCEPT !.p[i].todo = todo]

\* bootstrapApp is through: the console is shown at its address.
Arrive(st, i) ==
  IF st.p[i].op \in {"boot", "refresh"} THEN [st EXCEPT !.u.ready = TRUE] ELSE st

Rest(st, i) ==
  LET todo == Tail(st.p[i].todo) IN Continue(IF todo = <<>> THEN Arrive(st, i) ELSE st, i, todo)

\* What follows a status, by handler.
AfterStatus(st, i) ==
  LET p == st.p[i]
      s == st.u.status
  IN CASE p.op \in {"boot", "refresh"} /\ ~can_enter_console(s) ->
            Return([st EXCEPT !.u.ready = FALSE, !.u.route = "setup"], i)
       [] p.op \in {"boot", "refresh"} /\ can_enter_console(s) -> Continue(st, i, bootstrapConsoleData(TRUE))
       [] p.op = "sources" -> Continue(st, i, IF can_enter_console(s) THEN bootstrapConsoleData(FALSE) ELSE <<>>)
       [] p.op = "runtime" /\ ~can_enter_console(s) -> Return(st, i)
       [] p.op = "runtime" /\ can_enter_console(s) ->
            Continue(st, i, IF p.val THEN bootstrapConsoleData(FALSE) ELSE <<"precheck">>)
       [] p.op = "enter" ->
            Continue([st EXCEPT !.p[i].can = can_enter_console(s)], i,
                     IF ~p.val THEN <<"precheck">>
                     ELSE IF can_enter_console(s) THEN bootstrapConsoleData(FALSE) \o <<"enter">> ELSE <<>>)
       [] OTHER -> Return(st, i)

\* What follows the validation a handler waits for.
AfterPrecheck(st, i, ok) ==
  IF st.p[i].op = "runtime" THEN Continue(st, i, bootstrapConsoleData(~ok))
  ELSE Continue(st, i, IF st.p[i].can /\ ok THEN bootstrapConsoleData(FALSE) \o <<"enter">> ELSE <<>>)

\* Mutant of isCurrentManifestSave: only the raw text is compared.
isCurrentManifestSaveByText(st, i) == st.u.content = st.p[i].sent

isCurrentManifestSave(st, i) == st.p[i].cur /\ st.u.content = st.p[i].sent

\* The end of a save: by the API's validation, or by an error (answer Failed).
EndSave(st, i, answer) ==
  LET p     == st.p[i]
      saved == IF answer = Failed THEN st
               ELSE IF isCurrentManifestSave(st, i)
                 THEN [st EXCEPT !.u = [@ EXCEPT !.valid = answer, !.dirty = FALSE, !.unsaved = FALSE],
                                 !.d = [w \in Workspaces |-> IF w = p.key THEN None ELSE st.d[w]]]
                 ELSE [st EXCEPT !.u.dirty = TRUE]
      idle  == [saved EXCEPT !.u.busy = FALSE]
  IN IF p.op = "sources" THEN Continue(idle, i, <<"status">>) ELSE Return(idle, i)

-----------------------------------------------------------------------------
(* The API *)

Waiting(i, call) == procs[i].todo # <<>> /\ Head(procs[i].todo) = call /\ procs[i].got = None

Answer(i, a) == procs' = [procs EXCEPT ![i].got = a]

Same == UNCHANGED <<ui, drafts, moves>>

\* The calls that only read; a validation or a readiness check finds what it finds.
ServeRead(i) ==
  /\ \/ (Waiting(i, "status") \/ Waiting(i, "forget")) /\ Answer(i, Snapshot)
     \/ Waiting(i, "load") /\ Answer(i, IF srv.ws = None THEN Failed ELSE srv.manifest[srv.ws])
     \/ /\ \E call \in {"validate", "precheck", "check"} : Waiting(i, call)
        /\ IF Snapshot.ready THEN \E a \in {"ok", "bad"} : Answer(i, a) ELSE Answer(i, Failed)
     \/ Waiting(i, "doctor") /\ \E a \in {"ok", "bad"} : Answer(i, a)
     \/ Waiting(i, "enter") /\ Answer(i, IF can_enter_console(Snapshot) THEN Snapshot ELSE Failed)
  /\ UNCHANGED srv

\* Opening a workspace attaches it; without a manifest it is a draft workspace.
ServeSelect(i) ==
  /\ Waiting(i, "select")
  /\ srv' = [srv EXCEPT !.ws = procs[i].ws]
  /\ Answer(i, [Snapshot EXCEPT !.ws = procs[i].ws, !.ready = (srv.manifest[procs[i].ws] # Empty)])

ServeRuntime(i) ==
  /\ Waiting(i, "runtime")
  /\ srv' = [srv EXCEPT !.runtime = TRUE]
  /\ Answer(i, [Snapshot EXCEPT !.runtime = TRUE])

\* The manifest goes to the workspace that is attached now.
ServePut(i) ==
  /\ Waiting(i, "put")
  /\ IF srv.ws = None \/ procs[i].sent = Empty
       THEN Answer(i, Failed) /\ UNCHANGED srv
       ELSE Answer(i, "ok") /\ srv' = [srv EXCEPT !.manifest[srv.ws] = procs[i].sent]

\* Runtime settings are part of workspace.yaml: a save, or a reset to the defaults, writes
\* runtime.profile into the attached workspace's manifest.
ServeSettings(i) ==
  /\ Waiting(i, "settings")
  /\ IF Snapshot.ready THEN Answer(i, "ok") /\ srv' = [srv EXCEPT !.manifest[srv.ws].extra = TRUE]
                       ELSE Answer(i, Failed) /\ UNCHANGED srv

\* The providers' models likewise; a reset removes them, and an empty profile with them.
ServeModels(i) ==
  /\ Waiting(i, "models")
  /\ IF Snapshot.ready THEN Answer(i, "ok") /\ \E x \in BOOLEAN : srv' = [srv EXCEPT !.manifest[srv.ws].extra = x]
                       ELSE Answer(i, Failed) /\ UNCHANGED srv

Serve(i) ==
  /\ ServeRead(i) \/ ServeSelect(i) \/ ServeRuntime(i) \/ ServePut(i) \/ ServeSettings(i) \/ ServeModels(i)
  /\ Same /\ UNCHANGED errs

\* A call fails before the API acts, or its answer is lost.
Fail(i) ==
  /\ errs > 0 /\ errs' = errs - 1
  /\ procs[i].todo # <<>> /\ Head(procs[i].todo) # "quiet" /\ procs[i].got # Failed
  /\ Answer(i, Failed)
  /\ Same /\ UNCHANGED srv

-----------------------------------------------------------------------------
(* The handlers' answers *)

\* The answer of process i to the given call is there.
Got(i, call) == procs[i].todo # <<>> /\ Head(procs[i].todo) = call /\ procs[i].got # None

Deliver == UNCHANGED <<srv, moves, errs>>

DeliverStatus(i) ==
  /\ Got(i, "status") \/ Got(i, "forget") \/ Got(i, "runtime")
  /\ Commit(IF procs[i].got = Failed THEN Return(State, i)
            ELSE AfterStatus(syncOnboardingStatus(State, i, procs[i].got), i))
  /\ Deliver

\* The answer of selectOnboardingWorkspace, in handleOnboardingWorkspaceSelect.
DeliverSelect(i) ==
  /\ Got(i, "select")
  /\ LET s    == procs[i].got
         open == [State EXCEPT !.u = [@ EXCEPT !.path = procs[i].ws, !.status = s]]
     IN Commit(IF s = Failed THEN Return(State, i)
               ELSE Continue(open, i, IF s.ready THEN <<"load", "quiet", "validate">> ELSE <<>>))
  /\ Deliver

\* The rest of loadManifest: an edited text is kept, an error empties it.
DeliverLoad(i) ==
  /\ Got(i, "load") \/ (Waiting(i, "load") /\ ui.loading # i)
  /\ LET text == procs[i].got
         over == [State EXCEPT !.u.loading = IF @ = i THEN 0 ELSE @]
     IN Commit(IF ui.loading # i THEN Rest(State, i)
               ELSE IF text = Failed THEN Return([over EXCEPT !.u.content = Empty], i)
               ELSE IF ui.dirty THEN Rest(over, i)
               ELSE Rest([over EXCEPT !.u.content = text, !.u.form = Parse(text, @)], i))
  /\ Deliver

\* The rest of handleValidateWorkspace; a superseded validation says nothing.
DeliverValidate(i) ==
  /\ \E call \in {"validate", "precheck"} : Got(i, call) \/ (Waiting(i, call) /\ ui.validating # i)
  /\ LET mine == ui.validating = i
         a    == procs[i].got
         told == IF ~mine THEN State
                 ELSE [State EXCEPT !.u = [@ EXCEPT !.validating = 0, !.busy = FALSE,
                                                    !.valid = IF a = Failed THEN ui.valid ELSE a]]
     IN Commit(IF Head(procs[i].todo) = "precheck" THEN AfterPrecheck(told, i, mine /\ a = "ok")
               ELSE Rest(told, i))
  /\ Deliver

\* A load that catches its own errors and changes nothing modelled here.
DeliverQuiet(i) ==
  /\ procs[i].todo # <<>> /\ Head(procs[i].todo) = "quiet"
  /\ Commit(Rest(State, i))
  /\ Deliver

\* saveWorkspaceManifest, then validateWorkspaceAPI, of the two save handlers.
DeliverSave(i) ==
  /\ \/ Got(i, "put") /\ Commit(IF procs[i].got = Failed THEN EndSave(State, i, Failed)
                                ELSE Continue(State, i, <<"check">>))
     \/ Got(i, "check") /\ Commit(EndSave(State, i, procs[i].got))
  /\ Deliver

\* The rest of handleSetupDoctorCheck.
DeliverDoctor(i) ==
  /\ Got(i, "doctor")
  /\ Commit(Return([State EXCEPT !.u.doctor = IF procs[i].got = Failed THEN @ ELSE procs[i].got], i))
  /\ Deliver

\* The rest of a settings save or reset, which loads the settings again unless it failed; the
\* editor's text is not loaded again.
DeliverSettings(i) ==
  /\ Got(i, "settings")
  /\ Commit(IF procs[i].got = Failed THEN Return(State, i) ELSE Rest(State, i))
  /\ Deliver

\* The models are in the answer.
DeliverModels(i) == Got(i, "models") /\ Commit(Return(State, i)) /\ Deliver

\* The end of handleOnboardingEnterConsole; leaving Setup with an unsaved draft must be
\* confirmed.
DeliverEnter(i) ==
  /\ Got(i, "enter")
  /\ IF procs[i].got = Failed THEN Commit(Return(State, i))
     ELSE \E r \in {"other"} \cup (IF ui.unsaved /\ ui.route = "setup" THEN {"setup"} ELSE {}) :
            Commit(Return([syncOnboardingStatus(State, i, procs[i].got) EXCEPT !.u.ready = TRUE, !.u.route = r], i))
  /\ Deliver

-----------------------------------------------------------------------------
(* The user *)

\* The onboarding shell is shown instead of the console.
Onboarding == ~ui.ready \/ ~can_enter_console(ui.status)

Setup == ~Onboarding /\ ui.route = "setup"

Move == moves < MaxMoves /\ moves' = moves + 1 /\ UNCHANGED <<srv, errs>>

\* setOnboardingWorkspacePath, on every change of the path field.
TypePath(p) ==
  /\ Move /\ Onboarding /\ p # ui.path
  /\ Commit([State EXCEPT !.u.path = p])

\* updateGuidedRepo, handleAddGuidedRepo, handleRemoveGuidedRepo, updateGuidedDocsImportsPath.
Edited(f) == [markSetupDirty(State) EXCEPT !.u.form = f, !.u.doctor = "none"]

\* The fields of the repositories, in onboarding and in Setup.
EditForm(f) == Move /\ (Onboarding \/ Setup) /\ f # ui.form /\ Commit(Edited(f))

\* updateManifestContent
EditText(text) ==
  /\ Move /\ Setup /\ text # ui.content
  /\ Commit([markSetupDirty(State) EXCEPT !.u.content = text, !.u.doctor = "none"])

\* handleApplyGuidedWorkspaceSetup: dirty even if the form does not build.
Apply ==
  /\ Move /\ Setup /\ ~ui.busy
  /\ Commit([markSetupDirty(State) EXCEPT !.u.content = IF ui.form = Bad THEN @ ELSE Build(ui.form),
                                          !.u.doctor = "none"])

\* Another runner is chosen in the form.
ChangeRuntime == Move /\ (Onboarding \/ Setup) /\ Commit([State EXCEPT !.u.doctor = "none"])

\* A button calls a handler, which runs up to its first await.
Click(st, i, p) ==
  /\ Move /\ ~ui.busy /\ Idle(i)
  /\ Commit(Continue([st EXCEPT !.p[i] = p, !.u.busy = @ \/ p.op \in Exclusive \cup Saves], i, p.todo))

Select(i) ==
  /\ Onboarding /\ ui.path # None
  /\ Click(State, i, [Handler("select", <<"select">>) EXCEPT !.ws = ui.path])

\* handleOpenRecentWorkspace: any workspace may be in the list of recent ones.
OpenRecent(i, w) ==
  /\ Onboarding
  /\ Click([State EXCEPT !.u.path = w], i, [Handler("select", <<"select">>) EXCEPT !.ws = w])

ForgetRecent(i) == Onboarding /\ Click(State, i, Handler("forget", <<"forget">>))

\* buildRepoDiagnostics: rows the shell itself finds wrong.  A repository the API complains
\* about blocks the button too, until the next edit: here it may or may not.
hasRepoDraftErrors == ui.form = Bad

\* handleSaveGuidedWorkspaceSetup up to its request; a form that does not build ends it.
BeginSave(i, op) ==
  LET text == Build(ui.form)
      st   == [State EXCEPT !.u.doctor = "none"]
  IN IF ui.form = Bad THEN Move /\ ~ui.busy /\ Commit(st)
     ELSE Click([markSetupDirty(st) EXCEPT !.u.content = text], i,
                [Handler(op, <<"put">>) EXCEPT !.sent = text, !.cur = TRUE])

\* The sources step of onboarding.
SaveSources(i) == Onboarding /\ ui.status.ws # None /\ ~hasRepoDraftErrors /\ BeginSave(i, "sources")

\* The guided form of Setup.
SaveGuided(i) == Setup /\ BeginSave(i, "guided")

SaveRaw(i) ==
  /\ Setup
  /\ Click(State, i, [Handler("raw", <<"put">>) EXCEPT !.sent = ui.content, !.cur = TRUE])

SaveRuntime(i) == Onboarding /\ ui.status.ws # None /\ Click(State, i, Handler("runtime", <<"runtime">>))

sourcesReady == ui.valid = "ok" /\ ~hasRepoDraftErrors

\* The console is entered as it is, or (handleOnboardingCreateFirstTask) for a first Task,
\* whose button also waits for a readiness check.
EnterConsole(i, firstTask) ==
  /\ Onboarding /\ can_enter_console(ui.status) /\ sourcesReady
  /\ firstTask => ui.doctor = "ok"
  /\ Click(State, i, Handler("enter", <<"status">>))

Validate(i) == Setup /\ Click(State, i, Handler("validate", <<"validate">>))

Doctor(i) ==
  /\ Setup \/ (Onboarding /\ ui.status.ws # None)
  /\ Click(State, i, Handler("doctor", <<"doctor">>))

\* The saves and resets of timeouts, execution profile and permissions.
SaveSettings(i) == Setup /\ Click(State, i, Handler("settings", <<"settings", "quiet">>))

\* The save and the reset of the providers' models.
SaveModels(i) == Setup /\ Click(State, i, Handler("models", <<"models">>))

\* handleConsoleRefresh
Refresh(i) == ~Onboarding /\ Click(State, i, Handler("refresh", <<"status">>))

\* navigateRoute and the browser's history between Setup and the other pages.
Navigate ==
  /\ Move /\ ~Onboarding
  /\ Commit([State EXCEPT !.u.route = IF @ = "setup" THEN "other" ELSE "setup"])

FreshUI(r) ==
  [path |-> None, restored |-> None, content |-> Empty, form |-> Sample, dirty |-> FALSE, unsaved |-> FALSE,
   valid |-> "none", doctor |-> "none", busy |-> FALSE, status |-> NoStatus, ready |-> FALSE, route |-> r,
   loading |-> 0, validating |-> 0]

Booting == [i \in Procs |-> IF \A j \in Procs : i <= j THEN [Free EXCEPT !.op = "boot", !.todo = <<"status">>] ELSE Free]

\* The page is loaded again; its requests are gone, localStorage is not.
Reload ==
  /\ Move /\ ui' = FreshUI(ui.route) /\ procs' = Booting
  /\ UNCHANGED drafts

-----------------------------------------------------------------------------

Init ==
  /\ \E w \in Present \cup {None}, rt \in BOOLEAN :
       srv = [ws |-> w, runtime |-> rt, manifest |-> [v \in Workspaces |-> IF v \in Present THEN Build(Stored) ELSE Empty]]
  /\ \E r \in {"setup", "other"} : ui = FreshUI(r)
  /\ drafts = [w \in Workspaces |-> None]
  /\ procs = Booting
  /\ moves = 0 /\ errs = MaxErrors

Reply(i) ==
  \/ DeliverStatus(i) \/ DeliverSelect(i) \/ DeliverLoad(i) \/ DeliverValidate(i) \/ DeliverQuiet(i)
  \/ DeliverSave(i) \/ DeliverDoctor(i) \/ DeliverSettings(i) \/ DeliverModels(i) \/ DeliverEnter(i)

User ==
  \/ \E p \in Workspaces \cup {None} : TypePath(p)
  \/ \E f \in Forms \cup {Bad} : EditForm(f)
  \/ \E text \in Texts \cup {Empty} : EditText(text)
  \/ Apply \/ ChangeRuntime \/ Navigate \/ Reload
  \/ \E i \in Procs :
       \/ Select(i) \/ (\E w \in Workspaces : OpenRecent(i, w)) \/ ForgetRecent(i)
       \/ SaveSources(i) \/ SaveGuided(i) \/ SaveRaw(i) \/ SaveRuntime(i) \/ SaveSettings(i) \/ SaveModels(i)
       \/ Validate(i) \/ Doctor(i) \/ Refresh(i) \/ (\E firstTask \in BOOLEAN : EnterConsole(i, firstTask))

Next == User \/ \E i \in Procs : Serve(i) \/ Fail(i) \/ Reply(i)

Spec == Init /\ [][Next]_vars

\* The service answers every request and the page's event loop takes every answer.
Fairness == \A i \in Procs : WF_vars(Serve(i)) /\ WF_vars(Reply(i))

LiveSpec == Spec /\ Fairness

-----------------------------------------------------------------------------
(* Properties *)

\* Every variable keeps its type; in particular a loaded manifest without repositories never
\* empties the guided form (parseGuidedSetupFromManifest and the reducer's replace).
TypeOK ==
  /\ srv \in [ws : Workspaces \cup {None}, runtime : BOOLEAN, manifest : [Workspaces -> Texts \cup {Empty}]]
  /\ ui.path \in Workspaces \cup {None} /\ ui.restored \in Workspaces \cup {None}
  /\ ui.content \in Texts \cup {Empty} /\ ui.form \in Forms \cup {Bad}
  /\ {ui.dirty, ui.unsaved, ui.busy, ui.ready} \subseteq BOOLEAN
  /\ {ui.valid, ui.doctor} \subseteq {"none", "ok", "bad"}
  /\ {ui.loading, ui.validating} \subseteq Procs \cup {0}
  /\ drafts \in [Workspaces -> Drafts \cup {None}]
  /\ DOMAIN procs = Procs /\ moves \in 0..MaxMoves /\ errs \in 0..MaxErrors

\* Whatever order edits, restores, loads and saves come in, an editor that calls its text
\* unsaved has exactly that text and form stored as the draft of its workspace
\* (useManifestEditor's two effects): closing the page loses nothing.
UnsavedIsStored == ui.unsaved /\ ui.path # None => drafts[ui.path] = DraftOf(ui)

\* Types, with the form that never empties, and the stored draft (useManifestEditor).
EditorInv == TypeOK /\ UnsavedIsStored

\* While the editor has unsaved edits, their stored draft disappears only at the end of a save
\* that sent this draft's text, and a guided save also this draft's form: edits made while the
\* save was under way keep their draft (isCurrentManifestSave).
ClearedIsSaved ==
  [][\A w \in Workspaces :
       ui.unsaved /\ ui.path = w /\ drafts'[w] = None
         => \E i \in Procs :
              /\ procs[i].op \in Saves /\ Got(i, "check") /\ procs[i].got # Failed
              /\ procs[i].sent = drafts[w].content
              /\ procs[i].op \in Guided => Build(drafts[w].form) = procs[i].sent]_vars

\* The page never stays busy: every handler that takes the flag, or its validation, gives it
\* back after an answer, an error or a newer validation (the finally blocks of App and
\* useManifestEditor).
BusyEnds == ui.busy ~> ~ui.busy
=============================================================================
