---------------------------- MODULE Publication ----------------------------
(***************************************************************************)
(* Publishing a workspace: the Publish page of the web console             *)
(* (ui/src/hooks/useGitActions, useGitDiff, features/publish), the API's   *)
(* Git mutations (internal/api/server.go) and the journal that links them  *)
(* to a Task's Attempt across a crash (internal/api/task_publication.go).  *)
(*                                                                         *)
(* The page loads the Git inventory, has the user confirm it, and posts    *)
(* its fingerprint.  The API, holding the admission lock, compares the     *)
(* fingerprint, writes an intent, runs git, links the Attempt and clears   *)
(* the intent.  Runs and people in a terminal write the same working tree. *)
(* An Attempt stands for the exact Task/Attempt/run triple.                *)
(***************************************************************************)
EXTENDS Integers, Sequences, Functions

CONSTANTS
  Attempts,     \* Attempts whose run succeeded
  None,         \* no Attempt, no diff, no handler, no answer yet
  Messages,     \* commit messages
  Trees,        \* contents of the working tree
  Main,         \* the branch of the repository
  Proposal,     \* the proposal branch's name
  MaxCommits,   \* bound: commits
  MaxMoves,     \* bound: events of users, runs and other programs
  MaxFaults,    \* bound: failing calls and lost answers
  MaxCrashes    \* bound: crashes of the service

ASSUME PublicationConstants ==
  /\ None \notin Attempts /\ Main # Proposal /\ Messages # {}
  /\ None \notin [action : {"commit", "branch"}, commit : Nat, branch : {Main, Proposal}]
  /\ MaxCommits \in Nat \ {0} /\ MaxMoves \in Nat /\ MaxFaults \in Nat /\ MaxCrashes \in Nat

VARIABLES
  git,      \* the repository: branch, heads, commits, working tree
  journal,  \* acp-publication-journal.json: pending intents, numbered in the order they were written
  links,    \* registry: Attempt -> its publication
  up,       \* the service runs
  active,   \* a run is active or queued
  handler,  \* the Git mutation being handled, under the admission lock
  post,     \* the page's mutation request
  ui,       \* state of the page
  moves, faults, crashes,
  forgotten \* (history variable) commits whose intent was cleared by a later mutation that failed

vars == <<git, journal, links, up, active, handler, post, ui, moves, faults, crashes, forgotten>>

Branches == {Main, Proposal}

Actions == {"commit", "branch"}

HeadOf(g) == g.heads[g.branch]

\* collectWorkspaceGitState: branch, HEAD and every changed file.
Fingerprint == [branch |-> git.branch, head |-> HeadOf(git), work |-> git.work]

Dirty == git.work # git.commits[HeadOf(git)].tree

-----------------------------------------------------------------------------
(* The Git inventory *)

\* deriveGitWorkspaceState, for a request without a fingerprint.
deriveGitWorkspaceState == IF active THEN "blocked" ELSE IF Dirty THEN "dirty" ELSE "clean"

\* A page asks for the whole workspace, or for the selected run's part of it.
BeginLoad(u, why, full) == [u EXCEPT !.diff = None, !.load = [why |-> why, full |-> full, got |-> None]]

\* Mutant of Superseded: the answer of a superseded load is dropped without ending its handler.
SupersededHangs(u) == u

\* What a handler awaiting the inventory does when a newer request takes the gate: preparing
\* fails, and after a mutation the dialog closes.
Superseded(u) ==
  CASE u.load = None -> u
    [] u.load # None /\ u.load.why = "page" -> u
    [] OTHER -> [u EXCEPT !.busy = FALSE, !.conf = IF u.load.why = "after" THEN None ELSE @]

\* The answer of handleGitDiff: a fingerprint of the whole tree, its state, and the scope.
Inventory(full) == [fp |-> Fingerprint, state |-> deriveGitWorkspaceState, full |-> full]

\* getGitDiff
ServeDiff ==
  /\ up /\ ui.load # None /\ ui.load.got = None
  /\ ui' = [ui EXCEPT !.load.got = Inventory(ui.load.full)]
  /\ UNCHANGED <<git, journal, links, up, active, handler, post, moves, faults, crashes, forgotten>>

\* loadGitDiff of the page's effects and buttons.
DeliverDiff ==
  /\ ui.load # None /\ ui.load.why = "page" /\ ui.load.got # None
  /\ ui' = [ui EXCEPT !.diff = ui.load.got, !.load = None]
  /\ UNCHANGED <<git, journal, links, up, active, handler, post, moves, faults, crashes, forgotten>>

\* The inventory request fails: nothing is shown, and preparing reports an error.
DiffFails ==
  /\ ui.load # None /\ (faults > 0 \/ ~up)
  /\ ui' = [Superseded(ui) EXCEPT !.load = None]
  /\ faults' = IF up THEN faults - 1 ELSE faults
  /\ UNCHANGED <<git, journal, links, up, active, handler, post, moves, crashes, forgotten>>

-----------------------------------------------------------------------------
(* The page *)

Move ==
  /\ moves < MaxMoves /\ moves' = moves + 1
  /\ UNCHANGED <<journal, links, up, faults, crashes, forgotten>>

\* The address changes to another view or Attempt; the effects of App load its inventory.
Navigate(view, ctx) ==
  /\ Move /\ <<view, ctx>> # <<ui.view, ui.ctx>>
  /\ LET to == [ui EXCEPT !.view = view, !.ctx = ctx]
     IN ui' = IF view # ui.view THEN BeginLoad(Superseded(to), "page", view = "publish") ELSE to
  /\ UNCHANGED <<git, active, handler, post>>

\* The console has selected the address's run and loaded its review and evidence; every page
\* but Publish then loads that run's part of the inventory.
Reviewed ==
  /\ ui.sel # ui.ctx
  /\ LET to == [ui EXCEPT !.sel = ui.ctx]
     IN ui' = IF ui.view = "publish" THEN to ELSE BeginLoad(Superseded(to), "page", FALSE)
  /\ UNCHANGED <<git, journal, links, up, active, handler, post, moves, faults, crashes, forgotten>>

\* The page's buttons: refreshing the inventory, or showing a file's diff, of the whole workspace.
LoadDiff ==
  /\ Move /\ ui.view = "publish"
  /\ ui' = BeginLoad(Superseded(ui), "page", TRUE)
  /\ UNCHANGED <<git, active, handler, post>>

\* The message is typed, or replaced by the effect that names a fake run's commit.
EditMessage(m) ==
  /\ Move /\ ui.view = "publish" /\ m # ui.msg
  /\ ui' = [ui EXCEPT !.msg = m]
  /\ UNCHANGED <<git, active, handler, post>>

\* hasAuthoritativeFullWorkspaceDiff
Authoritative(d) == d # None /\ d.full /\ d.state # "blocked"

\* buildPublishContextGateItems: an Attempt is published with its own run's evidence loaded.
ContextGate == ui.ctx = None \/ ui.sel = ui.ctx

\* buildPublishGateItems: the inventory is the whole workspace's, and not blocked.
InventoryGate == Authoritative(ui.diff)

GateOpen == ContextGate /\ InventoryGate

gitMutationDisabled == ui.busy \/ ~GateOpen \/ ~Authoritative(ui.diff)

commitDisabled == gitMutationDisabled \/ ui.diff.state = "clean"

\* prepareGitConfirmation up to its await, for a button the page enables.
Prepare(action) ==
  /\ Move /\ ui.view = "publish" /\ ui.conf = None
  /\ ~(IF action = "commit" THEN commitDisabled ELSE gitMutationDisabled)
  /\ ui' = [BeginLoad(Superseded(ui), action, TRUE) EXCEPT !.busy = TRUE]
  /\ UNCHANGED <<git, active, handler, post>>

\* The rest of prepareGitConfirmation: the dialog opens on an actionable inventory.
DeliverPrepare ==
  /\ ui.load # None /\ ui.load.why \in Actions /\ ui.load.got # None
  /\ LET d  == ui.load.got
         ok == d.state # "blocked" /\ (ui.load.why = "commit" => d.state = "dirty")
     IN ui' = [ui EXCEPT !.diff = d, !.load = None, !.busy = FALSE,
                         !.conf = IF ok THEN [action |-> ui.load.why, fp |-> d.fp, state |-> d.state] ELSE None]
  /\ UNCHANGED <<git, journal, links, up, active, handler, post, moves, faults, crashes, forgotten>>

Cancel ==
  /\ Move /\ ui.conf # None /\ ~ui.busy
  /\ ui' = [ui EXCEPT !.conf = None]
  /\ UNCHANGED <<git, active, handler, post>>

\* confirmGitAction: the dialog's inventory, with the message and the context of this moment.
Confirm ==
  /\ Move /\ ui.conf # None /\ ~ui.busy /\ post = None
  /\ post' = [action |-> ui.conf.action, fp |-> ui.conf.fp, msg |-> ui.msg, ctx |-> ui.ctx, sent |-> FALSE, ans |-> None]
  /\ ui' = [ui EXCEPT !.busy = TRUE]
  /\ UNCHANGED <<git, active, handler>>

\* The page gets its answer, or loses it: the inventory is loaded again after a success only.
DeliverPost ==
  /\ post # None
  /\ post' = None
  /\ \/ /\ post.ans = "ok" /\ UNCHANGED faults
        /\ ui' = BeginLoad(Superseded(ui), "after", TRUE)
     \/ /\ post.ans = "error" /\ UNCHANGED faults
        /\ ui' = [ui EXCEPT !.busy = FALSE, !.conf = None]
     \/ /\ faults > 0 /\ faults' = faults - 1
        /\ ui' = [ui EXCEPT !.busy = FALSE, !.conf = None]
  /\ UNCHANGED <<git, journal, links, up, active, handler, moves, crashes, forgotten>>

DeliverAfter ==
  /\ ui.load # None /\ ui.load.why = "after" /\ ui.load.got # None
  /\ ui' = [ui EXCEPT !.diff = ui.load.got, !.load = None, !.busy = FALSE, !.conf = None]
  /\ UNCHANGED <<git, journal, links, up, active, handler, post, moves, faults, crashes, forgotten>>

-----------------------------------------------------------------------------
(* handleGitCommit and handleGitProposalBranch *)

Ours == UNCHANGED <<ui, moves, crashes>>

Reply(a) == post' = IF post # None /\ post.sent THEN [post EXCEPT !.ans = a] ELSE post

\* Mutant of Confirmed: only HEAD is compared.
ConfirmedHead(fp) == Fingerprint.head = fp.head

Confirmed(fp) == Fingerprint = fp

\* The handler takes the lock and checks the request.
Take ==
  /\ up /\ handler = None /\ post # None /\ ~post.sent
  /\ IF active \/ ~Confirmed(post.fp)
       THEN post' = [post EXCEPT !.sent = TRUE, !.ans = "error"] /\ UNCHANGED handler
       ELSE /\ post' = [post EXCEPT !.sent = TRUE]
            /\ handler' = [pc |-> IF post.ctx = None THEN "git" ELSE "prepare", action |-> post.action, ctx |-> post.ctx,
                           msg |-> post.msg, fp |-> post.fp, raced |-> FALSE]
  /\ Ours /\ UNCHANGED <<git, journal, links, up, active, faults, forgotten>>

Intent(hd) == [att |-> hd.ctx, action |-> hd.action, msg |-> hd.msg, before |-> hd.fp]

Journaled(x) == \E i \in DOMAIN journal : journal[i] = x

\* The number after the last one; an intent is written only for a confirmation, which is a move.
IsNext(n) == (\A i \in DOMAIN journal : i < n) /\ (n = 1 \/ n - 1 \in DOMAIN journal)

\* prepareTaskPublication: the same intent is written once.
WriteIntent ==
  /\ handler # None /\ handler.pc = "prepare"
  /\ \/ Journaled(Intent(handler)) /\ UNCHANGED journal
     \/ /\ ~Journaled(Intent(handler))
        /\ \E n \in 1..MaxMoves :
             /\ IsNext(n)
             /\ journal' = [i \in DOMAIN journal \cup {n} |-> IF i = n THEN Intent(handler) ELSE journal[i]]
  /\ handler' = [handler EXCEPT !.pc = "git"]
  /\ Ours /\ UNCHANGED <<git, links, up, active, post, faults, forgotten>>

Committed(g, msg, by, raced) ==
  [g EXCEPT !.commits = Append(@, [parent |-> HeadOf(g), msg |-> msg, tree |-> g.work, by |-> by, on |-> g.branch, raced |-> raced]),
            !.heads[g.branch] = Len(g.commits) + 1]

\* git checkout -b, or git checkout of a branch that is there.
CheckedOut(g, b) == [g EXCEPT !.branch = b, !.heads[b] = IF @ = 0 THEN HeadOf(g) ELSE @]

\* git add and git commit, or git checkout.
Mutate ==
  /\ handler # None /\ handler.pc = "git"
  /\ IF handler.action = "commit"
       THEN Dirty /\ Len(git.commits) < MaxCommits /\ git' = Committed(git, handler.msg, handler.ctx, handler.raced)
       ELSE git' = CheckedOut(git, Proposal)
  /\ IF handler.ctx = None THEN handler' = None /\ Reply("ok")
     ELSE handler' = [handler EXCEPT !.pc = "record"] /\ UNCHANGED post
  /\ Ours /\ UNCHANGED <<journal, links, up, active, faults, forgotten>>

\* clearTaskPublicationIntent: every intent of this Attempt and action.
Cleared(j, a, action) == Restrict(j, {i \in DOMAIN j : j[i].att # a \/ j[i].action # action})

Linked(c) == LET a == git.commits[c].by IN links[a] # None /\ links[a].commit = c

\* The mutation handled is a commit for an Attempt whose last commit waits for its link.
ClearsUnlinked ==
  /\ handler.action = "commit" /\ handler.ctx # None
  /\ git.commits[HeadOf(git)].by = handler.ctx /\ ~Linked(HeadOf(git))

\* git fails, or has nothing to commit: the intents are cleared, an earlier commit's with them.
MutateFails ==
  /\ handler # None /\ handler.pc = "git"
  /\ \/ handler.action = "commit" /\ ~Dirty /\ UNCHANGED faults
     \/ faults > 0 /\ faults' = faults - 1
  /\ journal' = Cleared(journal, handler.ctx, handler.action)
  /\ forgotten' = IF ClearsUnlinked THEN forgotten \cup {HeadOf(git)} ELSE forgotten
  /\ handler' = None
  /\ Reply(IF faults' = faults THEN "ok" ELSE "error")
  /\ Ours /\ UNCHANGED <<git, links, up, active>>

Publication(action) == [action |-> action, commit |-> HeadOf(git), branch |-> git.branch]

\* Mutant of Record: the intent is cleared before the link is stored.
RecordAfterClear ==
  /\ handler # None /\ handler.pc = "record"
  /\ IF Journaled(Intent(handler))
       THEN journal' = Cleared(journal, handler.ctx, handler.action) /\ UNCHANGED <<links, handler>>
       ELSE /\ links' = [links EXCEPT ![handler.ctx] = Publication(handler.action)]
            /\ handler' = [handler EXCEPT !.pc = "clear"] /\ UNCHANGED journal
  /\ Ours /\ UNCHANGED <<git, up, active, post, faults, forgotten>>

\* recordTaskPublication: the registry first, then the journal.
Record ==
  /\ handler # None /\ handler.pc = "record"
  /\ links' = [links EXCEPT ![handler.ctx] = Publication(handler.action)]
  /\ handler' = [handler EXCEPT !.pc = "clear"]
  /\ Ours /\ UNCHANGED <<git, journal, up, active, post, faults, forgotten>>

Clear ==
  /\ handler # None /\ handler.pc = "clear"
  /\ journal' = Cleared(journal, handler.ctx, handler.action)
  /\ handler' = None /\ Reply("ok")
  /\ Ours /\ UNCHANGED <<git, links, up, active, faults, forgotten>>

\* The journal or the registry cannot be written, or the new state cannot be read.
StoreFails ==
  /\ handler # None /\ handler.pc \in {"prepare", "record", "clear"}
  /\ faults > 0 /\ faults' = faults - 1
  /\ handler' = None /\ Reply("error")
  /\ Ours /\ UNCHANGED <<git, journal, links, up, active, forgotten>>

-----------------------------------------------------------------------------
(* Crash and restart *)

Crash ==
  /\ up /\ crashes < MaxCrashes /\ crashes' = crashes + 1
  /\ up' = FALSE /\ active' = FALSE /\ handler' = None
  /\ post' = IF post = None \/ post.ans # None THEN post ELSE [post EXCEPT !.sent = TRUE, !.ans = "error"]
  /\ UNCHANGED <<git, journal, links, ui, moves, faults, forgotten>>

\* pendingPublicationWasApplied
Applied(x) ==
  LET c == HeadOf(git) IN
  IF x.action = "branch" THEN git.branch = Proposal /\ c = x.before.head
  ELSE /\ git.branch = x.before.branch /\ c # x.before.head
       /\ git.commits[c].parent = x.before.head /\ git.commits[c].msg = x.msg

\* reconcilePendingTaskPublications links the first intent the repository proves.
Restart ==
  /\ ~up /\ up' = TRUE
  /\ LET proved == {i \in DOMAIN journal : Applied(journal[i])}
         first  == CHOOSE i \in proved : \A j \in proved : i <= j
     IN IF proved = {} THEN UNCHANGED <<journal, links>>
        ELSE LET x == journal[first] IN
             /\ links' = [links EXCEPT ![x.att] = Publication(x.action)]
             /\ journal' = Cleared(journal, x.att, x.action)
  /\ UNCHANGED <<git, active, handler, post, ui, moves, faults, crashes, forgotten>>

-----------------------------------------------------------------------------
(* Runs and other programs *)

\* Mutant of StartRun: admission does not take the lock.
StartRunUnlocked ==
  /\ Move /\ up /\ ~active
  /\ active' = TRUE
  /\ UNCHANGED <<git, handler, post, ui>>

\* A run is admitted under the lock the Git mutations hold.
StartRun ==
  /\ Move /\ up /\ handler = None /\ ~active
  /\ active' = TRUE
  /\ UNCHANGED <<git, handler, post, ui>>

FinishRun ==
  /\ active /\ active' = FALSE
  /\ UNCHANGED <<git, journal, links, up, handler, post, ui, moves, faults, crashes, forgotten>>

\* The run, or somebody's editor, writes the working tree.
Edit(tree) ==
  /\ Move /\ tree # git.work
  /\ git' = [git EXCEPT !.work = tree]
  /\ handler' = IF handler = None THEN None ELSE [handler EXCEPT !.raced = TRUE]
  /\ UNCHANGED <<active, post, ui>>

\* Somebody commits in a terminal.
ForeignCommit(m) ==
  /\ Move /\ Dirty /\ Len(git.commits) < MaxCommits
  /\ git' = Committed(git, m, None, FALSE)
  /\ handler' = IF handler = None THEN None ELSE [handler EXCEPT !.raced = TRUE]
  /\ UNCHANGED <<active, post, ui>>

-----------------------------------------------------------------------------

Init ==
  /\ \E w \in Trees :
       git = [branch |-> Main, heads |-> [b \in Branches |-> IF b = Main THEN 1 ELSE 0], work |-> w,
              commits |-> <<[parent |-> 0, msg |-> CHOOSE m \in Messages : TRUE, tree |-> CHOOSE t \in Trees : TRUE,
                             by |-> None, on |-> Main, raced |-> FALSE]>>]
  /\ journal = <<>> /\ links = [a \in Attempts |-> None] /\ forgotten = {}
  /\ up = TRUE /\ active = FALSE /\ handler = None /\ post = None
  /\ \E c \in Attempts \cup {None} :
       ui = [view |-> "publish", ctx |-> c, sel |-> None, diff |-> None, conf |-> None, busy |-> FALSE, msg |-> CHOOSE m \in Messages : TRUE,
             load |-> [why |-> "page", full |-> TRUE, got |-> None]]
  /\ moves = 0 /\ faults = MaxFaults /\ crashes = 0

Page ==
  \/ \E view \in {"publish", "other"}, ctx \in Attempts \cup {None} : Navigate(view, ctx)
  \/ LoadDiff
  \/ \E m \in Messages : EditMessage(m)
  \/ \E action \in Actions : Prepare(action)
  \/ Cancel \/ Confirm

Deliver == DeliverDiff \/ DiffFails \/ DeliverPrepare \/ DeliverPost \/ DeliverAfter

Handle == Take \/ WriteIntent \/ Mutate \/ MutateFails \/ Record \/ Clear \/ StoreFails

Others == StartRun \/ FinishRun \/ (\E t \in Trees : Edit(t)) \/ (\E m \in Messages : ForeignCommit(m))

Next == Page \/ Reviewed \/ ServeDiff \/ Deliver \/ Handle \/ Crash \/ Restart \/ Others

Spec == Init /\ [][Next]_vars

\* The service is restarted and answers, and the page takes what arrives.
Fairness == WF_vars(ServeDiff) /\ WF_vars(Deliver) /\ WF_vars(Handle) /\ WF_vars(Restart)

LiveSpec == Spec /\ Fairness

-----------------------------------------------------------------------------
(* Properties *)

Prints == [branch : Branches, head : 1..MaxCommits, work : Trees]

Inventories == [fp : Prints, state : {"blocked", "dirty", "clean"}, full : BOOLEAN]

Loads == [why : Actions \cup {"page", "after"}, full : BOOLEAN, got : Inventories \cup {None}]

\* What a dialog may show: never a blocked inventory, and never a clean one to commit.
Dialogs == [action : Actions, fp : Prints, state : {"dirty", "clean"}]

Handlers == [pc : {"prepare", "git", "record", "clear"}, action : Actions,
             ctx : Attempts \cup {None}, msg : Messages, fp : Prints, raced : BOOLEAN]

\* Every variable keeps its type; in particular an open dialog shows an inventory that may be
\* published (prepareGitConfirmation), and only a Task's mutation goes through the journal.
TypeOK ==
  /\ git.branch \in Branches /\ git.heads \in [Branches -> 0..MaxCommits] /\ git.work \in Trees
  /\ HeadOf(git) # 0 /\ Len(git.commits) \in 1..MaxCommits
  /\ {up, active, ui.busy} \subseteq BOOLEAN
  /\ {ui.ctx, ui.sel} \subseteq Attempts \cup {None}
  /\ ui.load \in Loads \cup {None}
  /\ ui.conf \in Dialogs \cup {None} /\ (ui.conf # None /\ ui.conf.action = "commit" => ui.conf.state = "dirty")
  /\ handler \in Handlers \cup {None} /\ (handler # None /\ handler.pc # "git" => handler.ctx # None)

\* A Git mutation and a run never overlap: while a mutation is handled nothing is active or
\* queued, whichever of the two was asked for first (admissionMu and HasInFlightRun).
MutationExcludesRuns == handler # None => ~active

\* Types, with what an open dialog may show, and the exclusion of runs (handleGitCommit).
PublicationInv == TypeOK /\ MutationExcludesRuns

\* A commit the API makes holds exactly the branch, parent and files the user confirmed,
\* however long ago the dialog was opened; only a program that writes between the
\* handler's check and git add can slip something in (handleGitCommit's fingerprint).
CommittedIsConfirmed ==
  [][handler # None /\ handler.pc = "git" /\ Len(git'.commits) > Len(git.commits)
       /\ ~handler.raced /\ git'.commits[Len(git'.commits)].by = handler.ctx /\ moves' = moves
       => LET c == git'.commits[Len(git'.commits)]
          IN [branch |-> git'.branch, head |-> c.parent, work |-> c.tree] = handler.fp]_vars

\* The link of a published Attempt is not lost by a crash or a failing write: while a commit
\* made for an Attempt is the HEAD of the branch it was made on and no mutation is in progress,
\* the Attempt is linked to it, or its intent is still in the journal and the next start will
\* accept it (prepareTaskPublication, recordTaskPublication, pendingPublicationWasApplied).  A
\* commit another program raced with is neither confirmed nor recoverable, and one is forgotten
\* when the user tries again and git fails (clearTaskPublicationIntent).
LinkIsRecoverable ==
  LET c == HeadOf(git)
      a == git.commits[c].by
  IN up /\ handler = None /\ a # None /\ git.branch = git.commits[c].on
       /\ ~git.commits[c].raced /\ c \notin forgotten
       => \/ Linked(c)
          \/ \E i \in DOMAIN journal :
                journal[i].att = a /\ journal[i].action = "commit" /\ Applied(journal[i])

\* The page never stays busy: preparing, confirming and reloading all end, also when another
\* load takes their gate or their answer is lost (useGitActions, useGitDiff).
BusyEnds == ui.busy ~> ~ui.busy

\* A link carries the exact Attempt that initiated its commit: reconciling an intent left by a
\* crash (reconcilePendingTaskPublications, pendingPublicationWasApplied) never attaches a
\* commit made for another Attempt.
LinkIsExact ==
  \A a \in Attempts : links[a] # None /\ links[a].action = "commit" => git.commits[links[a].commit].by \in {a, None}
=============================================================================
