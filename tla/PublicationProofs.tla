------------------------- MODULE PublicationProofs -------------------------
(***************************************************************************)
(* Proofs about publishing, for any Attempts, messages and files and any   *)
(* number of commits, faults and crashes: what the API commits is what the *)
(* user confirmed, a Git mutation and a run never overlap, and the link of *)
(* a commit survives crashes and failing writes.                           *)
(***************************************************************************)
EXTENDS Publication, WellFoundedInduction, TLAPS

AttemptOrNone == Attempts \cup {None}

Page0 == [view : {"publish", "other"}, ctx : AttemptOrNone, sel : AttemptOrNone,
          diff : Inventories \cup {None}, conf : Dialogs \cup {None}, busy : BOOLEAN,
          msg : Messages, load : Loads \cup {None}]

Posts == [action : Actions, fp : Prints, msg : Messages, ctx : AttemptOrNone,
          sent : BOOLEAN, ans : {"ok", "error"} \cup {None}]

Commits == [parent : 0..MaxCommits, msg : Messages, tree : Trees, by : AttemptOrNone,
            on : Branches, raced : BOOLEAN]

Repositories == [branch : Branches, heads : [Branches -> 0..MaxCommits], work : Trees,
                 commits : Seq(Commits)]

\* A repository whose branch has a commit, within the bound on commits.
GitOK(g) == g \in Repositories /\ HeadOf(g) # 0 /\ Len(g.commits) \in 1..MaxCommits

\* A page whose dialog shows nothing clean to commit.
PageOK(u) ==
  /\ u \in Page0
  /\ u.conf # None /\ u.conf.action = "commit" => u.conf.state = "dirty"

\* A handler that writes the journal has an Attempt to write it for.
HandlerOK(h) == h \in Handlers \cup {None} /\ (h # None /\ h.pc # "git" => h.ctx # None)

\* Until git runs, the repository is what the user confirmed, unless another program wrote.
StillConfirmed(h, print) ==
  h # None /\ h.pc \in {"prepare", "git"} /\ ~h.raced => h.fp = print

\* The inductive invariant: types, the admission lock, and the confirmation that still holds.
PubInv ==
  /\ GitOK(git) /\ PageOK(ui) /\ HandlerOK(handler)
  /\ post \in Posts \cup {None}
  /\ up \in BOOLEAN /\ active \in BOOLEAN /\ moves \in Nat
  /\ MutationExcludesRuns
  /\ StillConfirmed(handler, Fingerprint)

-----------------------------------------------------------------------------
\* What the service reads of a repository.
LEMMA ReadOK ==
  ASSUME GitOK(git), active \in BOOLEAN
  PROVE  Fingerprint \in Prints /\ \A full \in BOOLEAN : Inventory(full) \in Inventories
  <1>1. HeadOf(git) \in 1..MaxCommits /\ git.branch \in Branches /\ git.work \in Trees
    BY PublicationConstants DEF GitOK, Repositories, HeadOf
  <1>2. Fingerprint \in Prints BY <1>1 DEF Fingerprint, Prints
  <1>3. deriveGitWorkspaceState \in {"blocked", "dirty", "clean"} BY DEF deriveGitWorkspaceState
  <1> QED BY <1>2, <1>3 DEF Inventory, Inventories

\* A handler that loses the gate, and a load that takes it, leave a proper page.
LEMMA SupersededOK == ASSUME NEW u, PageOK(u) PROVE PageOK(Superseded(u))
  <1>1. CASE u.load = None \/ u.load.why = "page"
    BY <1>1 DEF Superseded
  <1>2. CASE ~(u.load = None \/ u.load.why = "page")
    <2> DEFINE c == IF u.load.why = "after" THEN None ELSE u.conf
    <2>1. Superseded(u) = [u EXCEPT !.busy = FALSE, !.conf = c]
      BY <1>2 DEF Superseded
    <2>2. c \in {u.conf, None} OBVIOUS
    <2> HIDE DEF c
    <2>3. Superseded(u) \in Page0 /\ Superseded(u).conf = c
      BY <2>1, <2>2 DEF PageOK, Page0
    <2> QED BY <2>2, <2>3 DEF PageOK
  <1> QED BY <1>1, <1>2

LEMMA BeginLoadOK ==
  ASSUME NEW u, PageOK(u), NEW why \in Actions \cup {"page", "after"}, NEW full \in BOOLEAN
  PROVE  PageOK(BeginLoad(u, why, full))
  <1> DEFINE l == [why |-> why, full |-> full, got |-> None]
  <1>1. l \in Loads BY DEF Loads
  <1>2. BeginLoad(u, why, full) = [u EXCEPT !.diff = None, !.load = l] BY DEF BeginLoad
  <1> HIDE DEF l
  <1> QED BY <1>1, <1>2 DEF PageOK, Page0

\* An answer of the handler changes nothing of the request but its answer.
LEMMA ReplyOK ==
  ASSUME NEW a \in {"ok", "error"}, post \in Posts \cup {None}, Reply(a)
  PROVE  post' \in Posts \cup {None}
  BY DEF Reply, Posts

\* A commit of the working tree.
LEMMA CommittedOK ==
  ASSUME NEW g, GitOK(g), NEW msg \in Messages, NEW by \in AttemptOrNone, NEW raced \in BOOLEAN,
         Len(g.commits) < MaxCommits
  PROVE  LET n == Committed(g, msg, by, raced)
         IN /\ GitOK(n) /\ n.branch = g.branch /\ Len(n.commits) = Len(g.commits) + 1
            /\ n.commits[Len(n.commits)].parent = HeadOf(g)
            /\ n.commits[Len(n.commits)].tree = g.work
  <1> DEFINE c == [parent |-> HeadOf(g), msg |-> msg, tree |-> g.work, by |-> by,
                   on |-> g.branch, raced |-> raced]
             k == Len(g.commits) + 1
             hs == [g.heads EXCEPT ![g.branch] = k]
             n == [g EXCEPT !.commits = Append(g.commits, c), !.heads = hs]
  <1>1. g \in Repositories /\ HeadOf(g) \in 0..MaxCommits /\ k \in 1..MaxCommits
    BY PublicationConstants DEF GitOK, Repositories, HeadOf
  <1>2. c \in Commits /\ c.parent = HeadOf(g) /\ c.tree = g.work
    BY <1>1 DEF Commits, Repositories
  <1>3. Committed(g, msg, by, raced) = n BY DEF Committed
  <1> HIDE DEF c
  <1>4. Append(g.commits, c) \in Seq(Commits) /\ Len(Append(g.commits, c)) = k
        /\ Append(g.commits, c)[k] = c
    BY <1>1, <1>2 DEF Repositories
  <1>a. hs \in [Branches -> 0..MaxCommits] /\ hs[g.branch] = k
    BY <1>1 DEF Repositories
  <1> HIDE DEF k, hs
  <1>5. n \in Repositories /\ n.commits = Append(g.commits, c) /\ n.branch = g.branch
        /\ n.heads[n.branch] = k
    BY <1>1, <1>4, <1>a DEF Repositories
  <1> HIDE DEF n
  <1>6. HeadOf(n) # 0 /\ Len(n.commits) \in 1..MaxCommits BY <1>1, <1>4, <1>5 DEF HeadOf
  <1> QED BY <1>2, <1>3, <1>4, <1>5, <1>6 DEF k, GitOK

LEMMA CheckedOutOK ==
  ASSUME NEW g, GitOK(g), NEW b \in Branches
  PROVE  GitOK(CheckedOut(g, b)) /\ CheckedOut(g, b).commits = g.commits
  <1> DEFINE h == IF g.heads[b] = 0 THEN HeadOf(g) ELSE g.heads[b]
             hs == [g.heads EXCEPT ![b] = h]
             n == [g EXCEPT !.branch = b, !.heads = hs]
  <1>1. h \in 1..MaxCommits
    BY PublicationConstants DEF GitOK, Repositories, HeadOf
  <1>2. CheckedOut(g, b) = n BY DEF CheckedOut
  <1> HIDE DEF h
  <1>a. hs \in [Branches -> 0..MaxCommits] /\ hs[b] = h
    BY <1>1 DEF GitOK, Repositories
  <1> HIDE DEF hs
  <1>3. n \in Repositories /\ n.commits = g.commits /\ n.heads[n.branch] = h
    BY <1>a DEF GitOK, Repositories
  <1> HIDE DEF n
  <1>4. HeadOf(n) # 0 BY <1>1, <1>3 DEF HeadOf
  <1> QED BY <1>2, <1>3, <1>4 DEF GitOK

-----------------------------------------------------------------------------
LEMMA PubInit == Init => PubInv
  <1> SUFFICES ASSUME Init PROVE PubInv
    OBVIOUS
  <1> DEFINE first == [parent |-> 0, msg |-> CHOOSE m \in Messages : TRUE,
                       tree |-> CHOOSE t \in Trees : TRUE, by |-> None, on |-> Main, raced |-> FALSE]
  <1>1. PICK w \in Trees :
          git = [branch |-> Main, heads |-> [b \in Branches |-> IF b = Main THEN 1 ELSE 0],
                 work |-> w, commits |-> <<first>>]
    BY DEF Init
  <1>2. (CHOOSE m \in Messages : TRUE) \in Messages /\ (CHOOSE t \in Trees : TRUE) \in Trees
    BY PublicationConstants
  <1>3. first \in Commits /\ Main \in Branches
    BY <1>2, PublicationConstants DEF Commits, AttemptOrNone, Branches
  <1> HIDE DEF first
  <1>4. <<first>> \in Seq(Commits) /\ Len(<<first>>) = 1 BY <1>3
  <1>5. GitOK(git)
    BY <1>1, <1>3, <1>4, PublicationConstants DEF GitOK, Repositories, HeadOf
  <1>6. PICK c \in AttemptOrNone :
          ui = [view |-> "publish", ctx |-> c, sel |-> None, diff |-> None, conf |-> None,
                busy |-> FALSE, msg |-> CHOOSE m \in Messages : TRUE,
                load |-> [why |-> "page", full |-> TRUE, got |-> None]]
    BY DEF Init, AttemptOrNone
  <1>7. PageOK(ui) BY <1>2, <1>6 DEF PageOK, Page0, Loads, AttemptOrNone
  <1> QED
    BY <1>5, <1>7 DEF Init, PubInv, HandlerOK, StillConfirmed, MutationExcludesRuns

\* Steps of the page alone: the repository, the service and the lock are left as they are.
LEMMA PageAlone ==
  ASSUME PubInv, PageOK(ui'), post' \in Posts \cup {None}, moves' \in Nat,
         UNCHANGED <<git, up, active, handler>>
  PROVE  PubInv'
  BY DEF PubInv, GitOK, HandlerOK, StillConfirmed, Fingerprint, MutationExcludesRuns, HeadOf

LEMMA PageStep == ASSUME PubInv, Page PROVE PubInv'
  <1>0. PageOK(ui) /\ PageOK(Superseded(ui)) /\ moves \in Nat /\ post \in Posts \cup {None}
    BY SupersededOK DEF PubInv
  <1>1. CASE \E view \in {"publish", "other"}, ctx \in Attempts \cup {None} : Navigate(view, ctx)
    <2>1. PICK view \in {"publish", "other"}, ctx \in Attempts \cup {None} : Navigate(view, ctx)
      BY <1>1
    <2> DEFINE to == [ui EXCEPT !.view = view, !.ctx = ctx]
    <2>2. PageOK(to) BY <1>0 DEF PageOK, Page0, AttemptOrNone
    <2>3. ui' = to \/ ui' = BeginLoad(Superseded(to), "page", view = "publish")
      BY <2>1 DEF Navigate
    <2> HIDE DEF to
    <2>4. PageOK(ui') BY <2>2, <2>3, SupersededOK, BeginLoadOK
    <2> QED BY <1>0, <2>1, <2>4, PageAlone DEF Navigate, Move
  <1>2. CASE LoadDiff
    <2>1. PageOK(ui') BY <1>0, <1>2, BeginLoadOK DEF LoadDiff
    <2> QED BY <1>0, <1>2, <2>1, PageAlone DEF LoadDiff, Move
  <1>3. CASE \E m \in Messages : EditMessage(m)
    <2>1. PageOK(ui') BY <1>0, <1>3 DEF EditMessage, PageOK, Page0
    <2> QED BY <1>0, <1>3, <2>1, PageAlone DEF EditMessage, Move
  <1>4. CASE \E action \in Actions : Prepare(action)
    <2>1. PICK action \in Actions : Prepare(action) BY <1>4
    <2> DEFINE l == BeginLoad(Superseded(ui), action, TRUE)
    <2>2. PageOK(l) BY <1>0, BeginLoadOK
    <2>3. ui' = [l EXCEPT !.busy = TRUE] BY <2>1 DEF Prepare
    <2> HIDE DEF l
    <2>4. PageOK(ui') BY <2>2, <2>3 DEF PageOK, Page0
    <2> QED BY <1>0, <2>1, <2>4, PageAlone DEF Prepare, Move
  <1>5. CASE Cancel
    <2>1. PageOK(ui') BY <1>0, <1>5 DEF Cancel, PageOK, Page0
    <2> QED BY <1>0, <1>5, <2>1, PageAlone DEF Cancel, Move
  <1>6. CASE Confirm
    <2>1. PageOK(ui') BY <1>0, <1>6 DEF Confirm, PageOK, Page0
    <2>2. post' \in Posts
      <3>1. ui.conf \in Dialogs BY <1>0, <1>6 DEF Confirm, PageOK, Page0
      <3> QED BY <1>0, <1>6, <3>1 DEF Confirm, PageOK, Page0, Dialogs, Posts
    <2> QED BY <1>0, <1>6, <2>1, <2>2, PageAlone DEF Confirm, Move
  <1> QED BY <1>1, <1>2, <1>3, <1>4, <1>5, <1>6 DEF Page

LEMMA DeliverStep == ASSUME PubInv, Deliver \/ Reviewed \/ ServeDiff PROVE PubInv'
  <1>0. /\ PageOK(ui) /\ PageOK(Superseded(ui)) /\ moves \in Nat /\ post \in Posts \cup {None}
        /\ ui.load # None => ui.load \in Loads
    BY SupersededOK DEF PubInv, PageOK, Page0
  <1>1. CASE Reviewed
    <2> DEFINE to == [ui EXCEPT !.sel = ui.ctx]
    <2>1. PageOK(to) BY <1>0 DEF PageOK, Page0
    <2>2. ui' = to \/ ui' = BeginLoad(Superseded(to), "page", FALSE)
      BY <1>1 DEF Reviewed
    <2> HIDE DEF to
    <2>3. PageOK(ui') BY <2>1, <2>2, SupersededOK, BeginLoadOK
    <2> QED BY <1>0, <1>1, <2>3, PageAlone DEF Reviewed
  <1>2. CASE ServeDiff
    <2>1. Inventory(ui.load.full) \in Inventories
      BY <1>0, <1>2, ReadOK DEF ServeDiff, Loads, PubInv
    <2>2. ui' = [ui EXCEPT !.load.got = Inventory(ui.load.full)] /\ ui.load # None
      BY <1>2 DEF ServeDiff
    <2>3. PageOK(ui') BY <1>0, <2>1, <2>2 DEF PageOK, Page0, Loads
    <2> QED BY <1>0, <1>2, <2>3, PageAlone DEF ServeDiff
  <1>3. CASE DeliverDiff
    <2>1. PageOK(ui') BY <1>0, <1>3 DEF DeliverDiff, PageOK, Page0, Loads
    <2> QED BY <1>0, <1>3, <2>1, PageAlone DEF DeliverDiff
  <1>4. CASE DiffFails
    <2> DEFINE s == Superseded(ui)
    <2>1. ui' = [s EXCEPT !.load = None] BY <1>4 DEF DiffFails
    <2>2. PageOK(s) BY <1>0
    <2> HIDE DEF s
    <2>3. PageOK(ui') BY <2>1, <2>2 DEF PageOK, Page0
    <2> QED BY <1>0, <1>4, <2>3, PageAlone DEF DiffFails
  <1>5. CASE DeliverPrepare
    <2> DEFINE d == ui.load.got
               c == IF d.state # "blocked" /\ (ui.load.why = "commit" => d.state = "dirty")
                      THEN [action |-> ui.load.why, fp |-> d.fp, state |-> d.state] ELSE None
    <2>1. d \in Inventories /\ ui.load.why \in Actions
      BY <1>0, <1>5 DEF DeliverPrepare, Loads
    <2>2. ui' = [ui EXCEPT !.diff = d, !.load = None, !.busy = FALSE, !.conf = c]
      BY <1>5 DEF DeliverPrepare
    <2>3. c \in Dialogs \cup {None} /\ (c # None /\ c.action = "commit" => c.state = "dirty")
      BY <2>1 DEF Dialogs, Inventories
    <2> HIDE DEF c, d
    <2>4. PageOK(ui') BY <1>0, <2>1, <2>2, <2>3 DEF PageOK, Page0
    <2> QED BY <1>0, <1>5, <2>4, PageAlone DEF DeliverPrepare
  <1>6. CASE DeliverPost
    <2>1. ui' = BeginLoad(Superseded(ui), "after", TRUE)
          \/ ui' = [ui EXCEPT !.busy = FALSE, !.conf = None]
      BY <1>6 DEF DeliverPost
    <2>2. PageOK([ui EXCEPT !.busy = FALSE, !.conf = None]) BY <1>0 DEF PageOK, Page0
    <2>3. PageOK(ui') BY <1>0, <2>1, <2>2, BeginLoadOK
    <2> QED BY <1>0, <1>6, <2>3, PageAlone DEF DeliverPost
  <1>7. CASE DeliverAfter
    <2>1. PageOK(ui') BY <1>0, <1>7 DEF DeliverAfter, PageOK, Page0, Loads
    <2> QED BY <1>0, <1>7, <2>1, PageAlone DEF DeliverAfter
  <1> QED BY <1>1, <1>2, <1>3, <1>4, <1>5, <1>6, <1>7 DEF Deliver

\* Steps of the API's handler: the page and the runs are left as they are.
LEMMA HandlerAlone ==
  ASSUME PubInv, GitOK(git'), HandlerOK(handler'), post' \in Posts \cup {None},
         handler' # None => handler # None \/ ~active,
         StillConfirmed(handler', Fingerprint'), UNCHANGED <<up, active, ui, moves>>
  PROVE  PubInv'
  BY DEF PubInv, MutationExcludesRuns, PageOK

LEMMA HandleStep == ASSUME PubInv, Handle PROVE PubInv'
  <1>0. /\ GitOK(git) /\ HandlerOK(handler) /\ post \in Posts \cup {None} /\ active \in BOOLEAN
        /\ StillConfirmed(handler, Fingerprint) /\ (handler # None => handler \in Handlers)
    BY DEF PubInv, HandlerOK
  <1>1. ASSUME UNCHANGED git PROVE GitOK(git') /\ Fingerprint' = Fingerprint
    BY <1>0, <1>1 DEF GitOK, Fingerprint, HeadOf
  <1>2. CASE Take
    <2>1. post \in Posts /\ UNCHANGED <<git, up, active, ui, moves>>
      BY <1>0, <1>2 DEF Take, Ours
    <2>2. CASE UNCHANGED handler
      <3>1. post' \in Posts BY <1>2, <2>1, <2>2 DEF Take, Posts
      <3> QED BY <1>0, <1>1, <2>1, <2>2, <3>1, HandlerAlone DEF HandlerOK, StillConfirmed
    <2>3. CASE ~(active \/ ~Confirmed(post.fp))
      <3>1. post' \in Posts /\ Fingerprint = post.fp BY <1>2, <2>1, <2>3 DEF Take, Posts, Confirmed
      <3>2. handler' = [pc |-> IF post.ctx = None THEN "git" ELSE "prepare", action |-> post.action,
                        ctx |-> post.ctx, msg |-> post.msg, fp |-> post.fp, raced |-> FALSE]
        BY <1>2, <2>3 DEF Take
      <3>3. HandlerOK(handler') BY <2>1, <3>2 DEF HandlerOK, Handlers, Posts, AttemptOrNone
      <3>4. StillConfirmed(handler', Fingerprint') BY <1>1, <2>1, <3>1, <3>2 DEF StillConfirmed
      <3> QED BY <1>1, <2>1, <2>3, <3>1, <3>3, <3>4, HandlerAlone
    <2> QED BY <1>2, <2>2, <2>3 DEF Take
  <1>3. CASE WriteIntent
    <2>1. /\ handler \in Handlers /\ handler.pc = "prepare" /\ handler' = [handler EXCEPT !.pc = "git"]
          /\ UNCHANGED <<git, up, active, post, ui, moves>>
      BY <1>0, <1>3 DEF WriteIntent, Ours
    <2>2. handler' \in Handlers /\ handler'.pc = "git" /\ handler'.fp = handler.fp
          /\ handler'.raced = handler.raced
      BY <2>1 DEF Handlers
    <2>3. HandlerOK(handler') BY <2>2 DEF HandlerOK
    <2>4. StillConfirmed(handler', Fingerprint')
      BY <1>0, <1>1, <1>3, <2>1, <2>2 DEF StillConfirmed, WriteIntent
    <2> QED BY <1>0, <1>1, <1>3, <2>1, <2>3, <2>4, HandlerAlone DEF WriteIntent
  <1>4. CASE Mutate
    <2>1. handler \in Handlers /\ handler # None /\ handler.pc = "git" /\ UNCHANGED <<up, active, ui, moves>>
      BY <1>0, <1>4 DEF Mutate, Ours
    <2>2. GitOK(git')
      <3>1. CASE handler.action = "commit"
        <4>1. /\ handler.msg \in Messages /\ handler.ctx \in AttemptOrNone
              /\ handler.raced \in BOOLEAN
          BY <2>1 DEF Handlers, AttemptOrNone
        <4>2. /\ Len(git.commits) < MaxCommits
              /\ git' = Committed(git, handler.msg, handler.ctx, handler.raced)
          BY <1>4, <3>1 DEF Mutate
        <4> QED BY <1>0, <4>1, <4>2, CommittedOK
      <3>2. CASE handler.action # "commit"
        <4>1. Proposal \in Branches BY DEF Branches
        <4> QED BY <1>0, <1>4, <3>2, <4>1, CheckedOutOK DEF Mutate
      <3> QED BY <3>1, <3>2
    <2>3. CASE handler.ctx = None
      <3>1. handler' = None /\ post' \in Posts \cup {None}
        BY <1>0, <1>4, <2>3, ReplyOK DEF Mutate
      <3> QED BY <2>1, <2>2, <3>1, HandlerAlone DEF HandlerOK, StillConfirmed
    <2>4. CASE handler.ctx # None
      <3>1. handler' = [handler EXCEPT !.pc = "record"] /\ post' = post
        BY <1>4, <2>4 DEF Mutate
      <3>2. handler' \in Handlers /\ handler'.pc = "record" /\ handler'.ctx # None
        BY <2>1, <2>4, <3>1 DEF Handlers
      <3> QED BY <1>0, <2>1, <2>2, <3>1, <3>2, HandlerAlone DEF HandlerOK, StillConfirmed
    <2> QED BY <2>3, <2>4
  <1>5. CASE MutateFails
    <2>1. handler' = None /\ post' \in Posts \cup {None} /\ UNCHANGED <<git, up, active, ui, moves>>
      <3>1. Reply("ok") \/ Reply("error") BY <1>5 DEF MutateFails
      <3> QED BY <1>0, <1>5, <3>1, ReplyOK DEF MutateFails, Ours
    <2> QED BY <1>1, <2>1, HandlerAlone DEF HandlerOK, StillConfirmed
  <1>6. CASE Record
    <2>1. /\ handler \in Handlers /\ handler # None /\ handler.pc = "record"
          /\ handler' = [handler EXCEPT !.pc = "clear"]
          /\ UNCHANGED <<git, up, active, post, ui, moves>>
      BY <1>0, <1>6 DEF Record, Ours
    <2>2. handler' \in Handlers /\ handler'.pc = "clear" /\ handler'.ctx = handler.ctx
      BY <2>1 DEF Handlers
    <2>3. handler.ctx # None BY <1>0, <2>1 DEF HandlerOK
    <2> QED BY <1>0, <1>1, <2>1, <2>2, <2>3, HandlerAlone DEF HandlerOK, StillConfirmed
  <1>7. CASE Clear \/ StoreFails
    <2>1. handler' = None /\ post' \in Posts \cup {None} /\ UNCHANGED <<git, up, active, ui, moves>>
      <3>1. Reply("ok") \/ Reply("error") BY <1>7 DEF Clear, StoreFails
      <3> QED BY <1>0, <1>7, <3>1, ReplyOK DEF Clear, StoreFails, Ours
    <2> QED BY <1>1, <2>1, HandlerAlone DEF HandlerOK, StillConfirmed
  <1> QED BY <1>2, <1>3, <1>4, <1>5, <1>6, <1>7 DEF Handle

LEMMA ServiceStep == ASSUME PubInv, Crash \/ Restart \/ StartRun \/ FinishRun PROVE PubInv'
  <1>1. UNCHANGED <<git, ui>> /\ GitOK(git') /\ PageOK(ui') /\ Fingerprint' = Fingerprint
    BY DEF Crash, Restart, StartRun, FinishRun, Move, PubInv, GitOK, PageOK, Fingerprint, HeadOf
  <1>2. CASE Crash
    <2>1. post' \in Posts \cup {None} BY <1>2 DEF Crash, PubInv, Posts
    <2> QED BY <1>1, <1>2, <2>1 DEF Crash, PubInv, HandlerOK, StillConfirmed, MutationExcludesRuns
  <1>3. CASE Restart
    <2>1. up' = TRUE /\ UNCHANGED <<active, handler, post, moves>> BY <1>3 DEF Restart
    <2> QED BY <1>1, <2>1 DEF PubInv, HandlerOK, StillConfirmed, MutationExcludesRuns
  <1>4. CASE FinishRun
    <2>1. active' = FALSE /\ UNCHANGED <<up, handler, post, moves>> BY <1>4 DEF FinishRun
    <2> QED BY <1>1, <2>1 DEF PubInv, HandlerOK, StillConfirmed, MutationExcludesRuns
  <1>5. CASE StartRun
    <2>1. handler = None /\ active' = TRUE /\ moves' = moves + 1 /\ UNCHANGED <<up, handler, post>>
      BY <1>5 DEF StartRun, Move
    <2> QED BY <1>1, <2>1 DEF PubInv, HandlerOK, StillConfirmed, MutationExcludesRuns
  <1> QED BY <1>2, <1>3, <1>4, <1>5

LEMMA OthersStep ==
  ASSUME PubInv, (\E t \in Trees : Edit(t)) \/ (\E m \in Messages : ForeignCommit(m))
  PROVE  PubInv'
  <1>1. /\ handler' = IF handler = None THEN None ELSE [handler EXCEPT !.raced = TRUE]
        /\ moves' = moves + 1 /\ UNCHANGED <<up, active, post, ui>>
    BY DEF Edit, ForeignCommit, Move
  <1>2. GitOK(git')
    <2>1. CASE \E t \in Trees : Edit(t)
      <3>1. PICK t \in Trees : git' = [git EXCEPT !.work = t] BY <2>1 DEF Edit
      <3> QED BY <3>1 DEF PubInv, GitOK, Repositories, HeadOf
    <2>2. CASE \E m \in Messages : ForeignCommit(m)
      <3>1. None \in AttemptOrNone BY DEF AttemptOrNone
      <3> QED BY <2>2, <3>1, CommittedOK DEF ForeignCommit, PubInv
    <2> QED BY <2>1, <2>2
  <1>3. HandlerOK(handler') /\ StillConfirmed(handler', Fingerprint')
    <2>1. CASE handler = None BY <1>1, <2>1 DEF HandlerOK, StillConfirmed
    <2>2. CASE handler # None
      <3>1. handler \in Handlers /\ (handler.pc # "git" => handler.ctx # None)
        BY <2>2 DEF PubInv, HandlerOK
      <3>2. handler' \in Handlers /\ handler'.raced = TRUE /\ handler'.pc = handler.pc
            /\ handler'.ctx = handler.ctx
        BY <1>1, <2>2, <3>1 DEF Handlers
      <3> QED BY <3>1, <3>2 DEF HandlerOK, StillConfirmed
    <2> QED BY <2>1, <2>2
  <1>4. MutationExcludesRuns' BY <1>1 DEF PubInv, MutationExcludesRuns
  <1> QED BY <1>1, <1>2, <1>3, <1>4 DEF PubInv, PageOK

LEMMA PubStep == PubInv /\ [Next]_vars => PubInv'
  <1> SUFFICES ASSUME PubInv, [Next]_vars PROVE PubInv'
    OBVIOUS
  <1>1. CASE Page BY <1>1, PageStep
  <1>2. CASE Deliver \/ Reviewed \/ ServeDiff BY <1>2, DeliverStep
  <1>3. CASE Handle BY <1>3, HandleStep
  <1>4. CASE Crash \/ Restart \/ StartRun \/ FinishRun BY <1>4, ServiceStep
  <1>5. CASE (\E t \in Trees : Edit(t)) \/ (\E m \in Messages : ForeignCommit(m))
    BY <1>5, OthersStep
  <1>6. CASE UNCHANGED vars
    BY <1>6 DEF vars, PubInv, GitOK, HeadOf, PageOK, HandlerOK, StillConfirmed, Fingerprint,
                MutationExcludesRuns
  <1> QED BY <1>1, <1>2, <1>3, <1>4, <1>5, <1>6 DEF Next, Others

LEMMA PubInvHolds == Spec => []PubInv
  BY PubInit, PubStep, PTL DEF Spec

(* Publishing keeps its types, a dialog never offers a blocked or an empty commit, and *)
(* a Git mutation never overlaps a run (prepareGitConfirmation, admissionMu).          *)
THEOREM PublicationIsSafe == Spec => []PublicationInv
  <1>1. PubInv => PublicationInv
    <2> SUFFICES ASSUME PubInv PROVE TypeOK /\ MutationExcludesRuns
      BY DEF PublicationInv
    <2>1. git.branch \in Branches /\ git.heads \in [Branches -> 0..MaxCommits] /\ git.work \in Trees
          /\ HeadOf(git) # 0 /\ Len(git.commits) \in 1..MaxCommits
      BY DEF PubInv, GitOK, Repositories
    <2>2. /\ ui.busy \in BOOLEAN /\ ui.ctx \in Attempts \cup {None} /\ ui.sel \in Attempts \cup {None}
          /\ ui.load \in Loads \cup {None} /\ ui.conf \in Dialogs \cup {None}
          /\ ui.conf # None /\ ui.conf.action = "commit" => ui.conf.state = "dirty"
      BY DEF PubInv, PageOK, Page0, AttemptOrNone
    <2> QED BY <2>1, <2>2 DEF PubInv, HandlerOK, TypeOK
  <1> QED BY <1>1, PubInvHolds, PTL

(* What the API commits for a Task has exactly the branch, the parent and the files    *)
(* that the user confirmed, unless another program wrote after handleGitCommit's check. *)
THEOREM CommitsAreConfirmed == Spec => CommittedIsConfirmed
  <1> DEFINE c == git'.commits[Len(git'.commits)]
             Promise == handler # None /\ handler.pc = "git" /\ Len(git'.commits) > Len(git.commits)
                          /\ ~handler.raced /\ c.by = handler.ctx /\ moves' = moves
                        => [branch |-> git'.branch, head |-> c.parent, work |-> c.tree] = handler.fp
  <1>1. PubInv /\ [Next]_vars => [Promise]_vars
    <2> SUFFICES ASSUME PubInv, [Next]_vars, handler # None, handler.pc = "git", ~handler.raced,
                        Len(git'.commits) > Len(git.commits), moves' = moves
                 PROVE  [branch |-> git'.branch, head |-> c.parent, work |-> c.tree] = handler.fp
      OBVIOUS
    <2>1. GitOK(git) /\ Len(git.commits) \in Nat /\ moves \in Nat /\ handler \in Handlers
      BY PublicationConstants DEF PubInv, GitOK, HandlerOK
    <2>2. git' # git BY <2>1
    <2>3. Mutate
      <3>1. ~Page
        BY <2>2 DEF Page, Navigate, LoadDiff, EditMessage, Prepare, Cancel, Confirm
      <3>2. ~Deliver /\ ~Reviewed /\ ~ServeDiff
        BY <2>2 DEF Deliver, DeliverDiff, DiffFails, DeliverPrepare, DeliverPost, DeliverAfter,
                    Reviewed, ServeDiff
      <3>3. Handle => Mutate
        BY <2>2 DEF Handle, Take, WriteIntent, MutateFails, Record, Clear, StoreFails
      <3>4. ~Crash /\ ~Restart /\ ~UNCHANGED vars
        BY <2>2 DEF Crash, Restart, vars
      <3>5. ~Others
        <4>1. ~Move BY <2>1 DEF Move
        <4>2. ~StartRun /\ ~FinishRun BY <2>2 DEF StartRun, FinishRun
        <4>3. \A t : ~Edit(t) BY <4>1 DEF Edit
        <4>4. \A m : ~ForeignCommit(m) BY <4>1 DEF ForeignCommit
        <4> QED BY <4>2, <4>3, <4>4 DEF Others
      <3> QED BY <3>1, <3>2, <3>3, <3>4, <3>5 DEF Next
    <2>4. handler.action = "commit"
      <3>1. Proposal \in Branches BY DEF Branches
      <3>2. handler.action # "commit" => git'.commits = git.commits
        BY <2>1, <2>3, <3>1, CheckedOutOK DEF Mutate
      <3> QED BY <2>1, <3>2
    <2>5. git'.branch = git.branch /\ c.parent = HeadOf(git) /\ c.tree = git.work
      <3> DEFINE n == Committed(git, handler.msg, handler.ctx, handler.raced)
      <3>1. git' = n /\ Len(git.commits) < MaxCommits BY <2>3, <2>4 DEF Mutate
      <3>2. handler.msg \in Messages /\ handler.ctx \in AttemptOrNone /\ handler.raced \in BOOLEAN
        BY <2>1 DEF Handlers, AttemptOrNone
      <3>3. /\ n.branch = git.branch
            /\ n.commits[Len(n.commits)].parent = HeadOf(git)
            /\ n.commits[Len(n.commits)].tree = git.work
        BY <2>1, <3>1, <3>2, CommittedOK
      <3> HIDE DEF n
      <3> QED BY <3>1, <3>3
    <2>6. handler.fp = Fingerprint BY DEF PubInv, StillConfirmed
    <2> QED BY <2>5, <2>6 DEF Fingerprint
  <1>2. Spec => [][Promise]_vars BY <1>1, PubInvHolds, PTL DEF Spec
  <1> QED BY <1>2 DEF CommittedIsConfirmed

-----------------------------------------------------------------------------
(* The link of a commit *)

\* A link, or the intent that the next start will turn into one.
Kept(c) ==
  \/ Linked(c)
  \/ \E i \in DOMAIN journal :
       journal[i].att = git.commits[c].by /\ journal[i].action = "commit" /\ Applied(journal[i])

\* The commit was made for an Attempt on the branch where it is the HEAD, nothing raced with it,
\* and its intent was not cleared by a mutation that failed.
Linkable(c) ==
  /\ git.commits[c].by # None /\ git.branch = git.commits[c].on
  /\ ~git.commits[c].raced /\ c \notin forgotten

\* An intent is written before git runs, and the link before the intent is cleared.
HandlerJournals ==
  handler # None =>
    /\ up
    /\ handler.pc = "git" /\ handler.ctx # None => Journaled(Intent(handler))
    /\ handler.pc = "clear" /\ git.commits[HeadOf(git)].by = handler.ctx => Linked(HeadOf(git))

\* The main branch is left once, so its HEAD is never the HEAD of the proposal by its commits.
MainFirst ==
  git.branch = Main => git.heads[Proposal] = 0 /\ git.commits[HeadOf(git)].on = Main

\* Every head is a commit of the log.
HeadInLog == \A b \in Branches : git.heads[b] <= Len(git.commits)

\* The journal is ordered, and its intents are of actions the API knows.
JournalOrdered == \A i \in DOMAIN journal : i \in Nat /\ journal[i].action \in Actions

\* What makes LinkIsRecoverable inductive: it holds while a mutation is handled, and in a crash.
LinkInv ==
  /\ DOMAIN links = Attempts
  /\ HeadInLog
  /\ JournalOrdered
  /\ HandlerJournals
  /\ MainFirst
  /\ Linkable(HeadOf(git)) => Kept(HeadOf(git))

\* The HEAD of the repository and what is known of it.
LEMMA HeadTyped ==
  ASSUME GitOK(git)
  PROVE  /\ HeadOf(git) \in 1..MaxCommits /\ git.branch \in Branches
         /\ git \in Repositories /\ MaxCommits \in Nat /\ Main # Proposal
  BY PublicationConstants DEF GitOK, Repositories, HeadOf

\* The HEAD is a commit by an Attempt or by somebody else.
LEMMA CommitTyped ==
  ASSUME GitOK(git), HeadInLog
  PROVE  git.commits[HeadOf(git)] \in Commits
  <1>1. HeadOf(git) \in 1..Len(git.commits)
    <2>1. HeadOf(git) \in Nat /\ HeadOf(git) # 0 /\ git.branch \in Branches
      BY HeadTyped DEF GitOK
    <2>2. HeadOf(git) <= Len(git.commits)
      BY <2>1 DEF HeadInLog, HeadOf
    <2>3. Len(git.commits) \in Nat
      BY HeadTyped DEF GitOK
    <2> QED
      BY <2>1, <2>2, <2>3
  <1> QED
    BY <1>1, HeadTyped DEF Repositories

\* Steps that leave the repository, the journal and the links alone.
LEMMA LinksAlone ==
  ASSUME LinkInv, UNCHANGED <<git, journal, links>>, forgotten \subseteq forgotten',
         handler' # None =>
           /\ up'
           /\ handler'.pc = "git" /\ handler'.ctx # None =>
                \/ handler # None /\ handler.pc = "git" /\ handler.ctx # None
                                  /\ Intent(handler)' = Intent(handler)
                \/ Journaled(Intent(handler'))
           /\ handler'.pc = "clear" =>
                handler # None /\ handler.pc = "clear" /\ handler.ctx = handler'.ctx
  PROVE  LinkInv'
  <1>1. HeadOf(git)' = HeadOf(git) /\ \A c : Linked(c)' = Linked(c)
    BY DEF HeadOf, Linked
  <1>2. \A x : Journaled(x)' = Journaled(x)
    BY DEF Journaled
  <1>3. \A x : Applied(x)' = Applied(x)
    BY DEF Applied, HeadOf
  <1>4. HandlerJournals'
    BY <1>1, <1>2 DEF LinkInv, HandlerJournals, Intent
  <1>5. Kept(HeadOf(git)) => Kept(HeadOf(git))'
    BY <1>1, <1>3 DEF Kept
  <1>6. Linkable(HeadOf(git))' => Linkable(HeadOf(git))
    BY <1>1 DEF Linkable
  <1>7. MainFirst'
    BY <1>1 DEF LinkInv, MainFirst
  <1> QED
    BY <1>1, <1>4, <1>5, <1>6, <1>7 DEF LinkInv, JournalOrdered, HeadInLog

\* The page, the inventory, the runs, a refused or failing handler and a crash leave the links alone.
LEMMA LinksQuiet ==
  ASSUME PubInv, LinkInv,
         \/ Page \/ Deliver \/ Reviewed \/ ServeDiff \/ StartRun \/ FinishRun
         \/ Take \/ StoreFails \/ Crash \/ UNCHANGED vars
  PROVE  LinkInv'
  <1>1. UNCHANGED <<git, journal, links, forgotten>>
    <2>1. CASE Page
      BY <2>1 DEF Page, Navigate, LoadDiff, EditMessage, Prepare, Cancel, Confirm, Move
    <2>2. CASE Deliver \/ Reviewed \/ ServeDiff
      BY <2>2 DEF Deliver, DeliverDiff, DiffFails, DeliverPrepare, DeliverPost, DeliverAfter,
                  Reviewed, ServeDiff
    <2>3. CASE StartRun \/ FinishRun \/ Take \/ StoreFails \/ Crash \/ UNCHANGED vars
      BY <2>3 DEF StartRun, FinishRun, Move, Take, StoreFails, Crash, vars
    <2> QED
      BY <2>1, <2>2, <2>3
  <1>2. CASE UNCHANGED <<handler, up>>
    BY <1>1, <1>2, LinksAlone DEF LinkInv, HandlerJournals, Intent
  <1>3. CASE handler' = None
    BY <1>1, <1>3, LinksAlone
  <1>4. CASE Take /\ handler' # handler
    <2>1. /\ up /\ up' = up
          /\ handler' = [pc |-> IF post.ctx = None THEN "git" ELSE "prepare", action |-> post.action,
                         ctx |-> post.ctx, msg |-> post.msg, fp |-> post.fp, raced |-> FALSE]
      BY <1>4 DEF Take
    <2>2. /\ handler'.pc # "clear"
          /\ handler'.pc = "git" => handler'.ctx = None
      BY <2>1
    <2> QED
      BY <1>1, <2>1, <2>2, LinksAlone
  <1>5. UNCHANGED <<handler, up>> \/ handler' = None \/ (Take /\ handler' # handler)
    <2>1. CASE Page
      BY <2>1 DEF Page, Navigate, LoadDiff, EditMessage, Prepare, Cancel, Confirm, Move
    <2>2. CASE Deliver \/ Reviewed \/ ServeDiff
      BY <2>2 DEF Deliver, DeliverDiff, DiffFails, DeliverPrepare, DeliverPost, DeliverAfter,
                  Reviewed, ServeDiff
    <2>3. CASE StartRun \/ FinishRun \/ Take \/ StoreFails \/ Crash \/ UNCHANGED vars
      BY <2>3 DEF StartRun, FinishRun, Move, Take, StoreFails, Crash, vars
    <2> QED
      BY <2>1, <2>2, <2>3
  <1> QED
    BY <1>2, <1>3, <1>4, <1>5

\* prepareTaskPublication adds the handler's intent to the journal.
LEMMA LinkWriteIntent == ASSUME PubInv, LinkInv, WriteIntent PROVE LinkInv'
  <1>1. /\ UNCHANGED <<git, links, up, forgotten>> /\ handler # None /\ handler.pc = "prepare"
        /\ handler' = [handler EXCEPT !.pc = "git"]
    BY DEF WriteIntent
  <1>2. handler \in Handlers
    BY <1>1 DEF PubInv, HandlerOK
  <1>3. handler'.pc = "git" /\ Intent(handler') = Intent(handler)
    BY <1>1, <1>2 DEF Handlers, Intent
  <1>4. /\ \A i \in DOMAIN journal : i \in DOMAIN journal' /\ journal'[i] = journal[i]
        /\ \E i \in DOMAIN journal' : journal'[i] = Intent(handler)
    <2>1. CASE Journaled(Intent(handler)) /\ UNCHANGED journal
      BY <2>1 DEF Journaled
    <2>2. CASE ~(Journaled(Intent(handler)) /\ UNCHANGED journal)
      <3>1. PICK n \in 1..MaxMoves :
              /\ IsNext(n)
              /\ journal' = [i \in DOMAIN journal \cup {n} |->
                               IF i = n THEN Intent(handler) ELSE journal[i]]
        BY <2>2 DEF WriteIntent
      <3>2. n \notin DOMAIN journal
        BY <3>1 DEF IsNext
      <3> QED
        BY <3>1, <3>2
    <2> QED
      BY <2>1, <2>2
  <1>5. HeadOf(git)' = HeadOf(git) /\ \A c : Linked(c)' = Linked(c)
    BY <1>1 DEF HeadOf, Linked
  <1>6. HandlerJournals'
    <2>1. \E i \in DOMAIN journal' : journal'[i] = Intent(handler')
      BY <1>3, <1>4
    <2> QED
      BY <1>1, <1>3, <2>1 DEF LinkInv, HandlerJournals, Journaled, Intent
  <1>7. Kept(HeadOf(git)) => Kept(HeadOf(git))'
    <2>1. \A x : Applied(x)' = Applied(x)
      BY <1>1 DEF Applied, HeadOf
    <2> QED
      BY <1>1, <1>4, <1>5, <2>1 DEF Kept
  <1>8. Linkable(HeadOf(git))' = Linkable(HeadOf(git)) /\ MainFirst'
    BY <1>1, <1>5 DEF Linkable, LinkInv, MainFirst
  <1>9. JournalOrdered'
    <2>1. Intent(handler).action \in Actions
      BY <1>2 DEF Handlers, Intent
    <2>2. CASE UNCHANGED journal
      BY <2>2 DEF LinkInv, JournalOrdered
    <2>3. CASE \E n \in 1..MaxMoves :
                 journal' = [i \in DOMAIN journal \cup {n} |->
                               IF i = n THEN Intent(handler) ELSE journal[i]]
      BY <2>1, <2>3 DEF LinkInv, JournalOrdered
    <2> QED
      BY <2>2, <2>3 DEF WriteIntent
  <1> QED
    BY <1>1, <1>5, <1>6, <1>7, <1>8, <1>9 DEF LinkInv, HeadInLog

\* Clearing intents of an Attempt and action keeps the others where they are.
LEMMA ClearedKeeps ==
  ASSUME NEW j, NEW a, NEW action
  PROVE  \A i \in DOMAIN j :
           j[i].att # a \/ j[i].action # action =>
             i \in DOMAIN Cleared(j, a, action) /\ Cleared(j, a, action)[i] = j[i]
  BY DEF Cleared, Restrict

\* A journal that was cleared is still ordered.
LEMMA ClearedIsOrdered ==
  ASSUME JournalOrdered, NEW a, NEW action, journal' = Cleared(journal, a, action)
  PROVE  JournalOrdered'
  BY DEF JournalOrdered, Cleared, Restrict

\* An intent of another Attempt or action is cleared: the HEAD keeps what it had.
LEMMA KeptWhenCleared ==
  ASSUME GitOK(git), UNCHANGED git, NEW a, NEW action,
         LET h == git.commits[HeadOf(git)].by
         IN links'[h] = links[h],
         journal' = Cleared(journal, a, action),
         a # git.commits[HeadOf(git)].by \/ action # "commit",
         Kept(HeadOf(git))
  PROVE  Kept(HeadOf(git))'
  <1>1. HeadOf(git)' = HeadOf(git) /\ \A x : Applied(x)' = Applied(x)
    BY DEF HeadOf, Applied
  <1>2. Linked(HeadOf(git)) => Linked(HeadOf(git))'
    BY <1>1 DEF Linked
  <1>3. ASSUME NEW i \in DOMAIN journal, journal[i].att = git.commits[HeadOf(git)].by,
               journal[i].action = "commit", Applied(journal[i])
        PROVE  Kept(HeadOf(git))'
    <2>1. i \in DOMAIN journal' /\ journal'[i] = journal[i]
      BY <1>3, ClearedKeeps
    <2> QED
      BY <1>1, <1>3, <2>1 DEF Kept
  <1> QED
    BY <1>2, <1>3 DEF Kept

\* git fails: another Attempt's commit keeps its intent, an earlier one of this Attempt is forgotten.
LEMMA LinkMutateFails == ASSUME PubInv, LinkInv, MutateFails PROVE LinkInv'
  <1>1. /\ UNCHANGED <<git, links, up>> /\ handler' = None /\ handler # None
        /\ journal' = Cleared(journal, handler.ctx, handler.action)
        /\ forgotten' = IF ClearsUnlinked THEN forgotten \cup {HeadOf(git)} ELSE forgotten
    BY DEF MutateFails
  <1>2. HeadOf(git)' = HeadOf(git) /\ GitOK(git) /\ \A c : Linked(c)' = Linked(c)
    BY <1>1 DEF HeadOf, PubInv, Linked
  <1>3. Linkable(HeadOf(git))' => Kept(HeadOf(git))'
    <2> SUFFICES ASSUME Linkable(HeadOf(git))' PROVE Kept(HeadOf(git))'
      OBVIOUS
    <2>1. ~ClearsUnlinked /\ Linkable(HeadOf(git)) /\ git.commits[HeadOf(git)].by # None
      BY <1>1, <1>2 DEF Linkable
    <2>2. CASE Linked(HeadOf(git))
      BY <1>2, <2>2 DEF Kept
    <2>3. CASE handler.ctx # git.commits[HeadOf(git)].by \/ handler.action # "commit"
      BY <1>1, <1>2, <2>1, <2>3, KeptWhenCleared DEF LinkInv
    <2> QED
      BY <2>1, <2>2, <2>3 DEF ClearsUnlinked
  <1>4. HandlerJournals' /\ MainFirst'
    BY <1>1, <1>2 DEF LinkInv, HandlerJournals, MainFirst
  <1> QED
    BY <1>1, <1>3, <1>4, ClearedIsOrdered DEF LinkInv, HeadInLog

\* recordTaskPublication links the Attempt of the handler to the HEAD.
LEMMA LinkRecord == ASSUME PubInv, LinkInv, Record PROVE LinkInv'
  <1>1. /\ UNCHANGED <<git, journal, up, forgotten>> /\ handler # None /\ handler.pc = "record"
        /\ handler' = [handler EXCEPT !.pc = "clear"]
        /\ links' = [links EXCEPT ![handler.ctx] = Publication(handler.action)]
    BY DEF Record
  <1>2. handler \in Handlers /\ handler.ctx \in Attempts
    BY <1>1 DEF PubInv, HandlerOK, Handlers
  <1>3. handler'.pc = "clear" /\ handler'.ctx = handler.ctx
    BY <1>1, <1>2 DEF Handlers
  <1>4. HeadOf(git)' = HeadOf(git)
    BY <1>1 DEF HeadOf
  <1>5. links'[handler.ctx] # None /\ links'[handler.ctx].commit = HeadOf(git)
    <2>1. HeadOf(git) \in Nat /\ git.branch \in Branches /\ handler.action \in Actions
      BY <1>2, HeadTyped DEF PubInv, Handlers
    <2>2. Publication(handler.action) # None
      BY <2>1, PublicationConstants DEF Publication, Branches, Actions
    <2> QED
      BY <1>1, <1>2, <2>2 DEF LinkInv, Publication
  <1>6. git.commits[HeadOf(git)].by = handler.ctx => Linked(HeadOf(git))'
    BY <1>1, <1>4, <1>5 DEF Linked
  <1>7. Kept(HeadOf(git)) => Kept(HeadOf(git))'
    <2>1. CASE git.commits[HeadOf(git)].by = handler.ctx
      BY <1>6, <2>1 DEF Kept
    <2>2. CASE git.commits[HeadOf(git)].by # handler.ctx
      <3>1. links'[git.commits[HeadOf(git)].by] = links[git.commits[HeadOf(git)].by]
        BY <1>1, <2>2 DEF LinkInv
      <3> QED
        BY <1>1, <1>4, <3>1 DEF Kept, Linked, Applied, HeadOf
    <2> QED
      BY <2>1, <2>2
  <1>8. HandlerJournals' /\ MainFirst'
    BY <1>1, <1>3, <1>4, <1>6 DEF LinkInv, HandlerJournals, MainFirst
  <1>9. Linkable(HeadOf(git))' = Linkable(HeadOf(git)) /\ DOMAIN links' = Attempts
    BY <1>1, <1>4 DEF Linkable, LinkInv
  <1> QED
    BY <1>1, <1>4, <1>7, <1>8, <1>9 DEF LinkInv, JournalOrdered, HeadInLog

\* recordTaskPublication clears the intent of the Attempt it has linked.
LEMMA LinkClear == ASSUME PubInv, LinkInv, Clear PROVE LinkInv'
  <1>1. /\ UNCHANGED <<git, links, up, forgotten>> /\ handler' = None /\ handler # None
        /\ handler.pc = "clear" /\ journal' = Cleared(journal, handler.ctx, handler.action)
    BY DEF Clear
  <1>2. HeadOf(git)' = HeadOf(git) /\ GitOK(git) /\ \A c : Linked(c)' = Linked(c)
    BY <1>1 DEF HeadOf, PubInv, Linked
  <1>3. Kept(HeadOf(git)) => Kept(HeadOf(git))'
    <2>1. CASE git.commits[HeadOf(git)].by = handler.ctx
      BY <1>1, <1>2, <2>1 DEF LinkInv, HandlerJournals, Kept
    <2>2. CASE git.commits[HeadOf(git)].by # handler.ctx
      BY <1>1, <1>2, <2>2, KeptWhenCleared
    <2> QED
      BY <2>1, <2>2
  <1>4. HandlerJournals' /\ MainFirst' /\ Linkable(HeadOf(git))' = Linkable(HeadOf(git))
    BY <1>1, <1>2 DEF LinkInv, HandlerJournals, MainFirst, Linkable
  <1> QED
    BY <1>1, <1>2, <1>3, <1>4, ClearedIsOrdered DEF LinkInv, HeadInLog

\* A nonempty set of numbers has a least one.
LEMMA FirstIsIn ==
  ASSUME NEW S \in SUBSET Nat, S # {}
  PROVE  (CHOOSE i \in S : \A j \in S : i <= j) \in S
  <1>1. PICK m \in S : \A k \in S : ~ (<<k, m>> \in OpToRel(<, Nat))
    BY WFMin, NatLessThanWellFounded, Zenon
  <1>2. \A k \in S : ~ (k < m)
    BY <1>1, Zenon DEF OpToRel
  <1>3. \A k \in S : m <= k
    BY <1>2
  <1> QED
    BY <1>3

\* reconcilePendingTaskPublications links one Attempt and clears its intents only.
LEMMA LinkRestart == ASSUME PubInv, LinkInv, Restart PROVE LinkInv'
  <1> DEFINE proved == {i \in DOMAIN journal : Applied(journal[i])}
             first == CHOOSE i \in proved : \A j \in proved : i <= j
             x == journal[first]
             h == git.commits[HeadOf(git)].by
  <1>1. /\ UNCHANGED <<git, handler, forgotten>> /\ up' = TRUE
        /\ \/ proved = {} /\ UNCHANGED <<journal, links>>
           \/ /\ proved # {}
              /\ links' = [links EXCEPT ![x.att] = Publication(x.action)]
              /\ journal' = Cleared(journal, x.att, x.action)
    BY DEF Restart
  <1>2. handler = None
    BY DEF Restart, LinkInv, HandlerJournals
  <1>3. CASE UNCHANGED <<journal, links>>
    BY <1>1, <1>2, <1>3, LinksAlone
  <1>4. CASE proved # {} /\ links' = [links EXCEPT ![x.att] = Publication(x.action)]
                         /\ journal' = Cleared(journal, x.att, x.action)
    <2>1. x.action \in Actions
      <3>1. proved \in SUBSET Nat
        BY DEF LinkInv, JournalOrdered
      <3>2. first \in proved
        BY <1>4, <3>1, FirstIsIn
      <3> QED
        BY <3>2 DEF LinkInv, JournalOrdered
    <2>2. GitOK(git) /\ HeadOf(git)' = HeadOf(git) /\ HeadOf(git) \in Nat /\ git.branch \in Branches
      BY <1>1, HeadTyped DEF HeadOf, PubInv
    <2>3. Publication(x.action) # None /\ Publication(x.action).commit = HeadOf(git)
      BY <2>1, <2>2, PublicationConstants DEF Publication, Branches, Actions
    <2>4. ASSUME Linkable(HeadOf(git))' PROVE Kept(HeadOf(git))'
      <3>1. Linkable(HeadOf(git)) /\ Kept(HeadOf(git))
        BY <1>1, <2>2, <2>4 DEF Linkable, LinkInv
      <3>2. h \in Attempts
        BY <2>2, <3>1, CommitTyped DEF Linkable, AttemptOrNone, LinkInv, Commits
      <3>3. CASE x.att = h
        <4>1. links'[h] = Publication(x.action)
          BY <1>4, <3>2, <3>3 DEF LinkInv
        <4> HIDE DEF x
        <4>2. Linked(HeadOf(git))'
          BY <1>1, <2>2, <2>3, <4>1 DEF Linked
        <4> QED
          BY <4>2 DEF Kept
      <3>4. CASE x.att # h
        <4>1. links'[h] = links[h]
          BY <1>4, <3>2, <3>4 DEF LinkInv
        <4> HIDE DEF x
        <4> QED
          BY <1>1, <1>4, <2>2, <3>1, <3>4, <4>1, KeptWhenCleared
      <3> QED
        BY <3>3, <3>4
    <2>5. HandlerJournals' /\ MainFirst'
      BY <1>1, <1>2, <2>2 DEF LinkInv, HandlerJournals, MainFirst
    <2>6. JournalOrdered'
      <3> HIDE DEF x
      <3> QED
        BY <1>4, ClearedIsOrdered DEF LinkInv
    <2>7. DOMAIN links' = Attempts
      BY <1>4 DEF LinkInv
    <2> QED
      BY <1>1, <2>4, <2>5, <2>6, <2>7 DEF LinkInv, HeadInLog
  <1> QED
    BY <1>1, <1>3, <1>4

\* The log of a repository after a commit.
LEMMA LogAfterCommit ==
  ASSUME NEW g, GitOK(g), NEW msg, NEW by, NEW raced
  PROVE  LET n == Committed(g, msg, by, raced)
             c == HeadOf(n)
         IN /\ c = Len(g.commits) + 1 /\ n.branch = g.branch
            /\ n.heads = [g.heads EXCEPT ![g.branch] = c]
            /\ Len(n.commits) = c
            /\ n.commits[c] = [parent |-> HeadOf(g), msg |-> msg, tree |-> g.work, by |-> by,
                               on |-> g.branch, raced |-> raced]
  <1> DEFINE r == [parent |-> HeadOf(g), msg |-> msg, tree |-> g.work, by |-> by,
                   on |-> g.branch, raced |-> raced]
             k == Len(g.commits) + 1
             l == Append(g.commits, r)
             n == [g EXCEPT !.commits = l, !.heads[g.branch] = k]
  <1>1. /\ g.commits \in Seq(Commits) /\ Len(g.commits) \in Nat
        /\ g = [branch |-> g.branch, heads |-> g.heads, work |-> g.work, commits |-> g.commits]
        /\ g.heads \in [Branches -> 0..MaxCommits] /\ g.branch \in Branches
    BY DEF GitOK, Repositories
  <1>2. Len(l) = k /\ l[k] = r
    BY <1>1
  <1>3. Committed(g, msg, by, raced) = n
    BY DEF Committed
  <1> HIDE DEF r, l
  <1>4. n.branch = g.branch /\ n.commits = l /\ n.heads = [g.heads EXCEPT ![g.branch] = k]
    BY <1>1
  <1>5. HeadOf(n) = k
    BY <1>1, <1>4 DEF HeadOf
  <1> QED
    BY <1>2, <1>3, <1>4, <1>5 DEF r

\* git commit of the handler: its intent proves the new HEAD.
LEMMA LinkCommit == ASSUME PubInv, LinkInv, Mutate, handler.action = "commit" PROVE LinkInv'
  <1>c. PICK c : c = HeadOf(git)'
    OBVIOUS
  <1>1. /\ UNCHANGED <<journal, links, up, forgotten>> /\ handler # None /\ handler.pc = "git"
        /\ git' = Committed(git, handler.msg, handler.ctx, handler.raced)
    BY DEF Mutate
  <1>2. /\ GitOK(git) /\ handler \in Handlers
        /\ HeadOf(git) \in 0..MaxCommits /\ HeadOf(git) <= Len(git.commits) /\ Len(git.commits) \in Nat
    BY <1>1, HeadTyped DEF PubInv, HandlerOK, LinkInv, HeadInLog, HeadOf, GitOK
  <1>3. /\ c = Len(git.commits) + 1 /\ git'.branch = git.branch
        /\ git'.heads = [git.heads EXCEPT ![git.branch] = c] /\ Len(git'.commits) = c
        /\ git'.commits[c] = [parent |-> HeadOf(git), msg |-> handler.msg, tree |-> git.work,
                              by |-> handler.ctx, on |-> git.branch, raced |-> handler.raced]
    <2>1. PICK n : n = Committed(git, handler.msg, handler.ctx, handler.raced) OBVIOUS
    <2>2. /\ HeadOf(n) = Len(git.commits) + 1 /\ n.branch = git.branch
          /\ n.heads = [git.heads EXCEPT ![git.branch] = HeadOf(n)]
          /\ Len(n.commits) = HeadOf(n)
          /\ n.commits[HeadOf(n)] =
               [parent |-> HeadOf(git), msg |-> handler.msg, tree |-> git.work,
                by |-> handler.ctx, on |-> git.branch, raced |-> handler.raced]
      <3>1. GitOK(git) BY <1>2
      <3> QED BY <2>1, <3>1, LogAfterCommit
    <2>3. git' = n BY <1>1, <2>1
    <2>4. c = HeadOf(n) BY <1>c, <2>3 DEF HeadOf
    <2> QED BY <2>2, <2>3, <2>4
  <1>4. Linkable(c)' => Kept(c)'
    <2> SUFFICES ASSUME handler.ctx # None, ~handler.raced PROVE Kept(c)'
      BY <1>3 DEF Linkable
    <2>x. PICK x : x = Intent(handler)
      OBVIOUS
    <2>1. handler.fp = Fingerprint
      BY <1>1 DEF PubInv, StillConfirmed
    <2>2. PICK i \in DOMAIN journal : journal[i] = x
      BY <1>1, <2>x DEF LinkInv, HandlerJournals, Journaled
    <2>3. /\ x.action = "commit" /\ x.msg = handler.msg /\ x.att = handler.ctx
          /\ x.before.branch = git.branch /\ x.before.head = HeadOf(git)
      BY <2>1, <2>x DEF Intent, Fingerprint
    <2>4. Applied(x)'
      BY <1>c, <1>2, <1>3, <2>3 DEF Applied
    <2> QED
      BY <1>1, <1>3, <2>2, <2>3, <2>4 DEF Kept
  <1>5. HandlerJournals'
    BY <1>1, <1>2 DEF LinkInv, HandlerJournals, Mutate, Handlers
  <1>6. MainFirst' /\ HeadInLog'
    <2>1. git.heads \in [Branches -> 0..MaxCommits] /\ Proposal \in Branches
      BY <1>2 DEF GitOK, Repositories, Branches
    <2>2. HeadInLog'
      BY <1>2, <1>3, <2>1 DEF LinkInv, HeadInLog
    <2>3. MainFirst'
      BY <1>c, <1>3, <2>1, PublicationConstants DEF LinkInv, MainFirst
    <2> QED
      BY <2>2, <2>3
  <1> QED
    BY <1>c, <1>1, <1>4, <1>5, <1>6 DEF LinkInv, JournalOrdered

\* git checkout of the proposal: the HEAD stays, and it is not linkable where it was not made.
LEMMA LinkBranch == ASSUME PubInv, LinkInv, Mutate, handler.action # "commit" PROVE LinkInv'
  <1>1. /\ UNCHANGED <<journal, links, up, forgotten>> /\ handler # None /\ handler.pc = "git"
        /\ git' = CheckedOut(git, Proposal)
        /\ handler' = None \/ (handler' = [handler EXCEPT !.pc = "record"] /\ handler \in Handlers)
    BY DEF Mutate, PubInv, HandlerOK
  <1>2. /\ GitOK(git) /\ git \in Repositories /\ git.branch \in Branches /\ Main # Proposal
        /\ HeadOf(git) \in 1..MaxCommits
    BY HeadTyped DEF PubInv
  <1>3. /\ git'.branch = Proposal /\ git'.commits = git.commits
        /\ git'.heads = [git.heads EXCEPT ![Proposal] = IF @ = 0 THEN HeadOf(git) ELSE @]
    BY <1>1, <1>2 DEF CheckedOut, Repositories
  <1>4. HeadOf(git)' = HeadOf(git)
    <2>1. git.heads \in [Branches -> 0..MaxCommits] /\ Proposal \in Branches
      BY <1>2 DEF Repositories, Branches
    <2>2. git.branch = Proposal => git.heads[Proposal] # 0 /\ git.heads[Proposal] = HeadOf(git)
      BY <1>2 DEF HeadOf
    <2>3. git.branch # Proposal => git.heads[Proposal] = 0
      BY <1>2 DEF LinkInv, MainFirst, Branches
    <2> QED
      BY <1>3, <2>1, <2>2, <2>3 DEF HeadOf
  <1>5. Linkable(HeadOf(git))' => git.branch = Proposal /\ Linkable(HeadOf(git))
    BY <1>1, <1>2, <1>3, <1>4 DEF Linkable, LinkInv, MainFirst, Branches
  <1>6. git.branch = Proposal /\ Kept(HeadOf(git)) => Kept(HeadOf(git))'
    <2>1. git.branch = Proposal => \A x : Applied(x)' = Applied(x)
      BY <1>3, <1>4 DEF Applied
    <2> QED
      BY <1>1, <1>3, <1>4, <2>1 DEF Kept, Linked
  <1>7. HandlerJournals' /\ MainFirst'
    <2>1. handler' # None => handler'.pc = "record"
      BY <1>1 DEF Handlers
    <2> QED
      BY <1>1, <1>2, <1>3, <2>1 DEF LinkInv, HandlerJournals, MainFirst
  <1>8. HeadInLog'
    BY <1>2, <1>3 DEF LinkInv, HeadInLog, HeadOf, Repositories
  <1> QED
    BY <1>1, <1>4, <1>5, <1>6, <1>7, <1>8 DEF LinkInv, JournalOrdered

\* A run or an editor writes the working tree, which neither links nor intents look at.
LEMMA LinkEdit == ASSUME PubInv, LinkInv, NEW t \in Trees, Edit(t) PROVE LinkInv'
  <1>1. /\ git' = [git EXCEPT !.work = t]
        /\ handler' = IF handler = None THEN None ELSE [handler EXCEPT !.raced = TRUE]
        /\ UNCHANGED <<journal, links, up, forgotten>> /\ git \in Repositories
        /\ (handler # None => handler \in Handlers)
    BY HeadTyped DEF Edit, Move, PubInv, HandlerOK
  <1>2. git'.branch = git.branch /\ git'.heads = git.heads /\ git'.commits = git.commits
        /\ HeadOf(git)' = HeadOf(git)
    BY <1>1 DEF Repositories, HeadOf
  <1>3. \A c : /\ Linked(c)' = Linked(c) /\ Linkable(c)' = Linkable(c)
    BY <1>1, <1>2 DEF Linked, Linkable
  <1>4. Kept(HeadOf(git)) => Kept(HeadOf(git))'
    <2>1. \A x : Applied(x)' = Applied(x)
      BY <1>2 DEF Applied
    <2> QED
      BY <1>1, <1>2, <1>3, <2>1 DEF Kept
  <1>5. HandlerJournals'
    <2>1. handler' # None =>
            /\ handler # None /\ handler'.pc = handler.pc /\ handler'.ctx = handler.ctx
            /\ Intent(handler') = Intent(handler)
      BY <1>1 DEF Handlers, Intent
    <2>2. \A x : Journaled(x)' = Journaled(x)
      BY <1>1 DEF Journaled
    <2> QED
      BY <1>1, <1>2, <1>3, <2>1, <2>2 DEF LinkInv, HandlerJournals, Intent
  <1>6. MainFirst' /\ HeadInLog'
    BY <1>2 DEF LinkInv, MainFirst, HeadInLog
  <1> QED
    BY <1>1, <1>2, <1>3, <1>4, <1>5, <1>6 DEF LinkInv, JournalOrdered

\* A commit in a terminal is nobody's.
LEMMA LinkForeign == ASSUME PubInv, LinkInv, NEW m \in Messages, ForeignCommit(m) PROVE LinkInv'
  <1>c. PICK c : c = HeadOf(git)'
    OBVIOUS
  <1>1. /\ git' = Committed(git, m, None, FALSE) /\ GitOK(git)
        /\ handler' = IF handler = None THEN None ELSE [handler EXCEPT !.raced = TRUE]
        /\ UNCHANGED <<journal, links, up, forgotten>>
        /\ (handler # None => handler \in Handlers /\ (handler.pc # "git" => handler.ctx # None))
    BY DEF ForeignCommit, Move, PubInv, HandlerOK
  <1>2. /\ c = Len(git.commits) + 1 /\ git'.branch = git.branch
        /\ git'.heads = [git.heads EXCEPT ![git.branch] = c] /\ Len(git'.commits) = c
        /\ git'.commits[c].by = None /\ git'.commits[c].on = git.branch
    <2>1. PICK raced : raced = FALSE
      OBVIOUS
    <2>2. git' = Committed(git, m, None, raced)
      BY <1>1, <2>1
    <2>3. PICK n : n = git'
      OBVIOUS
    <2>4. GitOK(git) /\ n = Committed(git, m, None, raced) /\ c = HeadOf(n)
      BY <1>c, <1>1, <2>2, <2>3 DEF HeadOf
    <2>5. /\ c = Len(git.commits) + 1 /\ n.branch = git.branch
          /\ n.heads = [git.heads EXCEPT ![git.branch] = c] /\ Len(n.commits) = c
          /\ n.commits[c] = [parent |-> HeadOf(git), msg |-> m, tree |-> git.work, by |-> None,
                             on |-> git.branch, raced |-> raced]
      BY <2>4, LogAfterCommit
    <2> QED
      BY <2>3, <2>5
  <1>3. ~Linkable(HeadOf(git))'
    BY <1>c, <1>2 DEF Linkable
  <1>4. HandlerJournals'
    <2>1. handler' # None =>
            /\ handler # None /\ handler'.pc = handler.pc /\ handler'.ctx = handler.ctx
            /\ Intent(handler') = Intent(handler)
            /\ handler.pc = "clear" => handler.ctx # None
      BY <1>1 DEF Handlers, Intent
    <2>2. \A x : Journaled(x)' = Journaled(x)
      BY <1>1 DEF Journaled
    <2> QED
      BY <1>c, <1>1, <1>2, <2>1, <2>2 DEF LinkInv, HandlerJournals, Intent
  <1>5. MainFirst' /\ HeadInLog'
    <2>1. /\ git.heads \in [Branches -> 0..MaxCommits] /\ Proposal \in Branches
          /\ git.branch \in Branches /\ Len(git.commits) \in Nat
      BY <1>1, HeadTyped DEF GitOK, Repositories, Branches
    <2>2. HeadInLog'
      BY <1>2, <2>1 DEF LinkInv, HeadInLog
    <2>3. MainFirst'
      BY <1>c, <1>2, <2>1, PublicationConstants DEF LinkInv, MainFirst
    <2> QED
      BY <2>2, <2>3
  <1> QED
    BY <1>c, <1>1, <1>3, <1>4, <1>5 DEF LinkInv, JournalOrdered

\* Nothing is committed for an Attempt and nothing is handled.
LEMMA LinkInit == Init => LinkInv
  <1> SUFFICES ASSUME Init PROVE LinkInv
    OBVIOUS
  <1>1. /\ git.branch = Main /\ git.heads = [b \in Branches |-> IF b = Main THEN 1 ELSE 0]
        /\ Len(git.commits) = 1 /\ git.commits[1].by = None /\ git.commits[1].on = Main
        /\ journal = <<>> /\ links = [a \in Attempts |-> None] /\ handler = None
    BY DEF Init
  <1>2. HeadOf(git) = 1 /\ git.heads[Proposal] = 0
    BY <1>1, PublicationConstants DEF HeadOf, Branches
  <1> QED
    BY <1>1, <1>2 DEF LinkInv, JournalOrdered, HeadInLog, HandlerJournals, MainFirst, Linkable

\* Every step keeps what LinkIsRecoverable needs.
LEMMA LinkStep == PubInv /\ LinkInv /\ [Next]_vars => LinkInv'
  <1> SUFFICES ASSUME PubInv, LinkInv, [Next]_vars PROVE LinkInv'
    OBVIOUS
  <1>1. CASE \/ Page \/ Deliver \/ Reviewed \/ ServeDiff \/ StartRun \/ FinishRun
             \/ Take \/ StoreFails \/ Crash \/ UNCHANGED vars
    BY <1>1, LinksQuiet
  <1>2. CASE WriteIntent BY <1>2, LinkWriteIntent
  <1>3. CASE Mutate BY <1>3, LinkCommit, LinkBranch
  <1>4. CASE MutateFails BY <1>4, LinkMutateFails
  <1>5. CASE Record BY <1>5, LinkRecord
  <1>6. CASE Clear BY <1>6, LinkClear
  <1>7. CASE Restart BY <1>7, LinkRestart
  <1>8. CASE \E t \in Trees : Edit(t) BY <1>8, LinkEdit
  <1>9. CASE \E m \in Messages : ForeignCommit(m) BY <1>9, LinkForeign
  <1> QED
    BY <1>1, <1>2, <1>3, <1>4, <1>5, <1>6, <1>7, <1>8, <1>9 DEF Next, Handle, Others

\* The link of a published Attempt survives every crash and failing write, unless another program
\* raced with the commit or a later mutation of the Attempt failed (prepareTaskPublication,
\* recordTaskPublication, clearTaskPublicationIntent, pendingPublicationWasApplied).
THEOREM LinksAreRecoverable == Spec => []LinkIsRecoverable
  <1>1. LinkInv => LinkIsRecoverable
    BY DEF LinkInv, LinkIsRecoverable, Linkable, Kept
  <1>2. Spec => []LinkInv
    BY LinkInit, LinkStep, PubInvHolds, PTL DEF Spec
  <1> QED
    BY <1>1, <1>2, PTL
=============================================================================
