-------------------------- MODULE TaskAttemptsProofs --------------------------
(***************************************************************************)
(* Proofs about Tasks and Attempts, for any Tasks, keys and numbers of     *)
(* Attempts, faults and restarts.  That a request has one Attempt is       *)
(* proved for every value of the constants.  That a run keeps its durable  *)
(* Attempt, that ends are final and that outcomes are real is proved for   *)
(* a registry that is never reopened under a running process.              *)
(***************************************************************************)
EXTENDS TaskAttempts, FiniteSetTheorems, TLAPS

Present(h, a) == h.attempts[a].status # "absent"

\* A present attempt is an attempt of a task.
Placed(h) == \A a \in AttemptIds : Present(h, a) => h.attempts[a].task \in Tasks

\* OneAttemptPerRequest, of any content of the registry.
Unique(h) ==
  \A a, b \in AttemptIds :
     LET x == h.attempts[a]
         y == h.attempts[b]
     IN a # b /\ x.status # "absent" /\ y.status # "absent" /\ x.task = y.task =>
          /\ x.key # y.key
          /\ x.parent = None => y.parent # None

\* Of the ids past n no attempt exists.
Undrawn(h, n) == \A a \in AttemptIds : a > n => ~Present(h, a)

GoodHistory(h, n) == Placed(h) /\ Unique(h) /\ Undrawn(h, n)

\* A record that is not the missing one has a status.
Recorded(run) == run.status = "absent" => run = NoRun

\* The first inductive invariant: every content of the registry is good, whichever
\* Registry object holds it, and what a handler or the loop works on is in it.
HistInv ==
  /\ GoodHistory(disk, seq)
  /\ \A r \in Registries : GoodHistory(mem[r], seq)
  /\ \A a \in AttemptIds : Recorded(runs[a])
  /\ \A w \in watch : Recorded(w.info)
  /\ adm.pc # "idle" => Present(history, adm.attempt)
  /\ todo # {} => adm.pc = "idle"
  /\ \A a \in todo : Present(history, a)

-----------------------------------------------------------------------------
(***************************************************************************)
(* What the operators of the model return                                  *)
(***************************************************************************)

LEMMA Bounded ==
  ASSUME TypeOK
  PROVE  clock \in Times /\ clock # 0 /\ seq \in Nat /\ cur \in Registries /\ 0 \in Registries
         /\ 0 \in Times /\ AttemptIds \subseteq Nat \ {0} /\ history \in History
  BY TaskAttemptsConstants DEF TypeOK, Times, Registries, AttemptIds, history

\* A time read back from run history is an earlier time; a missing one stays missing.
LEMMA TruncateOK ==
  ASSUME NEW time \in Times
  PROVE  Truncate(time) \in Times /\ (time = 0 => Truncate(time) = 0)
  <1>1. Second \in Nat \ {0} /\ MaxTime \in Nat /\ time \in Nat /\ time <= MaxTime
    BY TaskAttemptsConstants DEF Times
  <1>2. (time \div Second) * Second \in 0..time BY <1>1
  <1>3. (0 \div Second) * Second = 0 BY <1>1
  <1> QED BY <1>1, <1>2, <1>3 DEF Truncate, Times

LEMMA NoRunOK == NoRun \in Run /\ NoRun.status = "absent" /\ ~NoRun.linked
  BY TaskAttemptsConstants DEF NoRun, Run, Statuses, Times

LEMMA RereadOK ==
  ASSUME NEW run \in Run
  PROVE  /\ Reread(run) \in Run /\ Reread(run).status = run.status
         /\ run = NoRun => Reread(run) = NoRun
  <1> DEFINE s == Truncate(run.started)
             f == Truncate(run.finished)
  <1>1. run.started \in Times /\ run.finished \in Times BY DEF Run
  <1>2. s \in Times /\ f \in Times BY <1>1, TruncateOK
  <1>3. run = NoRun => s = 0 /\ f = 0 BY <1>1, TruncateOK DEF NoRun
  <1>4. Reread(run) = [[run EXCEPT !.started = s] EXCEPT !.finished = f] BY DEF Reread, Run
  <1> HIDE DEF s, f
  <1>5. Reread(run) \in Run /\ Reread(run).status = run.status BY <1>2, <1>4 DEF Run
  <1>6. [NoRun EXCEPT !.started = 0] = NoRun /\ [NoRun EXCEPT !.finished = 0] = NoRun
    BY DEF NoRun
  <1>7. ASSUME run = NoRun PROVE Reread(run) = NoRun
    <2>1. s = 0 /\ f = 0 BY <1>3, <1>7
    <2>2. Reread(run) = [[NoRun EXCEPT !.started = 0] EXCEPT !.finished = 0]
      BY <1>4, <1>7, <2>1, Zenon
    <2> QED BY <1>6, <2>2, Zenon
  <1> QED BY <1>5, <1>7

\* Retention forgets ended runs only.
LEMMA TrimOK ==
  ASSUME NEW f \in [AttemptIds -> Run]
  PROVE  /\ Trim(f) \in [AttemptIds -> Run]
         /\ \A a \in AttemptIds :
              /\ Trim(f)[a] \in {f[a], NoRun}
              /\ f[a].status \notin Closed => Trim(f)[a] = f[a]
  BY NoRunOK DEF Trim

LEMMA EndRunOK ==
  ASSUME TypeOK, NEW a \in AttemptIds, NEW status \in Closed
  PROVE  /\ EndRun(a, status) \in [AttemptIds -> Run]
         /\ \/ EndRun(a, status)[a] = NoRun
            \/ /\ EndRun(a, status)[a].status \in Closed
               /\ EndRun(a, status)[a].linked = runs[a].linked
         /\ \A b \in AttemptIds :
              /\ Recorded(runs[b]) => Recorded(EndRun(a, status)[b])
              /\ runs[b].linked = FALSE => EndRun(a, status)[b].linked = FALSE
              /\ b # a => EndRun(a, status)[b] \in {runs[b], NoRun}
              /\ b # a /\ runs[b].status \in Open => EndRun(a, status)[b] = runs[b]
  <1> DEFINE ended == [runs[a] EXCEPT !.status = status, !.finished = clock]
             f == [runs EXCEPT ![a] = ended]
  <1>1. ended \in Run /\ ended.status = status /\ ended.linked = runs[a].linked
    <2>1. runs[a] \in Run BY DEF TypeOK
    <2>2. clock \in Times BY Bounded
    <2>3. status \in Statuses BY DEF Statuses
    <2> QED BY <2>1, <2>2, <2>3 DEF Run
  <1>2. EndRun(a, status) = Trim(f) BY DEF EndRun, TypeOK
  <1> HIDE DEF ended
  <1>3. f \in [AttemptIds -> Run] /\ f[a] = ended /\ \A b \in AttemptIds \ {a} : f[b] = runs[b]
    BY <1>1 DEF TypeOK
  <1> HIDE DEF f
  <1>4. status \notin Open /\ status # "absent" BY DEF Closed, Open
  <1>5. /\ EndRun(a, status) \in [AttemptIds -> Run]
        /\ \A b \in AttemptIds : /\ EndRun(a, status)[b] \in {f[b], NoRun}
                                 /\ f[b].status \notin Closed => EndRun(a, status)[b] = f[b]
    BY <1>2, <1>3, TrimOK
  <1>6. Recorded(ended) /\ Recorded(NoRun) BY <1>1, <1>4, NoRunOK DEF Recorded
  <1>7. \A b \in AttemptIds : runs[b].status \in Open => runs[b].status \notin Closed
    BY DEF Open, Closed
  <1> QED BY <1>1, <1>3, <1>5, <1>6, <1>7, NoRunOK

\* A write of the registry is seen in the file and in the Registry object that made it.
LEMMA UpdateOK ==
  ASSUME TypeOK, NEW r \in Registries, NEW new \in History, NEW ok \in BOOLEAN,
         Update(r, new, ok)
  PROVE  /\ disk' \in History /\ mem' \in [Registries -> History] /\ cur' = cur
         /\ budget' \in Bounds
         /\ \/ ~Published(new, ok) /\ disk' = disk /\ mem' = mem
            \/ Published(new, ok) /\ disk' = new /\ mem' = [mem EXCEPT ![r] = new]
  <1>1. budget' \in Bounds
    BY TaskAttemptsConstants DEF TypeOK, Update, Bounds, Spend, store
  <1> QED BY <1>1 DEF TypeOK, Update, Published, store

-----------------------------------------------------------------------------
LEMMA NewTaskOK ==
  ASSUME TypeOK, NEW t \in Tasks, NEW task \in Task
  PROVE  LET n == [history EXCEPT !.tasks[t] = task]
         IN n \in History /\ n.attempts = history.attempts
            /\ n.tasks[t] = task /\ \A u \in Tasks \ {t} : n.tasks[u] = history.tasks[u]
  BY Bounded DEF History

\* Both updates that end or move an attempt replace it and stamp its task.
Stamped(h, a, y, u, c, o) ==
  [h EXCEPT !.attempts[a] = y, !.tasks[u].activity = c, !.tasks[u].outcome = o]

LEMMA StampOK ==
  ASSUME NEW h \in History, NEW a \in AttemptIds, NEW y \in Attempt, NEW u,
         NEW c \in Times, NEW o, u \in Tasks => o \in AttemptIds \cup {None}
  PROVE  LET n == Stamped(h, a, y, u, c, o)
         IN /\ n \in History
            /\ n.attempts[a] = y /\ \A b \in AttemptIds \ {a} : n.attempts[b] = h.attempts[b]
            /\ \A t \in Tasks : n.tasks[t].outcome = IF t = u THEN o ELSE h.tasks[t].outcome
  <1> DEFINE task == [h.tasks[u] EXCEPT !.activity = c, !.outcome = o]
             ts == [h.tasks EXCEPT ![u] = task]
             as == [h.attempts EXCEPT ![a] = y]
             m == [h EXCEPT !.attempts = as, !.tasks = ts]
  <1>1. u \in Tasks => task \in Task /\ task.outcome = o BY DEF History, Task
  <1>2. [[h.tasks EXCEPT ![u].activity = c] EXCEPT ![u].outcome = o] = ts
    BY DEF History
  <1>3. Stamped(h, a, y, u, c, o) = m BY <1>2 DEF Stamped, History
  <1> HIDE DEF task
  <1>4. ts \in [Tasks -> Task] /\ as \in [AttemptIds -> Attempt] BY <1>1 DEF History
  <1>5. as[a] = y /\ \A b \in AttemptIds \ {a} : as[b] = h.attempts[b] BY DEF History
  <1>6. \A t \in Tasks : ts[t] = IF t = u THEN task ELSE h.tasks[t] BY DEF History
  <1> HIDE DEF ts, as
  <1>7. m \in History /\ m.attempts = as /\ m.tasks = ts BY <1>4 DEF History
  <1> HIDE DEF m
  <1> QED BY <1>1, <1>3, <1>5, <1>6, <1>7

LEMMA MirrorOK ==
  ASSUME NEW h \in History, NEW a \in AttemptIds, NEW info \in Run, clock \in Times
  PROVE  LET n == Mirror(h, a, info)
             x == h.attempts[a]
             y == n.attempts[a]
         IN /\ n \in History
            /\ \A b \in AttemptIds \ {a} : n.attempts[b] = h.attempts[b]
            /\ y.task = x.task /\ y.key = x.key /\ y.parent = x.parent
            /\ y.status = info.status
            /\ y.finished = IF info.finished # 0 THEN info.finished ELSE x.finished
            /\ \A t \in Tasks :
                 /\ t # x.task => n.tasks[t].outcome = h.tasks[t].outcome
                 /\ t = x.task => n.tasks[t].outcome =
                      IF info.status = "succeeded" THEN a
                      ELSE IF info.status \in {"failed", "canceled"} THEN None
                      ELSE h.tasks[t].outcome
  <1> DEFINE x == h.attempts[a]
             y == [x EXCEPT !.status = info.status,
                            !.started = IF info.status = "running" /\ @ = 0
                                        THEN info.started ELSE @,
                            !.finished = IF info.finished # 0 THEN info.finished ELSE @]
             o == CASE info.status = "succeeded" -> a
                    [] info.status \in {"failed", "canceled"} -> None
                    [] OTHER -> h.tasks[y.task].outcome
             n == Stamped(h, a, y, y.task, clock, o)
  <1>1. x \in Attempt BY DEF History
  <1>2. y \in Attempt /\ y.task = x.task /\ y.key = x.key /\ y.parent = x.parent
        /\ y.status = info.status
        /\ y.finished = IF info.finished # 0 THEN info.finished ELSE x.finished
    BY <1>1 DEF Attempt, Run
  <1>3. Mirror(h, a, info) = n BY DEF Mirror, Stamped
  <1>4. o = IF info.status = "succeeded" THEN a
            ELSE IF info.status \in {"failed", "canceled"} THEN None
            ELSE h.tasks[y.task].outcome
    <2> HIDE DEF y
    <2>1. CASE info.status = "succeeded" BY <2>1
    <2>2. CASE info.status \in {"failed", "canceled"} BY <2>2
    <2>3. CASE info.status \notin {"succeeded", "failed", "canceled"} BY <2>3
    <2> QED BY <2>1, <2>2, <2>3
  <1> HIDE DEF x, y, o
  <1>5. y.task \in Tasks => o \in AttemptIds \cup {None}
    BY <1>4 DEF History, Task
  <1>6. /\ n \in History
        /\ n.attempts[a] = y /\ \A b \in AttemptIds \ {a} : n.attempts[b] = h.attempts[b]
        /\ \A t \in Tasks :
             n.tasks[t].outcome = IF t = y.task THEN o ELSE h.tasks[t].outcome
    BY <1>2, <1>5, StampOK
  <1> HIDE DEF n
  <1> QED BY <1>2, <1>3, <1>4, <1>6 DEF x

\* The parts of MirrorOK that a registry update and an outcome rest on, for a
\* history named by the caller.
LEMMA MirrorFollows ==
  ASSUME NEW h \in History, NEW a \in AttemptIds, NEW info \in Run, clock \in Times,
         NEW n, n = Mirror(h, a, info)
  PROVE  /\ n \in History
         /\ \A b \in AttemptIds \ {a} : n.attempts[b] = h.attempts[b]
         /\ n.attempts[a].task = h.attempts[a].task
         /\ n.attempts[a].key = h.attempts[a].key
         /\ n.attempts[a].parent = h.attempts[a].parent
         /\ n.attempts[a].status = info.status
         /\ info.finished # 0 => n.attempts[a].finished = info.finished
         /\ \A t \in Tasks :
              \/ n.tasks[t].outcome \in {h.tasks[t].outcome, None}
              \/ /\ n.tasks[t].outcome = a /\ t = n.attempts[a].task
                 /\ n.attempts[a].status = "succeeded"
  <1>1. /\ n \in History
        /\ \A b \in AttemptIds \ {a} : n.attempts[b] = h.attempts[b]
        /\ n.attempts[a].task = h.attempts[a].task
        /\ n.attempts[a].key = h.attempts[a].key
        /\ n.attempts[a].parent = h.attempts[a].parent
        /\ n.attempts[a].status = info.status
        /\ n.attempts[a].finished =
             IF info.finished # 0 THEN info.finished ELSE h.attempts[a].finished
        /\ \A t \in Tasks :
             /\ t # h.attempts[a].task => n.tasks[t].outcome = h.tasks[t].outcome
             /\ t = h.attempts[a].task => n.tasks[t].outcome =
                  IF info.status = "succeeded" THEN a
                  ELSE IF info.status \in {"failed", "canceled"} THEN None
                  ELSE h.tasks[t].outcome
    BY MirrorOK
  <1> QED BY <1>1

LEMMA UnavailableOK ==
  ASSUME NEW h \in History, NEW a \in AttemptIds, clock \in Times
  PROVE  LET n == MarkUnavailable(h, a)
             x == h.attempts[a]
             y == n.attempts[a]
         IN /\ n \in History
            /\ \A b \in AttemptIds \ {a} : n.attempts[b] = h.attempts[b]
            /\ y.task = x.task /\ y.key = x.key /\ y.parent = x.parent
            /\ y.status = "failed"
            /\ \A t \in Tasks :
                 n.tasks[t].outcome = IF t # x.task THEN h.tasks[t].outcome ELSE None
  <1> DEFINE x == h.attempts[a]
             y == [[x EXCEPT !.status = "failed"] EXCEPT !.finished = clock]
             o == None
             n == Stamped(h, a, y, y.task, clock, o)
  <1>1. x \in Attempt BY DEF History
  <1>2. y \in Attempt /\ y.task = x.task /\ y.key = x.key /\ y.parent = x.parent
        /\ y.status = "failed"
    <2>1. [x EXCEPT !.status = "failed"] \in Attempt
      BY <1>1 DEF Attempt, Statuses, Closed
    <2>2. y \in Attempt BY <2>1 DEF Attempt
    <2> QED BY <1>1, <2>2 DEF Attempt
  <1>3. MarkUnavailable(h, a) = n
    <2>1. [[h.attempts EXCEPT ![a].status = "failed"] EXCEPT ![a].finished = clock]
            = [h.attempts EXCEPT ![a] = y]
      BY DEF History
    <2>2. [[h EXCEPT !.attempts[a].status = "failed"] EXCEPT !.attempts[a].finished = clock]
            = [h EXCEPT !.attempts[a] = y]
      <3> HIDE DEF x, y
      <3> QED BY <2>1 DEF History
    <2>3. MarkUnavailable(h, a) = Stamped(h, a, y, x.task, clock, None)
      BY <2>2 DEF MarkUnavailable, Stamped
    <2> HIDE DEF x, y
    <2> QED BY <1>2, <2>3
  <1>5. y.task \in Tasks => o \in AttemptIds \cup {None} OBVIOUS
  <1>o. o = None OBVIOUS
  <1> HIDE DEF x, y, o
  <1>6. /\ n \in History
        /\ n.attempts[a] = y /\ \A b \in AttemptIds \ {a} : n.attempts[b] = h.attempts[b]
        /\ \A t \in Tasks :
             n.tasks[t].outcome = IF t = y.task THEN o ELSE h.tasks[t].outcome
    BY <1>2, <1>5, StampOK
  <1> HIDE DEF n
  <1> QED BY <1>2, <1>3, <1>6, <1>o DEF x

LEMMA RemoveOK ==
  ASSUME NEW h \in History, NEW a \in AttemptIds, NEW activity \in Times
  PROVE  LET n == RemoveAttempt(h, a, activity)
         IN /\ n \in History
            /\ \A b \in AttemptIds \ {a} : n.attempts[b] = h.attempts[b]
            /\ n.attempts[a] = NoAttempt
            /\ \A t \in Tasks : n.tasks[t].outcome = h.tasks[t].outcome
  <1> DEFINE u == h.attempts[a].task
             task == [h.tasks[u] EXCEPT !.activity = activity]
             ts == [h.tasks EXCEPT ![u] = task]
             as == [h.attempts EXCEPT ![a] = NoAttempt]
             n == [h EXCEPT !.attempts = as, !.tasks = ts]
  <1>1. NoAttempt \in Attempt
    BY TaskAttemptsConstants DEF NoAttempt, Attempt, Statuses, Times
  <1>2. RemoveAttempt(h, a, activity) = n BY DEF RemoveAttempt, History
  <1> HIDE DEF u
  <1>3. \A t \in Tasks : t = u => task \in Task /\ task.outcome = h.tasks[t].outcome
    BY DEF History, Task
  <1> HIDE DEF task
  <1>4. ts \in [Tasks -> Task] /\ as \in [AttemptIds -> Attempt]
    BY <1>1, <1>3 DEF History
  <1>5. as[a] = NoAttempt /\ \A b \in AttemptIds \ {a} : as[b] = h.attempts[b]
    BY DEF History
  <1>6. \A t \in Tasks : ts[t] = IF t = u THEN task ELSE h.tasks[t]
    BY DEF History
  <1> HIDE DEF ts, as
  <1>7. n \in History /\ n.attempts = as /\ n.tasks = ts BY <1>4 DEF History
  <1> HIDE DEF n
  <1> QED BY <1>2, <1>3, <1>5, <1>6, <1>7

\* The history that Admit asks the registry to write.
Appended(t, key, parent) ==
  [history EXCEPT !.attempts[seq + 1] =
                    [task |-> t, key |-> key, parent |-> parent, status |-> "queued",
                     admitted |-> clock, started |-> 0, finished |-> 0],
                  !.tasks[t].activity = clock]

LEMMA AppendedOK ==
  ASSUME TypeOK, NEW t \in Tasks, NEW key \in Keys, NEW parent \in AttemptIds \cup {None},
         seq < MaxAttempts
  PROVE  LET n == Appended(t, key, parent)
             y == n.attempts[seq + 1]
         IN /\ n \in History
            /\ seq + 1 \in AttemptIds
            /\ \A b \in AttemptIds \ {seq + 1} : n.attempts[b] = history.attempts[b]
            /\ y.task = t /\ y.key = key /\ y.parent = parent /\ y.status = "queued"
            /\ \A u \in Tasks : n.tasks[u].outcome = history.tasks[u].outcome
  <1> DEFINE a == seq + 1
             y == [task |-> t, key |-> key, parent |-> parent, status |-> "queued",
                   admitted |-> clock, started |-> 0, finished |-> 0]
             task == [history.tasks[t] EXCEPT !.activity = clock]
             ts == [history.tasks EXCEPT ![t] = task]
             as == [history.attempts EXCEPT ![a] = y]
             n == [history EXCEPT !.attempts = as, !.tasks = ts]
  <1>1. a \in AttemptIds /\ clock \in Times /\ 0 \in Times /\ history \in History
    BY Bounded, TaskAttemptsConstants DEF TypeOK, AttemptIds
  <1>2. y \in Attempt BY <1>1 DEF Attempt, Statuses, Open
  <1>3. Appended(t, key, parent) = n BY <1>1 DEF Appended, History
  <1>4. task \in Task /\ task.outcome = history.tasks[t].outcome
    BY <1>1 DEF History, Task
  <1>5. y.task = t /\ y.key = key /\ y.parent = parent /\ y.status = "queued" OBVIOUS
  <1> HIDE DEF task, y, a
  <1>6. ts \in [Tasks -> Task] /\ as \in [AttemptIds -> Attempt]
    BY <1>1, <1>2, <1>4 DEF History
  <1>7. as[a] = y /\ \A b \in AttemptIds \ {a} : as[b] = history.attempts[b]
    BY <1>1 DEF History
  <1>8. \A u \in Tasks : ts[u] = IF u = t THEN task ELSE history.tasks[u]
    BY <1>1 DEF History
  <1> HIDE DEF ts, as
  <1>9. n \in History /\ n.attempts = as /\ n.tasks = ts BY <1>1, <1>6 DEF History
  <1> HIDE DEF n
  <1> QED BY <1>1, <1>3, <1>4, <1>5, <1>7, <1>8, <1>9 DEF a

-----------------------------------------------------------------------------
(***************************************************************************)
(* Good contents of the registry                                           *)
(***************************************************************************)

LEMMA GoodLater ==
  ASSUME NEW h, NEW m \in Nat, NEW n \in Nat, m <= n, GoodHistory(h, m)
  PROVE  GoodHistory(h, n)
  <1>1. AttemptIds \subseteq Nat BY DEF AttemptIds
  <1> QED BY <1>1 DEF GoodHistory, Undrawn

\* An update of a present attempt that leaves its task, key and parent alone.
LEMMA GoodUpdated ==
  ASSUME NEW h, NEW n, NEW g, NEW a \in AttemptIds,
         GoodHistory(h, n), Present(h, a),
         \A b \in AttemptIds \ {a} : g.attempts[b] = h.attempts[b],
         g.attempts[a].task = h.attempts[a].task,
         g.attempts[a].key = h.attempts[a].key,
         g.attempts[a].parent = h.attempts[a].parent
  PROVE  GoodHistory(g, n)
  <1>1. \A b \in AttemptIds : Present(g, b) => Present(h, b) BY DEF Present
  <1>2. \A b \in AttemptIds : /\ g.attempts[b].task = h.attempts[b].task
                              /\ g.attempts[b].key = h.attempts[b].key
                              /\ g.attempts[b].parent = h.attempts[b].parent
    OBVIOUS
  <1> QED BY <1>1, <1>2 DEF GoodHistory, Placed, Unique, Undrawn, Present

LEMMA GoodRemoved ==
  ASSUME NEW h, NEW n, NEW g, NEW a \in AttemptIds, GoodHistory(h, n),
         \A b \in AttemptIds \ {a} : g.attempts[b] = h.attempts[b],
         g.attempts[a] = NoAttempt
  PROVE  GoodHistory(g, n)
  <1>1. \A b \in AttemptIds :
          Present(g, b) => b # a /\ g.attempts[b] = h.attempts[b] /\ Present(h, b)
    BY DEF Present, NoAttempt
  <1> QED BY <1>1 DEF GoodHistory, Placed, Unique, Undrawn, Present

\* An admission: the key is new to the task, and so is a first attempt.
LEMMA GoodAppended ==
  ASSUME TypeOK, GoodHistory(history, seq), seq < MaxAttempts,
         NEW t \in Tasks, NEW key \in Keys, NEW parent \in AttemptIds \cup {None},
         ~KeyUsed(t, key), parent = None => TaskAttemptsOf(t) = {}
  PROVE  GoodHistory(Appended(t, key, parent), seq + 1)
  <1> DEFINE a == seq + 1
             g == Appended(t, key, parent)
  <1>1. /\ a \in AttemptIds /\ \A b \in AttemptIds \ {a} : g.attempts[b] = history.attempts[b]
        /\ g.attempts[a].task = t /\ g.attempts[a].key = key /\ g.attempts[a].parent = parent
    BY AppendedOK
  <1>2. AttemptIds \subseteq Nat /\ seq \in Nat BY DEF AttemptIds, TypeOK
  <1>3. Undrawn(g, a)
    BY <1>1, <1>2 DEF GoodHistory, Undrawn, Present
  <1> HIDE DEF a, g
  <1>4. \A b \in AttemptIds \ {a} : Present(g, b) => Present(history, b)
    BY <1>1 DEF Present
  <1>5. Placed(g) BY <1>1, <1>4 DEF GoodHistory, Placed
  <1>6. \A b \in AttemptIds \ {a} : Present(g, b) /\ g.attempts[b].task = t =>
          b \in TaskAttemptsOf(t) /\ g.attempts[b].key # key
    BY <1>1, <1>4 DEF TaskAttemptsOf, KeyUsed, Present
  <1>7. Unique(g)
    <2> SUFFICES ASSUME NEW b \in AttemptIds, NEW c \in AttemptIds, b # c,
                        Present(g, b), Present(g, c), g.attempts[b].task = g.attempts[c].task
                 PROVE  /\ g.attempts[b].key # g.attempts[c].key
                        /\ g.attempts[b].parent = None => g.attempts[c].parent # None
      BY DEF Unique, Present
    <2>1. CASE b # a /\ c # a
      BY <1>1, <1>4, <2>1 DEF GoodHistory, Unique, Present
    <2>2. CASE b = a BY <1>1, <1>6, <2>2
    <2>3. CASE c = a BY <1>1, <1>6, <2>3
    <2> QED BY <2>1, <2>2, <2>3
  <1> QED BY <1>3, <1>5, <1>7 DEF GoodHistory, a, g

\* The registry that a write leaves behind is good if what it wrote is.
LEMMA StoreGood ==
  ASSUME TypeOK, HistInv, NEW r \in Registries, NEW new \in History, NEW ok \in BOOLEAN,
         Update(r, new, ok), NEW n \in Nat, seq <= n, GoodHistory(new, n)
  PROVE  GoodHistory(disk', n) /\ \A q \in Registries : GoodHistory(mem'[q], n)
  <1>1. GoodHistory(disk, n) /\ \A q \in Registries : GoodHistory(mem[q], n)
    BY GoodLater DEF HistInv, TypeOK
  <1>2. mem \in [Registries -> History] BY DEF TypeOK
  <1> QED BY <1>1, <1>2, UpdateOK

\* Such a write keeps the attempts of other ids in every Registry object.
LEMMA StoreKeeps ==
  ASSUME TypeOK, NEW r \in Registries, NEW new \in History, NEW ok \in BOOLEAN,
         Update(r, new, ok)
  PROVE  /\ mem'[r] \in {mem[r], new}
         /\ \A q \in Registries : q # r => mem'[q] = mem[q]
  <1>1. mem \in [Registries -> History] BY DEF TypeOK
  <1> QED BY <1>1, UpdateOK

-----------------------------------------------------------------------------
(***************************************************************************)
(* The first invariant holds, whatever the constants                       *)
(***************************************************************************)

RegInv == TypeOK /\ HistInv

LEMMA RegInit == Init => RegInv
  <1> SUFFICES ASSUME Init PROVE RegInv OBVIOUS
  <1> USE TaskAttemptsConstants, NoRunOK
  <1>1. 0 \in Times /\ clock \in Second..MaxTime BY DEF Init, Times
  <1>2. EmptyHistory \in History
    <2>1. NoTask \in Task BY <1>1 DEF NoTask, Task
    <2>2. NoAttempt \in Attempt BY <1>1 DEF NoAttempt, Attempt, Statuses
    <2> QED BY <2>1, <2>2 DEF EmptyHistory, History
  <1>3. TypeOK
    BY <1>1, <1>2 DEF Init, TypeOK, Registries, Idle, Bounds
  <1>4. \A a \in AttemptIds : ~Present(EmptyHistory, a)
    BY DEF EmptyHistory, Present, NoAttempt
  <1>5. GoodHistory(EmptyHistory, 0)
    BY <1>4 DEF GoodHistory, Placed, Unique, Undrawn, Present
  <1>6. HistInv BY <1>5 DEF HistInv, Init, Idle, Recorded
  <1> QED BY <1>3, <1>6 DEF RegInv

\* A step that leaves the registry and the server alone.
LEMMA ServiceStep ==
  ASSUME RegInv, UNCHANGED <<store, server>>,
         clock' \in Second..MaxTime, runs' \in [AttemptIds -> Run], budget' \in Bounds,
         {active', pending'} \subseteq AttemptIds \cup {None, Foreign},
         resuming' \in AttemptIds \cup {None},
         \A a \in AttemptIds : Recorded(runs'[a])
  PROVE  RegInv'
  <1>1. TypeOK' BY DEF RegInv, TypeOK, store, server
  <1>2. HistInv'
    BY DEF RegInv, HistInv, store, server, history
  <1> QED BY <1>1, <1>2 DEF RegInv

LEMMA RunStepsReg == ASSUME RegInv, RunSteps PROVE RegInv'
  <1> USE DEF RegInv
  <1>0. \A a \in AttemptIds : Recorded(runs[a]) BY DEF HistInv
  <1>1. ASSUME NEW a \in AttemptIds, RunStarts(a) PROVE RegInv'
    <2>1. runs' \in [AttemptIds -> Run] /\ \A b \in AttemptIds : Recorded(runs'[b])
      BY <1>0, <1>1 DEF RunStarts, TypeOK, Run, Statuses, Open, Recorded
    <2> QED BY <1>1, <2>1, ServiceStep DEF RunStarts, TypeOK, server
  <1>2. ASSUME NEW a \in AttemptIds, ResumedRunStarts(a) PROVE RegInv'
    <2>1. runs' \in [AttemptIds -> Run] /\ \A b \in AttemptIds : Recorded(runs'[b])
      <3> DEFINE x == [runs[a] EXCEPT !.linked = FALSE]
      <3>0. runs[a] \in Run BY DEF TypeOK
      <3>1. x \in Run /\ x.status = runs[a].status
        <4>1. x \in Run BY <3>0 DEF Run
        <4>2. x.status = runs[a].status BY <3>0 DEF Run
        <4> QED BY <4>1, <4>2
      <3>2. runs[a] = NoRun => x = NoRun
        <4>1. NoRun.linked = FALSE BY DEF NoRun
        <4>2. [NoRun EXCEPT !.linked = FALSE] = NoRun BY <4>1, NoRunOK DEF Run
        <4> QED BY <4>2, Zenon
      <3>3. runs' = [runs EXCEPT ![a] = x] BY <1>2 DEF ResumedRunStarts
      <3> HIDE DEF x
      <3> QED BY <1>0, <3>1, <3>2, <3>3 DEF TypeOK, Recorded
    <2> QED BY <1>2, <2>1, ServiceStep DEF ResumedRunStarts, TypeOK, server
  <1>3. ASSUME NEW a \in AttemptIds, NEW status \in Closed, RunEnds(a, status) PROVE RegInv'
    <2>1. runs' \in [AttemptIds -> Run] /\ \A b \in AttemptIds : Recorded(runs'[b])
      BY <1>0, <1>3, EndRunOK DEF RunEnds
    <2> QED BY <1>3, <2>1, ServiceStep DEF RunEnds, TypeOK, server
  <1>4. ASSUME NEW a \in AttemptIds, CancelPending(a) PROVE RegInv'
    <2>1. runs' \in [AttemptIds -> Run] /\ \A b \in AttemptIds : Recorded(runs'[b])
      BY <1>0, <1>4, EndRunOK DEF CancelPending, Closed
    <2> QED BY <1>4, <2>1, ServiceStep DEF CancelPending, TypeOK, server
  <1>5. CASE FinishAsyncRun
    BY <1>0, <1>5, ServiceStep DEF FinishAsyncRun, TypeOK, server
  <1> QED BY <1>1, <1>2, <1>3, <1>4, <1>5 DEF RunSteps

LEMMA ForeignReg == ASSUME RegInv, ForeignStart \/ ForeignQueue PROVE RegInv'
  <1> USE DEF RegInv
  <1>0. \A a \in AttemptIds : Recorded(runs[a]) BY DEF HistInv
  <1>1. budget.foreign < MaxForeign /\ Spend("foreign") => budget' \in Bounds
    BY TaskAttemptsConstants DEF TypeOK, Bounds, Spend
  <1>2. CASE ForeignStart
    BY <1>0, <1>1, <1>2, ServiceStep DEF ForeignStart, TypeOK, server
  <1>3. CASE ForeignQueue
    <2>1. pending \in AttemptIds \cup {None} BY <1>3 DEF ForeignQueue, TypeOK
    <2>2. runs' \in [AttemptIds -> Run] /\ \A b \in AttemptIds : Recorded(runs'[b])
      BY <1>0, <1>3, <2>1, EndRunOK DEF ForeignQueue, Closed, TypeOK
    <2> QED BY <1>1, <1>3, <2>2, ServiceStep DEF ForeignQueue, TypeOK, server
  <1> QED BY <1>2, <1>3

LEMMA TickReg == ASSUME RegInv, Tick PROVE RegInv'
  <1>1. clock' \in Second..MaxTime
    BY TaskAttemptsConstants DEF RegInv, TypeOK, Tick
  <1> QED BY <1>1, ServiceStep DEF RegInv, HistInv, Tick, TypeOK, service

LEMMA EditReg ==
  ASSUME RegInv, NEW t \in Tasks, NEW task \in Task, NEW ok \in BOOLEAN, EditTask(t, task, ok)
  PROVE  RegInv'
  <1> USE DEF RegInv
  <1> DEFINE new == [history EXCEPT !.tasks[t] = task]
  <1>1. new \in History /\ new.attempts = history.attempts BY NewTaskOK
  <1>2. cur \in Registries /\ Update(cur, new, ok) BY DEF EditTask, TypeOK
  <1> HIDE DEF new
  <1>3. GoodHistory(new, seq)
    BY <1>1, <1>2 DEF HistInv, GoodHistory, Placed, Unique, Undrawn, Present, history
  <1>4. seq \in Nat BY Bounded
  <1>5. TypeOK' BY <1>1, <1>2, UpdateOK DEF EditTask, TypeOK, service, server
  <1>6. GoodHistory(disk', seq) /\ \A q \in Registries : GoodHistory(mem'[q], seq)
    BY <1>1, <1>2, <1>3, <1>4, StoreGood
  <1>7. adm.pc = "idle" /\ todo = {} BY DEF EditTask, Serving
  <1> QED BY <1>5, <1>6, <1>7 DEF HistInv, EditTask, service, server

LEMMA AdmitReg ==
  ASSUME RegInv, NEW t \in Tasks, NEW key \in Keys, NEW intent \in Intents,
         NEW parent \in AttemptIds \cup {None}, NEW ok \in BOOLEAN,
         Admit(t, key, intent, parent, ok), parent = None => TaskAttemptsOf(t) = {}
  PROVE  RegInv'
  <1> USE DEF RegInv
  <1> DEFINE new == Appended(t, key, parent)
             a == seq + 1
  <1>1. /\ seq < MaxAttempts /\ ~KeyUsed(t, key) /\ adm.pc = "idle" /\ todo = {}
        /\ Update(cur, new, ok) /\ seq' = a
        /\ adm' = IF Published(new, ok)
                  THEN [pc |-> "start", attempt |-> a, activity |-> history.tasks[t].activity]
                  ELSE Idle
        /\ UNCHANGED <<clock, service, watch, todo, stage>>
    BY DEF Admit, Appended, Serving
  <1>2. cur \in Registries /\ seq \in Nat /\ a \in Nat /\ GoodHistory(history, seq)
    BY Bounded DEF HistInv, history
  <1>3. new \in History /\ a \in AttemptIds /\ new.attempts[a].status = "queued"
    BY <1>1, AppendedOK
  <1>4. GoodHistory(new, a) BY <1>1, <1>2, GoodAppended
  <1> HIDE DEF new
  <1>5. GoodHistory(disk', a) /\ \A q \in Registries : GoodHistory(mem'[q], a)
    BY <1>1, <1>2, <1>3, <1>4, StoreGood
  <1>6. adm' \in [pc : {"idle", "start", "mirror", "undo"},
                  attempt : AttemptIds \cup {None}, activity : Times]
        /\ (adm'.pc = "idle" <=> adm'.attempt = None)
    <2>1. history.tasks[t].activity \in Times BY Bounded DEF History, Task
    <2>2. a # None /\ None \notin AttemptIds BY <1>2 DEF None, AttemptIds
    <2> QED BY <1>1, <1>3, <2>1, <2>2, Bounded DEF Idle
  <1>7. TypeOK'
    <2>1. a \in 0..MaxAttempts BY <1>3 DEF AttemptIds
    <2>2. /\ disk' \in History /\ mem' \in [Registries -> History]
          /\ cur' = cur /\ budget' \in Bounds
      BY <1>1, <1>2, <1>3, UpdateOK
    <2> QED BY <1>1, <1>6, <2>1, <2>2 DEF TypeOK, service
  <1>8. adm'.pc # "idle" => mem'[cur'] = new /\ adm'.attempt = a
    <2>1. adm'.pc # "idle" => Published(new, ok) /\ adm'.attempt = a
      BY <1>1 DEF Idle
    <2>2. Published(new, ok) => mem' = [mem EXCEPT ![cur] = new] /\ cur' = cur
      BY <1>1, <1>2, <1>3, UpdateOK
    <2> QED BY <1>2, <2>1, <2>2 DEF TypeOK
  <1> QED BY <1>1, <1>3, <1>5, <1>7, <1>8 DEF HistInv, service, Present, history

\* What the task handlers write of a task.
LEMMA EditedOK ==
  ASSUME NEW task \in Task, NEW lifecycle \in {"absent", "open", "archived"},
         NEW time \in Times, NEW revision \in 0..MaxRevision
  PROVE  [task EXCEPT !.lifecycle = lifecycle, !.revision = revision, !.activity = time] \in Task
  <1>1. [task EXCEPT !.lifecycle = lifecycle] \in Task BY DEF Task
  <1>2. [[task EXCEPT !.lifecycle = lifecycle] EXCEPT !.revision = revision] \in Task
    BY <1>1 DEF Task
  <1> QED BY <1>2 DEF Task

\* A request edits a task, whose outcome it keeps or clears, or it admits an attempt.
LEMMA RequestsAre ==
  ASSUME RegInv, NEW ok \in BOOLEAN, Requests(ok)
  PROVE  \/ \E t \in Tasks, task \in Task :
              EditTask(t, task, ok) /\ task.outcome \in {None, history.tasks[t].outcome}
         \/ \E t \in Tasks, key \in Keys, intent \in Intents, parent \in AttemptIds \cup {None} :
              /\ Admit(t, key, intent, parent, ok)
              /\ parent = None => TaskAttemptsOf(t) = {}
  <1> USE DEF RegInv
  <1> DEFINE Edits == \E t \in Tasks, task \in Task :
                EditTask(t, task, ok) /\ task.outcome \in {None, history.tasks[t].outcome}
             Admits == \E t \in Tasks, key \in Keys, intent \in Intents,
                         parent \in AttemptIds \cup {None} :
                /\ Admit(t, key, intent, parent, ok)
                /\ parent = None => TaskAttemptsOf(t) = {}
  <1>0. history \in History /\ clock \in Times /\ 0 \in Times /\ clock # 0 BY Bounded
  <1>t. \A t \in Tasks : history.tasks[t] \in Task BY <1>0 DEF History
  <1>1. ASSUME NEW t \in Tasks, CreateTask(t, ok) PROVE Edits
    <2> DEFINE task == [NoTask EXCEPT !.lifecycle = "open", !.revision = 1, !.activity = clock]
    <2>1. NoTask \in Task /\ 1 \in 0..MaxRevision
      BY <1>0, TaskAttemptsConstants DEF NoTask, Task
    <2>2. task \in Task BY <1>0, <2>1, EditedOK
    <2>3. task.outcome = None BY DEF NoTask
    <2>4. EditTask(t, task, ok) BY <1>1 DEF CreateTask
    <2> HIDE DEF task
    <2> QED BY <2>2, <2>3, <2>4
  <1>2. ASSUME NEW t \in Tasks, PatchTask(t, ok) PROVE Edits
    <2> DEFINE task == [history.tasks[t] EXCEPT !.revision = @ + 1, !.activity = clock]
    <2>1. history.tasks[t].revision + 1 \in 0..MaxRevision
      BY <1>2, <1>t, TaskAttemptsConstants DEF PatchTask, Task
    <2>2. task \in Task /\ task.outcome = history.tasks[t].outcome
      BY <1>0, <1>t, <2>1 DEF Task
    <2>3. EditTask(t, task, ok) BY <1>2 DEF PatchTask
    <2> HIDE DEF task
    <2> QED BY <2>2, <2>3
  <1>3. ASSUME NEW t \in Tasks, NEW lifecycle \in ArchiveCalls, ArchiveTask(t, lifecycle, ok)
        PROVE  Edits
    <2> DEFINE x == IF lifecycle = "archived" THEN clock ELSE 0
               y == [history.tasks[t] EXCEPT !.lifecycle = lifecycle, !.revision = @ + 1,
                                             !.activity = clock]
               task == [history.tasks[t] EXCEPT !.lifecycle = lifecycle, !.revision = @ + 1,
                                                !.activity = clock, !.archived = x]
    <2>1. x \in Times /\ lifecycle \in {"archived", "open"}
      BY <1>0, TaskAttemptsConstants
    <2>2. history.tasks[t].revision + 1 \in 0..MaxRevision
      BY <1>3, <1>t, TaskAttemptsConstants DEF ArchiveTask, Task
    <2>3. EditTask(t, task, ok) BY <1>3 DEF ArchiveTask
    <2> HIDE DEF x
    <2>4. y \in Task BY <1>0, <1>t, <2>1, <2>2, EditedOK
    <2>5. task = [y EXCEPT !.archived = x] /\ y.outcome = history.tasks[t].outcome
      BY <1>t DEF Task
    <2> HIDE DEF y, task
    <2>6. task \in Task /\ task.outcome = y.outcome BY <2>1, <2>4, <2>5 DEF Task
    <2> QED BY <2>3, <2>5, <2>6
  <1>4. ASSUME NEW t \in Tasks, NEW key \in Keys, NEW intent \in Intents,
               AdmitRoot(t, key, intent, ok)
        PROVE  Admits
    BY <1>4 DEF AdmitRoot
  <1>5. ASSUME NEW parent \in AttemptIds, NEW key \in Keys, NEW intent \in Intents,
               AdmitChild(parent, key, intent, ok)
        PROVE  Admits
    <2>1. history.attempts[parent].task \in Tasks
      BY <1>5 DEF AdmitChild, HistInv, TypeOK, GoodHistory, Placed, Present, Closed, history
    <2>2. parent # None BY DEF AttemptIds, None
    <2> QED BY <1>5, <2>1, <2>2 DEF AdmitChild
  <1> QED BY <1>1, <1>2, <1>3, <1>4, <1>5 DEF Requests

LEMMA RequestsReg == ASSUME RegInv, NEW ok \in BOOLEAN, Requests(ok) PROVE RegInv'
  BY RequestsAre, EditReg, AdmitReg

\* A write that updates, removes or leaves one attempt of the current registry.
LEMMA HandlerReg ==
  ASSUME RegInv, NEW ok \in BOOLEAN, StartRun \/ StartRefused \/ Handling(ok)
  PROVE  RegInv'
  <1> USE DEF RegInv
  <1> DEFINE a == adm.attempt
  <1>0. /\ history \in History /\ clock \in Times /\ cur \in Registries /\ seq \in Nat
        /\ adm.activity \in Times /\ GoodHistory(history, seq)
        /\ \A b \in AttemptIds : Recorded(runs[b])
    BY Bounded DEF HistInv, TypeOK, history
  <1>a. adm.pc # "idle" => a \in AttemptIds /\ Present(history, a) /\ todo = {}
    BY DEF TypeOK, HistInv
  <1>1. CASE StartRun
    <2> DEFINE x == [status |-> "queued", linked |-> TRUE, started |-> clock, finished |-> 0]
    <2>1. x \in Run /\ x.status # "absent" BY Bounded DEF Run, Statuses, Open
    <2>2. a \in AttemptIds /\ todo = {} /\ runs' = [runs EXCEPT ![a] = x]
      BY <1>1, <1>a DEF StartRun
    <2> HIDE DEF x
    <2>3. runs' \in [AttemptIds -> Run] /\ \A b \in AttemptIds : Recorded(runs'[b])
      BY <1>0, <2>1, <2>2 DEF TypeOK, Recorded
    <2>4. TypeOK' BY <1>1, <2>2, <2>3 DEF StartRun, TypeOK, Handler, store
    <2> QED BY <1>1, <2>2, <2>3, <2>4 DEF StartRun, Handler, HistInv, store, TypeOK, history
  <1>2. CASE StartRefused
    <2>1. budget' \in Bounds
      BY <1>2, TaskAttemptsConstants DEF StartRefused, TypeOK, Bounds, Spend
    <2>2. TypeOK' BY <1>2, <2>1 DEF StartRefused, TypeOK, Handler, store, service
    <2> QED BY <1>2, <1>a, <2>2
          DEF StartRefused, Handler, HistInv, store, service, TypeOK, history
  <1>3. CASE UndoAdmission(ok)
    <2> DEFINE new == RemoveAttempt(history, a, adm.activity)
    <2>1. a \in AttemptIds /\ todo = {} /\ adm' = Idle BY <1>3, <1>a DEF UndoAdmission
    <2>2. /\ new \in History /\ new.attempts[a] = NoAttempt
          /\ \A b \in AttemptIds \ {a} : new.attempts[b] = history.attempts[b]
      BY <1>0, <2>1, RemoveOK
    <2>3. Update(cur, new, ok) BY <1>3 DEF UndoAdmission
    <2> HIDE DEF new
    <2>4. GoodHistory(new, seq) BY <1>0, <2>1, <2>2, GoodRemoved
    <2>5. GoodHistory(disk', seq) /\ \A q \in Registries : GoodHistory(mem'[q], seq)
      BY <1>0, <2>2, <2>3, <2>4, StoreGood
    <2>6. TypeOK'
      BY <1>0, <1>3, <2>1, <2>2, <2>3, UpdateOK, Bounded DEF UndoAdmission, TypeOK, service, Idle
    <2> QED BY <1>0, <1>3, <2>1, <2>5, <2>6 DEF UndoAdmission, HistInv, service, Idle
  <1>4. CASE MirrorAdmitted(ok)
    <2> DEFINE new == Mirror(history, a, runs[a])
    <2>1. a \in AttemptIds /\ todo = {} /\ adm' = Idle /\ Present(history, a)
      BY <1>4, <1>a DEF MirrorAdmitted
    <2>2. /\ new \in History
          /\ \A b \in AttemptIds \ {a} : new.attempts[b] = history.attempts[b]
          /\ new.attempts[a].task = history.attempts[a].task
          /\ new.attempts[a].key = history.attempts[a].key
          /\ new.attempts[a].parent = history.attempts[a].parent
      BY <1>0, <2>1, MirrorFollows DEF TypeOK
    <2>3. Update(cur, new, ok) BY <1>4 DEF MirrorAdmitted
    <2> HIDE DEF new
    <2>4. GoodHistory(new, seq) BY <1>0, <2>1, <2>2, GoodUpdated
    <2>5. GoodHistory(disk', seq) /\ \A q \in Registries : GoodHistory(mem'[q], seq)
      BY <1>0, <2>2, <2>3, <2>4, StoreGood
    <2>6. Watched(a, cur) \subseteq Watcher /\ \A w \in Watched(a, cur) : Recorded(w.info)
      BY <1>0, <2>1, NoRunOK DEF Watched, Watcher, Recorded
    <2>7. watch' = watch \cup Watched(a, cur) BY <1>4 DEF MirrorAdmitted
    <2>8. TypeOK'
      BY <1>0, <1>4, <2>1, <2>2, <2>3, <2>6, <2>7, UpdateOK, Bounded
      DEF MirrorAdmitted, TypeOK, service, Idle
    <2> QED BY <1>0, <1>4, <2>1, <2>5, <2>6, <2>7, <2>8
          DEF MirrorAdmitted, HistInv, service, Idle
  <1> QED BY <1>1, <1>2, <1>3, <1>4 DEF Handling

LEMMA WatchReg ==
  ASSUME RegInv, NEW w \in watch, NEW ok \in BOOLEAN, WatchApply(w, ok) \/ WatchRead(w)
  PROVE  RegInv'
  <1> USE DEF RegInv
  <1> DEFINE a == w.attempt
             r == w.registry
             h == mem[r]
             next == [w EXCEPT !.info = NoRun]
  <1>0. /\ a \in AttemptIds /\ r \in Registries /\ w.info \in Run /\ h \in History
        /\ Recorded(w.info) /\ GoodHistory(h, seq) /\ seq \in Nat /\ clock \in Times
        /\ runs[a] \in Run /\ Recorded(runs[a])
    BY Bounded DEF HistInv, TypeOK, Watcher
  <1>1. CASE WatchRead(w)
    <2> DEFINE read == [w EXCEPT !.info = runs[a]]
    <2>1. read \in Watcher /\ read.info = runs[a] BY <1>0 DEF TypeOK, Watcher
    <2> HIDE DEF read
    <2>2. watch' \subseteq watch \cup {read} BY <1>1 DEF WatchRead, read
    <2>3. TypeOK' BY <1>1, <2>1, <2>2 DEF WatchRead, TypeOK, store, service
    <2>4. \A v \in watch' : Recorded(v.info) BY <1>0, <2>1, <2>2 DEF HistInv
    <2> QED BY <1>1, <2>3, <2>4 DEF WatchRead, HistInv, store, service, history
  <1>2. CASE WatchApply(w, ok)
    <2> DEFINE new == Mirror(h, a, w.info)
    <2>1. next \in Watcher /\ next.info = NoRun /\ Recorded(next.info)
      BY NoRunOK DEF TypeOK, Watcher, Recorded
    <2>2. /\ watch' \subseteq watch \cup {next} /\ w.info # NoRun
          /\ \/ NeedsUpdate(h, a, w.info) /\ Update(r, new, ok)
             \/ UNCHANGED <<store, budget>>
          /\ UNCHANGED <<clock, service, adm, seq, todo, stage>>
      BY <1>2 DEF WatchApply
    <2> HIDE DEF next, new
    <2>3. \A v \in watch' : v \in Watcher /\ Recorded(v.info)
      BY <2>1, <2>2 DEF HistInv, TypeOK
    <2>4. CASE UNCHANGED <<store, budget>>
      <3>1. TypeOK' BY <2>2, <2>3, <2>4 DEF TypeOK, store, service
      <3> QED BY <2>2, <2>3, <2>4, <3>1 DEF HistInv, store, service, history
    <2>5. CASE NeedsUpdate(h, a, w.info) /\ Update(r, new, ok)
      <3>1. /\ new \in History /\ \A b \in AttemptIds \ {a} : new.attempts[b] = h.attempts[b]
            /\ new.attempts[a].task = h.attempts[a].task
            /\ new.attempts[a].key = h.attempts[a].key
            /\ new.attempts[a].parent = h.attempts[a].parent
            /\ new.attempts[a].status = w.info.status
        <4>1. new = Mirror(h, a, w.info) BY DEF new
        <4>2. h \in History /\ a \in AttemptIds /\ w.info \in Run /\ clock \in Times BY <1>0
        <4> HIDE DEF h, a
        <4> QED BY <4>1, <4>2, MirrorFollows
      <3>2. Present(h, a) /\ Present(new, a)
        BY <2>2, <2>5, <1>0, <3>1 DEF NeedsUpdate, Present, Recorded
      <3>3. GoodHistory(new, seq) BY <1>0, <3>1, <3>2, GoodUpdated
      <3>4. GoodHistory(disk', seq) /\ \A q \in Registries : GoodHistory(mem'[q], seq)
        BY <1>0, <2>5, <3>1, <3>3, StoreGood
      <3>5. TypeOK'
        BY <1>0, <2>2, <2>3, <2>5, <3>1, UpdateOK DEF TypeOK, service
      <3>6. \A b \in AttemptIds : Present(mem[cur], b) => Present(mem'[cur'], b)
        <4>1. cur' = cur /\ cur \in Registries /\ mem'[cur] \in {mem[cur], new}
              /\ (mem'[cur] = new /\ mem'[cur] # mem[cur] => cur = r)
          BY <1>0, <2>5, <3>1, UpdateOK, StoreKeeps DEF TypeOK
        <4> QED BY <3>1, <3>2, <4>1 DEF Present
      <3>7. /\ adm.pc # "idle" => adm.attempt \in AttemptIds
            /\ todo \subseteq AttemptIds
        BY DEF TypeOK
      <3> QED BY <2>2, <2>3, <3>4, <3>5, <3>6, <3>7 DEF HistInv, service, history
    <2> QED BY <2>2, <2>4, <2>5
  <1> QED BY <1>1, <1>2

LEMMA ReconcileReg ==
  ASSUME RegInv, NEW ok \in BOOLEAN, ReconcileAttempt(ok)
  PROVE  RegInv'
  <1> USE DEF RegInv
  <1>1. PICK a \in todo :
          LET run == runs[a]
          IN /\ \/ Update(cur, MarkUnavailable(history, a), ok)
                \/ NeedsUpdate(history, a, run) /\ Update(cur, Mirror(history, a, run), ok)
                \/ UNCHANGED <<store, budget>>
             /\ watch' = watch \cup (IF run.status \in Open THEN Watched(a, cur) ELSE {})
             /\ todo' = todo \ {a}
    BY DEF ReconcileAttempt
  <1>2. UNCHANGED <<clock, service, adm, seq, stage>> BY DEF ReconcileAttempt
  <1>3. /\ a \in AttemptIds /\ cur \in Registries /\ history \in History /\ runs[a] \in Run
        /\ Recorded(runs[a]) /\ GoodHistory(history, seq) /\ seq \in Nat /\ clock \in Times
        /\ Present(history, a) /\ adm.pc = "idle"
    BY Bounded DEF HistInv, TypeOK, history
  <1>4. \A w \in watch' : w \in Watcher /\ Recorded(w.info)
    <2>1. \A w \in Watched(a, cur) : w \in Watcher /\ Recorded(w.info)
      BY <1>3, NoRunOK DEF Watched, Watcher, Recorded
    <2> QED BY <1>1, <2>1 DEF HistInv, TypeOK
  <1>5. \A b \in todo' : b \in todo /\ b # a BY <1>1
  <1>6. CASE UNCHANGED <<store, budget>>
    <2>1. TypeOK' BY <1>1, <1>2, <1>4, <1>6 DEF TypeOK, store, service
    <2> QED BY <1>2, <1>3, <1>4, <1>5, <1>6, <2>1 DEF HistInv, store, service, history
  <1>7. ASSUME NEW new \in History, Update(cur, new, ok),
               \A b \in AttemptIds \ {a} : new.attempts[b] = history.attempts[b],
               new.attempts[a].task = history.attempts[a].task,
               new.attempts[a].key = history.attempts[a].key,
               new.attempts[a].parent = history.attempts[a].parent
        PROVE  RegInv'
    <2>1. GoodHistory(new, seq) BY <1>3, <1>7, GoodUpdated
    <2>2. GoodHistory(disk', seq) /\ \A q \in Registries : GoodHistory(mem'[q], seq)
      BY <1>3, <1>7, <2>1, StoreGood
    <2>3. TypeOK' BY <1>1, <1>2, <1>3, <1>4, <1>7, UpdateOK DEF TypeOK, service
    <2>4. cur' = cur /\ mem'[cur] \in {history, new}
      BY <1>3, <1>7, UpdateOK, StoreKeeps DEF history
    <2>5. todo \subseteq AttemptIds /\ \A b \in todo : Present(history, b)
      BY DEF TypeOK, HistInv
    <2>6. \A b \in todo' : Present(mem'[cur'], b)
      BY <1>5, <1>7, <2>4, <2>5 DEF Present
    <2> QED BY <1>2, <1>3, <1>4, <2>2, <2>3, <2>6 DEF HistInv, service, history
  <1>8. CASE Update(cur, MarkUnavailable(history, a), ok)
    BY <1>3, <1>7, <1>8, UnavailableOK
  <1>9. CASE Update(cur, Mirror(history, a, runs[a]), ok)
    BY <1>3, <1>7, <1>9, MirrorFollows
  <1> QED BY <1>1, <1>6, <1>8, <1>9

LEMMA ReloadReg == ASSUME RegInv, ReloadRegistry PROVE RegInv'
  <1> USE DEF RegInv
  <1>1. cur + 1 \in Registries /\ AttemptIds \cap todo' = todo'
    BY TaskAttemptsConstants DEF ReloadRegistry, TypeOK, Registries, OpenAttempts
  <1>2. mem' \in [Registries -> History] /\ mem'[cur'] = disk /\ disk' = disk
        /\ \A q \in Registries : mem'[q] \in {mem[q], disk}
    BY <1>1 DEF ReloadRegistry, TypeOK
  <1>3. TypeOK' BY <1>1, <1>2 DEF ReloadRegistry, TypeOK, service
  <1>4. \A a \in todo' : Present(disk, a) BY DEF ReloadRegistry, OpenAttempts, Present, Open
  <1>5. adm.pc = "idle" BY DEF ReloadRegistry, Serving
  <1> QED BY <1>2, <1>3, <1>4, <1>5 DEF ReloadRegistry, HistInv, service, history

LEMMA StopReg == ASSUME RegInv, ShutdownBegins \/ ServiceCloses PROVE RegInv'
  <1> USE DEF RegInv
  <1>1. CASE ShutdownBegins
    <2>1. TypeOK' BY <1>1 DEF ShutdownBegins, TypeOK, store, service
    <2> QED BY <1>1, <2>1 DEF ShutdownBegins, HistInv, store, service, history
  <1>2. CASE ServiceCloses
    <2>1. runs' \in [AttemptIds -> Run] /\ \A b \in AttemptIds : Recorded(runs'[b])
      BY <1>2, EndRunOK DEF ServiceCloses, Closed, TypeOK, HistInv
    <2>2. TypeOK' BY <1>2, <2>1 DEF ServiceCloses, TypeOK, store
    <2> QED BY <1>2, <2>1, <2>2 DEF ServiceCloses, HistInv, store, history
  <1> QED BY <1>1, <1>2

LEMMA RestartReg ==
  ASSUME RegInv, NEW resume \in AttemptIds \cup {None, Foreign}, Restart(resume)
  PROVE  RegInv'
  <1> USE DEF RegInv
  <1>1. \A a \in AttemptIds : runs'[a] \in Run /\ Recorded(runs'[a])
    <2> TAKE a \in AttemptIds
    <2> DEFINE x == Reread(runs[a])
    <2>1. x \in Run /\ Recorded(x)
      BY RereadOK DEF TypeOK, HistInv, Recorded
    <2>2. [x EXCEPT !.status = "failed", !.finished = clock] \in Run
          /\ [x EXCEPT !.status = "failed", !.finished = clock].status = "failed"
      BY <2>1, Bounded DEF Run, Statuses, Closed
    <2>3. runs'[a] = IF runs[a].status \in Open /\ a # resume
                     THEN [x EXCEPT !.status = "failed", !.finished = clock] ELSE x
      BY DEF Restart
    <2> HIDE DEF x
    <2> QED BY <2>1, <2>2, <2>3 DEF Recorded
  <1>2. budget' \in Bounds
    <2>1. budget \in Bounds /\ budget.restarts < MaxRestarts /\ Spend("restarts")
      BY DEF Restart, TypeOK
    <2>2. MaxRestarts \in Nat BY TaskAttemptsConstants
    <2>3. budget.restarts + 1 \in 0..MaxRestarts BY <2>1, <2>2 DEF Bounds
    <2> QED BY <2>1, <2>3 DEF Bounds, Spend
  <1>3. resuming' \in AttemptIds \cup {None} BY DEF Restart
  <1>4. runs' \in [AttemptIds -> Run] BY <1>1 DEF Restart
  <1>5. TypeOK'
    BY <1>2, <1>3, <1>4, Bounded DEF Restart, TypeOK, Idle, OpenAttempts
  <1>6. \A a \in todo' : Present(disk, a) BY DEF Restart, OpenAttempts, Present, Open
  <1> QED BY <1>1, <1>5, <1>6, Bounded DEF Restart, HistInv, Idle, history, TypeOK

LEMMA RegStep == RegInv /\ [Next]_vars => RegInv'
  <1> SUFFICES ASSUME RegInv, [Next]_vars PROVE RegInv' OBVIOUS
  <1>1. CASE UNCHANGED vars
    <2>1. UNCHANGED <<store, server>> /\ UNCHANGED <<clock, service, budget>>
      BY <1>1 DEF vars
    <2> QED BY <2>1, ServiceStep DEF RegInv, TypeOK, HistInv, service
  <1>2. ASSUME NEW ok \in BOOLEAN, NEW a \in AttemptIds, WatchStep(a, ok) PROVE RegInv'
    BY <1>2, WatchReg DEF WatchStep
  <1>3. CASE Next
    BY <1>2, <1>3, TickReg, HandlerReg, ForeignReg, RunStepsReg, ReloadReg, StopReg,
       RequestsReg, ReconcileReg, RestartReg DEF Next
  <1> QED BY <1>1, <1>3

LEMMA RegAlways == Spec => []RegInv
  BY RegInit, RegStep, PTL DEF Spec

\* TypeOK: types hold in every instance.
THEOREM TypesHold == Spec => []TypeOK
  <1>1. RegInv => TypeOK BY DEF RegInv
  <1> QED BY <1>1, RegAlways, PTL

\* OneAttemptPerRequest: a key admits one attempt of a task and a task has one first
\* attempt, with any number of restarts and of registries that write over each other.
THEOREM RequestsAreOnce == Spec => []OneAttemptPerRequest
  <1>1. RegInv => OneAttemptPerRequest
    BY DEF RegInv, TypeOK, HistInv, GoodHistory, Unique, OneAttemptPerRequest, history
  <1> QED BY <1>1, RegAlways, PTL

-----------------------------------------------------------------------------
(***************************************************************************)
(* No watcher of a reopened Registry: runs, attempts and watchers agree    *)
(***************************************************************************)

\* A closed attempt that this record of its run would not change.
Settled(attempt, run) ==
  run.linked => /\ run.status = attempt.status
                /\ run.finished # 0 => run.finished = attempt.finished

Unwatched(a) == \A w \in watch : w.attempt # a

\* The file holds what the registry in use holds.
Home == mem[cur] = disk

\* No watcher is left over from a Registry that resetTaskRegistryLocked has replaced.
NoOldWatcher == \A w \in watch : w.registry = cur

\* The attempt under admission is open, without a watcher, and without a run until
\* the run service has accepted it.
AdmissionInv ==
  adm.pc # "idle" =>
    /\ Unwatched(adm.attempt)
    /\ history.attempts[adm.attempt].status \in Open
    /\ adm.pc \in {"start", "undo"} =>
         history.attempts[adm.attempt].status = "queued" /\ runs[adm.attempt] = NoRun

\* What the loop after a restart has left is open and without a watcher.
TodoInv == \A a \in todo : history.attempts[a].status \in Open /\ Unwatched(a)

\* An attempt is never ahead of its run.
RunsInv ==
  \A a \in AttemptIds :
    /\ a > seq => runs[a] = NoRun
    /\ runs[a].status = "queued" => history.attempts[a].status = "queued"
    /\ runs[a].status \in Open => history.attempts[a].status \in Open

SlotsInv ==
  /\ pending \in AttemptIds => runs[pending].status = "queued" /\ pending # active
  /\ resuming # None => runs[resuming].status = "running"

\* A watcher is the only one of its attempt, and what it has read is either the past of
\* the run or its end; once the attempt is closed neither would change it.
WatchInv ==
  /\ \A v, w \in watch : v.attempt = w.attempt => v = w
  /\ \A w \in watch :
       LET attempt == history.attempts[w.attempt]
           run == runs[w.attempt]
       IN /\ w.attempt <= seq
          /\ w.info.status \in Closed => run \in {w.info, NoRun}
          /\ w.info.status = "queued" => attempt.status = "queued"
          /\ w.info.status = "running" => run.status # "queued"
          /\ attempt.status \in Closed => Settled(attempt, w.info) /\ Settled(attempt, run)

OneWaits ==
  \A a, b \in AttemptIds :
    history.attempts[a].status = "queued" /\ history.attempts[b].status = "queued" => a = b

DurInv ==
  /\ Home /\ AdmissionInv /\ TodoInv /\ RunsInv /\ SlotsInv /\ WatchInv
  /\ OutcomeIsReal /\ OneWaits

\* The step keeps closed attempts.
EndsKept ==
  \A a \in AttemptIds :
    history.attempts[a].status \in Closed => history'.attempts[a] = history.attempts[a]

\* What may become of a run's record while its attempt is not looked at.
Moves(r, s) ==
  \/ s \in {r, NoRun}
  \/ /\ r.status \in Open
     /\ \/ s.status \in Closed /\ s.linked = r.linked
        \/ r.status = "queued" /\ s.status = "running" /\ s.linked = r.linked
        \/ s.status = r.status /\ ~s.linked

LEMMA RunMoved ==
  ASSUME RegInv, DurInv, UNCHANGED <<store, adm, seq, watch, todo>>,
         \A a \in AttemptIds : Moves(runs[a], runs'[a]), SlotsInv'
  PROVE  DurInv' /\ EndsKept
  <1>1. history' = history BY DEF history, store
  <1>2. \A a \in AttemptIds :
          /\ runs[a] = NoRun => runs'[a] = NoRun
          /\ runs'[a].status = "queued" => runs[a].status = "queued"
          /\ runs'[a].status \in Open => runs[a].status \in Open
          /\ runs[a].status \notin Open => runs'[a] \in {runs[a], NoRun}
          /\ ~runs[a].linked => ~runs'[a].linked
    BY NoRunOK DEF Moves, Open, Closed
  <1>3. RunsInv' BY <1>1, <1>2 DEF DurInv, RunsInv
  <1>4. AdmissionInv'
    BY <1>1, <1>2 DEF DurInv, AdmissionInv, Unwatched, RegInv, TypeOK
  <1>5. TodoInv' BY <1>1 DEF DurInv, TodoInv, Unwatched
  <1>6. WatchInv'
    <2>1. ASSUME NEW w \in watch
          PROVE  LET attempt == history.attempts[w.attempt]
                     run == runs'[w.attempt]
                 IN /\ w.info.status \in Closed => run \in {w.info, NoRun}
                    /\ w.info.status = "running" => run.status # "queued"
                    /\ attempt.status \in Closed => Settled(attempt, run)
      <3>1. w.attempt \in AttemptIds BY DEF RegInv, TypeOK, Watcher
      <3>2. Closed \cap Open = {} BY DEF Closed, Open
      <3> QED BY <1>2, <3>1, <3>2, NoRunOK DEF DurInv, WatchInv, Settled
    <2> QED BY <1>1, <2>1 DEF DurInv, WatchInv
  <1>7. Home' /\ OutcomeIsReal' /\ OneWaits'
    BY <1>1 DEF DurInv, Home, OutcomeIsReal, OneWaits, store
  <1>8. EndsKept BY <1>1 DEF EndsKept
  <1> QED BY <1>3, <1>4, <1>5, <1>6, <1>7, <1>8 DEF DurInv

\* An update of the registry that rewrites attempt a, which is not closed.
LEMMA AttemptWritten ==
  ASSUME RegInv, DurInv, NEW ok \in BOOLEAN, NEW a \in AttemptIds, NEW new \in History,
         Update(cur, new, ok), runs' = runs, seq' >= seq, seq' \in Nat,
         history.attempts[a].status \notin Closed,
         \A b \in AttemptIds \ {a} : new.attempts[b] = history.attempts[b],
         new.attempts[a].status = "queued" =>
           \A b \in AttemptIds \ {a} : history.attempts[b].status # "queued",
         runs[a].status = "queued" => new.attempts[a].status = "queued",
         runs[a].status \in Open => new.attempts[a].status \in Open,
         \A t \in Tasks :
           LET o == new.tasks[t].outcome
           IN \/ o \in {history.tasks[t].outcome, None}
              \/ o = a /\ t = new.attempts[a].task /\ new.attempts[a].status = "succeeded"
  PROVE  /\ Home' /\ RunsInv' /\ OutcomeIsReal' /\ OneWaits' /\ EndsKept
         /\ \A b \in AttemptIds \ {a} : history'.attempts[b] = history.attempts[b]
         /\ \/ history' = new /\ Published(new, ok)
            \/ history' = history /\ ~Published(new, ok)
  <1>1. cur \in Registries /\ mem \in [Registries -> History] /\ mem[cur] = disk
    BY DEF RegInv, TypeOK, DurInv, Home
  <1>2. /\ Home'
        /\ \/ history' = new /\ Published(new, ok)
           \/ history' = history /\ ~Published(new, ok)
    BY <1>1, UpdateOK DEF RegInv, Home, history
  <1>3. \A b \in AttemptIds \ {a} : history'.attempts[b] = history.attempts[b] BY <1>2
  <1>4. RunsInv'
    <2>1. \A b \in AttemptIds : b > seq' => b > seq BY DEF RegInv, TypeOK, AttemptIds
    <2> QED BY <1>2, <1>3, <2>1 DEF DurInv, RunsInv
  <1>5. OneWaits' BY <1>2, <1>3 DEF DurInv, OneWaits
  <1>6. EndsKept BY <1>3 DEF EndsKept
  <1>7. OutcomeIsReal'
    <2>1. CASE history' = history BY <2>1 DEF DurInv, OutcomeIsReal
    <2>2. CASE history' = new
      <3> SUFFICES ASSUME NEW t \in Tasks, new.tasks[t].outcome # None
                   PROVE  LET o == new.tasks[t].outcome
                          IN new.attempts[o].status = "succeeded" /\ new.attempts[o].task = t
        BY <2>2 DEF OutcomeIsReal
      <3>1. CASE new.tasks[t].outcome = history.tasks[t].outcome
        <4>1. history.tasks[t].outcome \in AttemptIds \cup {None}
          BY Bounded DEF RegInv, History, Task
        <4> QED BY <3>1, <4>1 DEF DurInv, OutcomeIsReal, Closed
      <3>2. CASE new.tasks[t].outcome # history.tasks[t].outcome BY <3>2
      <3> QED BY <3>1, <3>2
    <2> QED BY <1>2, <2>1, <2>2
  <1> QED BY <1>2, <1>3, <1>4, <1>5, <1>6, <1>7

LEMMA DurInit == Init => DurInv
  <1> SUFFICES ASSUME Init PROVE DurInv OBVIOUS
  <1>1. 0 \in Registries /\ mem[0] = EmptyHistory BY TaskAttemptsConstants DEF Init, Registries
  <1>2. Home /\ history = EmptyHistory BY <1>1 DEF Init, Home, history
  <1>3. \A a \in AttemptIds : history.attempts[a].status = "absent"
    BY <1>2 DEF EmptyHistory, NoAttempt
  <1>4. \A t \in Tasks : history.tasks[t].outcome = None
    BY <1>2 DEF EmptyHistory, NoTask
  <1>5. \A a \in AttemptIds : runs[a] = NoRun /\ runs[a].status = "absent"
    BY NoRunOK DEF Init
  <1>6. RunsInv BY <1>3, <1>5 DEF RunsInv, Open
  <1>7. SlotsInv BY DEF Init, SlotsInv, AttemptIds, None
  <1>8. AdmissionInv /\ TodoInv /\ WatchInv
    BY DEF Init, Idle, AdmissionInv, TodoInv, WatchInv
  <1> QED BY <1>2, <1>3, <1>4, <1>6, <1>7, <1>8 DEF DurInv, OutcomeIsReal, OneWaits

LEMMA EndRunMoves ==
  ASSUME RegInv, NEW a \in AttemptIds, NEW status \in Closed, runs[a].status \in Open
  PROVE  \A b \in AttemptIds :
           /\ Moves(runs[b], EndRun(a, status)[b])
           /\ b # a /\ runs[b].status \in Open => EndRun(a, status)[b] = runs[b]
  <1>1. TypeOK BY DEF RegInv
  <1>2. TAKE b \in AttemptIds
  <1>3. b # a => EndRun(a, status)[b] \in {runs[b], NoRun} BY <1>1, EndRunOK
  <1>4. b # a /\ runs[b].status \in Open => EndRun(a, status)[b] = runs[b] BY <1>1, EndRunOK
  <1>5. \/ EndRun(a, status)[a] = NoRun
        \/ /\ EndRun(a, status)[a].status \in Closed
           /\ EndRun(a, status)[a].linked = runs[a].linked
    BY <1>1, EndRunOK
  <1> QED BY <1>3, <1>4, <1>5 DEF Moves

LEMMA RunStepsDur == ASSUME RegInv, DurInv, RunSteps PROVE DurInv' /\ EndsKept
  <1> USE DEF RegInv
  <1>0. /\ SlotsInv /\ None \notin AttemptIds /\ runs \in [AttemptIds -> Run]
        /\ pending \in AttemptIds \cup {None, Foreign} /\ resuming \in AttemptIds \cup {None}
    BY DEF DurInv, TypeOK, None, AttemptIds
  <1>1. ASSUME NEW a \in AttemptIds, RunStarts(a) PROVE DurInv' /\ EndsKept
    <2>1. /\ runs' \in [AttemptIds -> Run] /\ runs'[a].status = "running"
          /\ runs'[a].linked = runs[a].linked /\ runs[a].status = "queued"
          /\ \A b \in AttemptIds \ {a} : runs'[b] = runs[b]
      <3>1. runs[a] \in Run BY <1>0
      <3>2. [runs[a] EXCEPT !.status = "running"] \in Run BY <3>1 DEF Run, Statuses, Open
      <3>3. [runs[a] EXCEPT !.status = "running"].linked = runs[a].linked
            /\ [runs[a] EXCEPT !.status = "running"].status = "running"
        BY <3>1 DEF Run
      <3> QED BY <1>0, <1>1, <3>2, <3>3 DEF RunStarts
    <2>2. \A b \in AttemptIds : Moves(runs[b], runs'[b]) BY <2>1 DEF Moves, Open
    <2>3. SlotsInv' BY <1>0, <1>1, <2>1 DEF RunStarts, SlotsInv
    <2> QED BY <1>1, <2>2, <2>3, RunMoved DEF RunStarts, server
  <1>2. ASSUME NEW a \in AttemptIds, ResumedRunStarts(a) PROVE DurInv' /\ EndsKept
    <2>1. /\ runs'[a].status = runs[a].status /\ ~runs'[a].linked
          /\ runs[a].status = "running"
          /\ \A b \in AttemptIds \ {a} : runs'[b] = runs[b]
      <3>1. runs[a] \in Run /\ resuming = a BY <1>0, <1>2 DEF ResumedRunStarts
      <3>2. [runs[a] EXCEPT !.linked = FALSE].status = runs[a].status BY <3>1 DEF Run
      <3>3. [runs[a] EXCEPT !.linked = FALSE].linked = FALSE BY <3>1 DEF Run
      <3> QED BY <1>0, <1>2, <3>1, <3>2, <3>3 DEF ResumedRunStarts, SlotsInv
    <2>2. \A b \in AttemptIds : Moves(runs[b], runs'[b]) BY <2>1 DEF Moves, Open
    <2>3. SlotsInv' BY <1>0, <1>2, <2>1 DEF ResumedRunStarts, SlotsInv
    <2> QED BY <1>2, <2>2, <2>3, RunMoved DEF ResumedRunStarts, server
  <1>3. ASSUME NEW a \in AttemptIds, NEW status \in Closed, RunEnds(a, status)
        PROVE  DurInv' /\ EndsKept
    <2>1. runs' = EndRun(a, status) /\ runs[a].status \in Open BY <1>3 DEF RunEnds
    <2>2. \A b \in AttemptIds : Moves(runs[b], runs'[b])
      BY <2>1, EndRunMoves
    <2>3. SlotsInv' BY <1>0, <1>3, <2>1, EndRunMoves DEF RunEnds, SlotsInv, Open
    <2> QED BY <1>3, <2>2, <2>3, RunMoved DEF RunEnds, server
  <1>4. ASSUME NEW a \in AttemptIds, CancelPending(a) PROVE DurInv' /\ EndsKept
    <2>1. runs' = EndRun(a, "canceled") /\ runs[a].status = "queued" /\ "canceled" \in Closed
      BY <1>0, <1>4 DEF CancelPending, SlotsInv, Closed
    <2>2. \A b \in AttemptIds : Moves(runs[b], runs'[b])
      BY <2>1, EndRunMoves DEF Open
    <2>3. SlotsInv' BY <1>0, <1>4, <2>1, EndRunMoves DEF CancelPending, SlotsInv, Open
    <2> QED BY <1>4, <2>2, <2>3, RunMoved DEF CancelPending, server
  <1>5. CASE FinishAsyncRun
    <2>1. \A b \in AttemptIds : Moves(runs[b], runs'[b]) BY <1>5 DEF FinishAsyncRun, Moves
    <2>2. SlotsInv' BY <1>0, <1>5 DEF FinishAsyncRun, SlotsInv
    <2> QED BY <1>5, <2>1, <2>2, RunMoved DEF FinishAsyncRun, server
  <1> QED BY <1>1, <1>2, <1>3, <1>4, <1>5 DEF RunSteps

LEMMA ServiceDur ==
  ASSUME RegInv, DurInv, ForeignStart \/ ForeignQueue \/ ServiceCloses
  PROVE  DurInv' /\ EndsKept
  <1> USE DEF RegInv
  <1>0. /\ SlotsInv /\ None \notin AttemptIds /\ Foreign \notin AttemptIds /\ None # Foreign
        /\ runs \in [AttemptIds -> Run] /\ resuming \in AttemptIds \cup {None}
        /\ pending \in AttemptIds \cup {None, Foreign} /\ "canceled" \in Closed
    BY TaskAttemptsConstants DEF DurInv, TypeOK, None, Foreign, AttemptIds, Closed
  <1>1. ASSUME pending \in AttemptIds, runs' = EndRun(pending, "canceled"),
               pending' \notin AttemptIds, resuming' = resuming
        PROVE  SlotsInv' /\ \A b \in AttemptIds : Moves(runs[b], runs'[b])
    <2>1. runs[pending].status = "queued" BY <1>0, <1>1 DEF SlotsInv
    <2>2. \A b \in AttemptIds : Moves(runs[b], runs'[b])
      BY <1>0, <1>1, <2>1, EndRunMoves DEF Open
    <2>3. SlotsInv' BY <1>0, <1>1, <2>1, EndRunMoves DEF SlotsInv, Open
    <2> QED BY <2>2, <2>3
  <1>2. ASSUME runs' = runs, pending' \notin AttemptIds, resuming' = resuming
        PROVE  SlotsInv' /\ \A b \in AttemptIds : Moves(runs[b], runs'[b])
    BY <1>0, <1>2 DEF SlotsInv, Moves
  <1>3. CASE ForeignStart
    <2>1. SlotsInv' /\ \A b \in AttemptIds : Moves(runs[b], runs'[b])
      BY <1>0, <1>3 DEF ForeignStart, SlotsInv, Moves
    <2> QED BY <1>3, <2>1, RunMoved DEF ForeignStart, server
  <1>4. CASE ForeignQueue
    <2>1. pending \in AttemptIds \cup {None} BY <1>0, <1>4 DEF ForeignQueue
    <2>2. SlotsInv' /\ \A b \in AttemptIds : Moves(runs[b], runs'[b])
      BY <1>0, <1>1, <1>2, <1>4, <2>1 DEF ForeignQueue
    <2> QED BY <1>4, <2>2, RunMoved DEF ForeignQueue, server
  <1>5. CASE ServiceCloses
    <2>1. SlotsInv' /\ \A b \in AttemptIds : Moves(runs[b], runs'[b])
      BY <1>0, <1>1, <1>2, <1>5 DEF ServiceCloses
    <2> QED BY <1>5, <2>1, RunMoved DEF ServiceCloses
  <1> QED BY <1>3, <1>4, <1>5

LEMMA IdleDur ==
  ASSUME RegInv, DurInv, Tick \/ ShutdownBegins \/ UNCHANGED vars
  PROVE  DurInv' /\ EndsKept
  <1>1. UNCHANGED <<store, service, adm, seq, watch, todo>>
    BY DEF Tick, ShutdownBegins, vars, server
  <1>2. \A b \in AttemptIds : Moves(runs[b], runs'[b]) BY <1>1 DEF service, Moves
  <1>3. SlotsInv' BY <1>1 DEF DurInv, SlotsInv, service
  <1> QED BY <1>1, <1>2, <1>3, RunMoved

LEMMA EditDur ==
  ASSUME RegInv, DurInv, NEW t \in Tasks, NEW task \in Task, NEW ok \in BOOLEAN,
         EditTask(t, task, ok), task.outcome \in {None, history.tasks[t].outcome}
  PROVE  DurInv' /\ EndsKept
  <1> DEFINE new == [history EXCEPT !.tasks[t] = task]
  <1>1. /\ new \in History /\ new.attempts = history.attempts
        /\ \A u \in Tasks : new.tasks[u].outcome \in {None, history.tasks[u].outcome}
    BY NewTaskOK DEF RegInv
  <1>2. Update(cur, new, ok) /\ UNCHANGED <<service, server>> BY DEF EditTask
  <1> HIDE DEF new
  <1>3. cur \in Registries /\ mem \in [Registries -> History] /\ mem[cur] = disk
    BY DEF RegInv, TypeOK, DurInv, Home
  <1>4. Home' /\ history' \in {history, new}
    BY <1>1, <1>2, <1>3, UpdateOK DEF RegInv, Home, history
  <1>5. history'.attempts = history.attempts BY <1>1, <1>4
  <1>6. OutcomeIsReal'
    BY <1>1, <1>4, <1>5 DEF DurInv, OutcomeIsReal
  <1>7. SlotsInv' /\ RunsInv' BY <1>2, <1>5 DEF DurInv, SlotsInv, RunsInv, service, server
  <1>8. AdmissionInv' /\ TodoInv' /\ WatchInv'
    BY <1>2, <1>5 DEF DurInv, AdmissionInv, TodoInv, Unwatched, WatchInv, service, server
  <1>9. OneWaits' /\ EndsKept BY <1>5 DEF DurInv, OneWaits, EndsKept
  <1> QED BY <1>4, <1>6, <1>7, <1>8, <1>9 DEF DurInv

LEMMA AdmitDur ==
  ASSUME RegInv, DurInv, NEW t \in Tasks, NEW key \in Keys, NEW intent \in Intents,
         NEW parent \in AttemptIds \cup {None}, NEW ok \in BOOLEAN,
         Admit(t, key, intent, parent, ok)
  PROVE  DurInv' /\ EndsKept
  <1> USE DEF RegInv
  <1> DEFINE new == Appended(t, key, parent)
             a == seq + 1
  <1>1. /\ seq < MaxAttempts /\ adm.pc = "idle" /\ todo = {} /\ HasCapacity(intent)
        /\ Update(cur, new, ok) /\ seq' = a
        /\ adm' = IF Published(new, ok)
                  THEN [pc |-> "start", attempt |-> a, activity |-> history.tasks[t].activity]
                  ELSE Idle
        /\ UNCHANGED <<clock, service, watch, todo, stage>>
    BY DEF Admit, Appended, Serving
  <1>2. seq \in Nat /\ a \in Nat /\ a > seq /\ AttemptIds \subseteq Nat BY Bounded
  <1>3. /\ new \in History /\ a \in AttemptIds
        /\ \A b \in AttemptIds \ {a} : new.attempts[b] = history.attempts[b]
        /\ new.attempts[a].status = "queued"
        /\ \A u \in Tasks : new.tasks[u].outcome = history.tasks[u].outcome
    BY <1>1, AppendedOK
  <1>4. /\ runs[a] = NoRun /\ runs[a].status = "absent"
        /\ history.attempts[a].status = "absent" /\ Unwatched(a)
    <2>1. runs[a] = NoRun BY <1>2, <1>3 DEF DurInv, RunsInv
    <2>2. history.attempts[a].status = "absent"
      BY <1>2, <1>3 DEF HistInv, TypeOK, GoodHistory, Undrawn, Present, history
    <2>3. \A w \in watch : w.attempt <= seq /\ w.attempt \in Nat
      BY <1>2 DEF DurInv, WatchInv, TypeOK, Watcher
    <2>4. Unwatched(a) BY <1>2, <2>3 DEF Unwatched
    <2> QED BY <2>1, <2>2, <2>4, NoRunOK
  <1> HIDE DEF new, a
  <1>5. \A b \in AttemptIds : history.attempts[b].status # "queued"
    BY <1>1 DEF HasCapacity
  <1>6. runs' = runs /\ seq' >= seq /\ seq' \in Nat BY <1>1, <1>2 DEF service
  <1>7. /\ Home' /\ RunsInv' /\ OutcomeIsReal' /\ OneWaits' /\ EndsKept
        /\ \A b \in AttemptIds \ {a} : history'.attempts[b] = history.attempts[b]
        /\ \/ history' = new /\ Published(new, ok)
           \/ history' = history /\ ~Published(new, ok)
    BY <1>1, <1>3, <1>4, <1>5, <1>6, AttemptWritten DEF Closed, Open
  <1>8. SlotsInv' BY <1>1 DEF DurInv, SlotsInv, service
  <1>9. AdmissionInv'
    BY <1>1, <1>3, <1>4, <1>6, <1>7 DEF AdmissionInv, Idle, Unwatched, Open
  <1>10. TodoInv' BY <1>1 DEF TodoInv
  <1>11. WatchInv'
    <2>1. \A w \in watch : w.attempt \in AttemptIds \ {a} /\ w.attempt <= seq'
      <3> TAKE w \in watch
      <3>1. w.attempt \in AttemptIds /\ w.attempt <= seq /\ w.attempt # a
        BY <1>4 DEF DurInv, WatchInv, Unwatched, TypeOK, Watcher
      <3>2. w.attempt \in Nat BY <1>2, <3>1
      <3> QED BY <1>2, <1>6, <3>1, <3>2
    <2> QED BY <1>1, <1>6, <1>7, <2>1 DEF DurInv, WatchInv
  <1> QED BY <1>7, <1>8, <1>9, <1>10, <1>11 DEF DurInv


LEMMA RequestsDur ==
  ASSUME RegInv, DurInv, NEW ok \in BOOLEAN, Requests(ok) PROVE DurInv' /\ EndsKept
  BY RequestsAre, EditDur, AdmitDur

\* An update that rewrites an attempt nobody watches, whoever makes it.
LEMMA FollowDur ==
  ASSUME RegInv, DurInv, NEW ok \in BOOLEAN, NEW a \in AttemptIds, NEW new \in History,
         NEW fresh, fresh.attempt = a, fresh.info = NoRun,
         Update(cur, new, ok), UNCHANGED <<service, seq>>,
         adm'.pc = "idle", todo' \subseteq todo \ {a}, watch' \subseteq watch \cup {fresh},
         a <= seq, Unwatched(a), history.attempts[a].status \notin Closed,
         \A b \in AttemptIds \ {a} : new.attempts[b] = history.attempts[b],
         new.attempts[a].status = "queued" => history.attempts[a].status = "queued",
         runs[a].status = "queued" => new.attempts[a].status = "queued",
         runs[a].status \in Open => new.attempts[a].status \in Open,
         new.attempts[a].status \in Closed => Settled(new.attempts[a], runs[a]),
         \A t \in Tasks :
           LET o == new.tasks[t].outcome
           IN \/ o \in {history.tasks[t].outcome, None}
              \/ o = a /\ t = new.attempts[a].task /\ new.attempts[a].status = "succeeded"
  PROVE  DurInv' /\ EndsKept
  <1> USE DEF RegInv
  <1>1. runs' = runs /\ seq' >= seq /\ seq' \in Nat BY Bounded DEF service
  <1>2. new.attempts[a].status = "queued" =>
          \A b \in AttemptIds \ {a} : history.attempts[b].status # "queued"
    BY DEF DurInv, OneWaits
  <1>3. /\ Home' /\ RunsInv' /\ OutcomeIsReal' /\ OneWaits' /\ EndsKept
        /\ \A b \in AttemptIds \ {a} : history'.attempts[b] = history.attempts[b]
        /\ history' \in {new, history}
    BY <1>1, <1>2, AttemptWritten
  <1>4. SlotsInv' BY DEF DurInv, SlotsInv, service
  <1>5. AdmissionInv' BY DEF AdmissionInv
  <1>6. \A w \in watch : w.attempt \in AttemptIds \ {a}
    BY DEF Unwatched, TypeOK, Watcher
  <1>7. TodoInv'
    <2>1. \A b \in todo' : b \in todo /\ b \in AttemptIds \ {a} BY DEF TypeOK
    <2> QED BY <1>3, <2>1 DEF DurInv, TodoInv, Unwatched
  <1>8. WatchInv'
    <2>1. \A v, w \in watch' : v.attempt = w.attempt => v = w
      BY <1>6 DEF DurInv, WatchInv
    <2>2. ASSUME NEW w \in watch'
          PROVE  LET attempt == history'.attempts[w.attempt]
                     run == runs[w.attempt]
                 IN /\ w.attempt <= seq
                    /\ w.info.status \in Closed => run \in {w.info, NoRun}
                    /\ w.info.status = "queued" => attempt.status = "queued"
                    /\ w.info.status = "running" => run.status # "queued"
                    /\ attempt.status \in Closed =>
                         Settled(attempt, w.info) /\ Settled(attempt, run)
      <3>1. CASE w \in watch BY <1>3, <1>6, <3>1 DEF DurInv, WatchInv
      <3>2. CASE w = fresh
        <4>1. history'.attempts[a].status \in Closed => Settled(history'.attempts[a], runs[a])
          BY <1>3
        <4> QED BY <3>2, <4>1, NoRunOK DEF Settled, Closed
      <3> QED BY <2>2, <3>1, <3>2
    <2> QED BY <1>1, <2>1, <2>2 DEF WatchInv, service
  <1> QED BY <1>3, <1>4, <1>5, <1>7, <1>8 DEF DurInv

LEMMA HandlerDur ==
  ASSUME RegInv, DurInv, NEW ok \in BOOLEAN, StartRun \/ StartRefused \/ Handling(ok)
  PROVE  DurInv' /\ EndsKept
  <1> USE DEF RegInv
  <1> DEFINE a == adm.attempt
  <1>1. /\ adm.pc # "idle" /\ a \in AttemptIds /\ todo = {} /\ a <= seq /\ seq \in Nat
        /\ history \in History /\ clock \in Times /\ adm.activity \in Times
        /\ runs[a] \in Run /\ AttemptIds \subseteq Nat
    <2>1. adm.pc # "idle"
      BY DEF Handling, StartRun, StartRefused, UndoAdmission, MirrorAdmitted
    <2>2. /\ a \in AttemptIds /\ todo = {} /\ adm.activity \in Times /\ runs[a] \in Run
          /\ seq \in Nat /\ AttemptIds \subseteq Nat /\ Present(history, a)
          /\ Undrawn(history, seq)
      BY <2>1, Bounded DEF TypeOK, HistInv, GoodHistory, history
    <2>3. a \in Nat /\ ~(a > seq) BY <2>2 DEF Undrawn
    <2>4. a <= seq BY <2>2, <2>3
    <2> QED BY <2>1, <2>2, <2>4, Bounded
  <1>2. /\ Unwatched(a) /\ history.attempts[a].status \in Open
        /\ history.attempts[a].status \notin Closed
        /\ adm.pc \in {"start", "undo"} =>
             history.attempts[a].status = "queued" /\ runs[a] = NoRun
    BY <1>1 DEF DurInv, AdmissionInv, Open, Closed
  <1>3. \A w \in watch : w.attempt \in AttemptIds \ {a}
    BY <1>2 DEF Unwatched, TypeOK, Watcher
  <1>4. CASE StartRun
    <2> DEFINE x == [status |-> "queued", linked |-> TRUE, started |-> clock, finished |-> 0]
    <2>1. /\ runs' = [runs EXCEPT ![a] = x] /\ x.status = "queued" /\ adm.pc = "start"
          /\ UNCHANGED <<store, resuming, seq, watch, todo>> /\ adm' = [adm EXCEPT !.pc = "mirror"]
      BY <1>4 DEF StartRun, Handler
    <2> HIDE DEF x
    <2>2. /\ runs'[a].status = "queued" /\ \A b \in AttemptIds \ {a} : runs'[b] = runs[b]
          /\ history' = history /\ adm'.pc = "mirror" /\ adm'.attempt = a
          /\ runs[a].status = "absent"
      BY <1>1, <1>2, <2>1, NoRunOK DEF TypeOK, store, history
    <2>3. RunsInv' BY <1>1, <1>2, <2>1, <2>2 DEF DurInv, RunsInv
    <2>4. SlotsInv'
      <3>1. None \notin AttemptIds /\ Foreign \notin AttemptIds
        BY TaskAttemptsConstants DEF None, Foreign, AttemptIds
      <3>2. pending \in AttemptIds => pending # a /\ runs[pending].status = "queued"
        BY <2>2 DEF DurInv, SlotsInv
      <3>3. resuming # None => resuming \in AttemptIds \ {a} /\ runs[resuming].status = "running"
        BY <2>2 DEF DurInv, SlotsInv, TypeOK
      <3>4. IsActiveRun => active # a BY <1>1, <2>2, <3>1 DEF IsActiveRun, Open
      <3>5. active' = (IF IsActiveRun THEN active ELSE a) /\ pending' = (IF IsActiveRun THEN a ELSE pending)
        BY <1>4 DEF StartRun
      <3> QED BY <1>1, <2>1, <2>2, <3>2, <3>3, <3>4, <3>5 DEF DurInv, SlotsInv
    <2>5. AdmissionInv' BY <1>2, <2>1, <2>2 DEF AdmissionInv, Unwatched
    <2>6. WatchInv' BY <1>3, <2>1, <2>2 DEF DurInv, WatchInv
    <2>7. Home' /\ TodoInv' /\ OutcomeIsReal' /\ OneWaits' /\ EndsKept
      BY <1>1, <2>1, <2>2 DEF DurInv, Home, TodoInv, OutcomeIsReal, OneWaits, EndsKept, store
    <2> QED BY <2>3, <2>4, <2>5, <2>6, <2>7 DEF DurInv
  <1>5. CASE StartRefused
    <2>1. /\ adm.pc = "start" /\ adm' = [adm EXCEPT !.pc = "undo"] /\ history' = history
          /\ UNCHANGED <<store, service, seq, watch, todo>>
      BY <1>5 DEF StartRefused, Handler, store, history
    <2>2. AdmissionInv' BY <1>2, <2>1 DEF AdmissionInv, Unwatched, service, TypeOK
    <2> QED BY <2>1, <2>2 DEF DurInv, Home, TodoInv, RunsInv, SlotsInv, WatchInv, OutcomeIsReal,
                              OneWaits, EndsKept, Unwatched, store, service
  <1>6. CASE UndoAdmission(ok)
    <2> DEFINE new == RemoveAttempt(history, a, adm.activity)
               fresh == [attempt |-> a, info |-> NoRun]
    <2>0. a \in AttemptIds /\ history \in History /\ adm.activity \in Times BY <1>1
    <2>1. /\ new \in History /\ new.attempts[a] = NoAttempt
          /\ \A b \in AttemptIds \ {a} : new.attempts[b] = history.attempts[b]
          /\ \A t \in Tasks : new.tasks[t].outcome = history.tasks[t].outcome
      <3>1. PICK n : n = new OBVIOUS
      <3>2. PICK activity : activity = adm.activity OBVIOUS
      <3>3. PICK b \in AttemptIds : b = a BY <2>0
      <3>4. n = RemoveAttempt(history, b, activity) /\ activity \in Times
        BY <2>0, <3>1, <3>2, <3>3
      <3> HIDE DEF new, a
      <3> QED BY <2>0, <3>1, <3>3, <3>4, RemoveOK
    <2>2. new.attempts[a].status = "absent" BY <2>1 DEF NoAttempt
    <2>3. /\ Update(cur, new, ok) /\ adm'.pc = "idle" /\ adm.pc = "undo"
          /\ UNCHANGED <<service, seq, watch, todo>>
      BY <1>6 DEF UndoAdmission, Idle
    <2>4. runs[a] = NoRun /\ runs[a].status = "absent" BY <1>2, <2>3, NoRunOK
    <2>5. fresh.attempt = a /\ fresh.info = NoRun OBVIOUS
    <2> HIDE DEF new, fresh, a
    <2> QED BY <1>1, <1>2, <2>1, <2>2, <2>3, <2>4, <2>5, FollowDur DEF Closed, Open
  <1>7. CASE MirrorAdmitted(ok)
    <2> DEFINE new == Mirror(history, a, runs[a])
               fresh == [attempt |-> a, registry |-> cur, info |-> NoRun]
    <2>1. /\ Update(cur, new, ok) /\ adm'.pc = "idle" /\ watch' \subseteq watch \cup {fresh}
          /\ UNCHANGED <<service, seq, todo>>
      BY <1>7 DEF MirrorAdmitted, Idle, Watched
    <2>2. fresh.attempt = a /\ fresh.info = NoRun OBVIOUS
    <2>3. /\ new \in History
          /\ \A b \in AttemptIds \ {a} : new.attempts[b] = history.attempts[b]
          /\ new.attempts[a].status = runs[a].status
          /\ new.attempts[a].task = history.attempts[a].task
          /\ runs[a].finished # 0 => new.attempts[a].finished = runs[a].finished
      <3>1. new = Mirror(history, a, runs[a]) OBVIOUS
      <3>2. history \in History /\ a \in AttemptIds /\ runs[a] \in Run /\ clock \in Times BY <1>1
      <3> HIDE DEF new, a
      <3> QED BY <3>1, <3>2, MirrorFollows
    <2>4. \A t \in Tasks :
            LET o == new.tasks[t].outcome
            IN \/ o \in {history.tasks[t].outcome, None}
               \/ o = a /\ t = new.attempts[a].task /\ new.attempts[a].status = "succeeded"
      <3>1. new = Mirror(history, a, runs[a]) OBVIOUS
      <3>2. history \in History /\ a \in AttemptIds /\ runs[a] \in Run /\ clock \in Times BY <1>1
      <3> HIDE DEF new, a
      <3> QED BY <3>1, <3>2, MirrorFollows
    <2> HIDE DEF new, fresh, a
    <2>5. Settled(new.attempts[a], runs[a]) BY <2>3 DEF Settled
    <2>6. runs[a].status = "queued" => history.attempts[a].status = "queued"
      BY <1>1 DEF DurInv, RunsInv
    <2> QED BY <1>1, <1>2, <2>1, <2>2, <2>3, <2>4, <2>5, <2>6, FollowDur
  <1> QED BY <1>4, <1>5, <1>6, <1>7 DEF Handling

LEMMA ReconcileDur ==
  ASSUME RegInv, DurInv, NEW ok \in BOOLEAN, ReconcileAttempt(ok) PROVE DurInv' /\ EndsKept
  <1> USE DEF RegInv
  <1>1. PICK a \in todo :
          LET run == runs[a]
          IN /\ \/ run = NoRun /\ Update(cur, MarkUnavailable(history, a), ok)
                \/ Update(cur, Mirror(history, a, run), ok)
                \/ UNCHANGED <<store, budget>>
             /\ watch' = watch \cup (IF run.status \in Open THEN Watched(a, cur) ELSE {})
             /\ todo' = todo \ {a}
    BY DEF ReconcileAttempt
  <1> DEFINE fresh == [attempt |-> a, registry |-> cur, info |-> NoRun]
  <1>2. /\ watch' \subseteq watch \cup {fresh} /\ fresh.attempt = a /\ fresh.info = NoRun
        /\ UNCHANGED <<service, seq>> /\ adm'.pc = "idle"
    BY <1>1 DEF ReconcileAttempt, Watched, HistInv
  <1>3. /\ a \in AttemptIds /\ history \in History /\ runs[a] \in Run /\ clock \in Times
        /\ Unwatched(a) /\ history.attempts[a].status \in Open
        /\ history.attempts[a].status \notin Closed /\ seq \in Nat /\ AttemptIds \subseteq Nat
        /\ Undrawn(history, seq) /\ todo # {}
    BY Bounded DEF TypeOK, DurInv, TodoInv, Open, Closed, HistInv, GoodHistory, history
  <1>4. a \in Nat /\ ~(a > seq) BY <1>3 DEF Undrawn, Present, Open
  <1>5. a <= seq BY <1>3, <1>4
  <1>6. runs[a].status = "queued" => history.attempts[a].status = "queued"
    BY <1>3 DEF DurInv, RunsInv
  <1> HIDE DEF fresh
  <1>7. CASE runs[a] = NoRun /\ Update(cur, MarkUnavailable(history, a), ok)
    <2> DEFINE new == MarkUnavailable(history, a)
    <2>1. /\ new \in History /\ new.attempts[a].status = "failed"
          /\ \A b \in AttemptIds \ {a} : new.attempts[b] = history.attempts[b]
          /\ \A t \in Tasks : new.tasks[t].outcome \in {history.tasks[t].outcome, None}
      BY <1>3, UnavailableOK
    <2> HIDE DEF new
    <2>2. Settled(new.attempts[a], runs[a]) BY <1>7, NoRunOK DEF Settled
    <2>3. runs[a].status = "absent" BY <1>7, NoRunOK
    <2>4. Update(cur, new, ok) BY <1>7 DEF new
    <2> QED BY <1>1, <1>2, <1>3, <1>5, <2>1, <2>2, <2>3, <2>4, FollowDur DEF Open
  <1>8. CASE Update(cur, Mirror(history, a, runs[a]), ok)
    <2> DEFINE new == Mirror(history, a, runs[a])
    <2>1. /\ new \in History
          /\ \A b \in AttemptIds \ {a} : new.attempts[b] = history.attempts[b]
          /\ new.attempts[a].status = runs[a].status
          /\ new.attempts[a].task = history.attempts[a].task
          /\ runs[a].finished # 0 => new.attempts[a].finished = runs[a].finished
      <3>1. new = Mirror(history, a, runs[a]) OBVIOUS
      <3>2. history \in History /\ a \in AttemptIds /\ runs[a] \in Run /\ clock \in Times BY <1>3
      <3> HIDE DEF new
      <3> QED BY <3>1, <3>2, MirrorFollows
    <2>2. \A t \in Tasks :
            LET o == new.tasks[t].outcome
            IN \/ o \in {history.tasks[t].outcome, None}
               \/ o = a /\ t = new.attempts[a].task /\ new.attempts[a].status = "succeeded"
      <3>1. new = Mirror(history, a, runs[a]) OBVIOUS
      <3>2. history \in History /\ a \in AttemptIds /\ runs[a] \in Run /\ clock \in Times BY <1>3
      <3> HIDE DEF new
      <3> QED BY <3>1, <3>2, MirrorFollows
    <2>3. Update(cur, new, ok) BY <1>8
    <2> HIDE DEF new
    <2>4. Settled(new.attempts[a], runs[a]) BY <2>1 DEF Settled
    <2> QED BY <1>1, <1>2, <1>3, <1>5, <1>6, <2>1, <2>2, <2>3, <2>4, FollowDur
  <1>9. CASE UNCHANGED <<store, budget>>
    <2>1. history' = history /\ UNCHANGED <<store, service, seq>>
      BY <1>2, <1>9 DEF store, history
    <2>2. \A w \in watch : w.attempt \in AttemptIds \ {a}
      BY <1>3 DEF Unwatched, TypeOK, Watcher
    <2>3. WatchInv'
      <3>1. \A v, w \in watch' : v.attempt = w.attempt => v = w
        BY <1>2, <2>2 DEF DurInv, WatchInv
      <3>2. ASSUME NEW w \in watch'
            PROVE  LET attempt == history.attempts[w.attempt]
                       run == runs[w.attempt]
                   IN /\ w.attempt <= seq
                      /\ w.info.status \in Closed => run \in {w.info, NoRun}
                      /\ w.info.status = "queued" => attempt.status = "queued"
                      /\ w.info.status = "running" => run.status # "queued"
                      /\ attempt.status \in Closed =>
                           Settled(attempt, w.info) /\ Settled(attempt, run)
        <4>1. CASE w \in watch BY <4>1 DEF DurInv, WatchInv
        <4>2. CASE w = fresh BY <1>2, <1>3, <1>5, <4>2, NoRunOK DEF Closed
        <4> QED BY <1>2, <4>1, <4>2
      <3> QED BY <2>1, <3>1, <3>2 DEF WatchInv, service
    <2>4. TodoInv'
      <3>1. \A b \in todo' : b \in todo /\ b # a BY <1>1
      <3> QED BY <1>2, <2>1, <3>1 DEF DurInv, TodoInv, Unwatched
    <2>5. AdmissionInv' BY <1>2 DEF AdmissionInv
    <2> QED BY <2>1, <2>3, <2>4, <2>5 DEF DurInv, Home, RunsInv, SlotsInv, OutcomeIsReal,
                                         OneWaits, EndsKept, store, service
  <1> QED BY <1>1, <1>7, <1>8, <1>9

LEMMA WatchReadDur ==
  ASSUME RegInv, DurInv, NEW w \in watch, WatchRead(w) PROVE DurInv' /\ EndsKept
  <1> USE DEF RegInv
  <1> DEFINE a == w.attempt
             read == [w EXCEPT !.info = runs[a]]
  <1>1. /\ history' = history /\ UNCHANGED <<store, service, adm, seq, todo>>
        /\ watch' \subseteq (watch \ {w}) \cup {read}
    BY DEF WatchRead, store, history
  <1>2. /\ w \in Watcher /\ a \in AttemptIds /\ read.attempt = a /\ read.info = runs[a]
    BY DEF TypeOK, Watcher
  <1> HIDE DEF a, read
  <1>3. \A v \in watch' : \E u \in watch : u.attempt = v.attempt
    BY <1>1, <1>2 DEF a
  <1>4. AdmissionInv' /\ TodoInv'
    BY <1>1, <1>3 DEF DurInv, AdmissionInv, TodoInv, Unwatched, service
  <1>5. WatchInv'
    <2>1. \A u, v \in watch' : u.attempt = v.attempt => u = v
      BY <1>1, <1>2 DEF DurInv, WatchInv, a
    <2>2. ASSUME NEW v \in watch'
          PROVE  LET attempt == history.attempts[v.attempt]
                     run == runs[v.attempt]
                 IN /\ v.attempt <= seq
                    /\ v.info.status \in Closed => run \in {v.info, NoRun}
                    /\ v.info.status = "queued" => attempt.status = "queued"
                    /\ v.info.status = "running" => run.status # "queued"
                    /\ attempt.status \in Closed =>
                         Settled(attempt, v.info) /\ Settled(attempt, run)
      <3>1. CASE v \in watch BY <3>1 DEF DurInv, WatchInv
      <3>2. CASE v = read
        <4>1. /\ a <= seq
              /\ history.attempts[a].status \in Closed => Settled(history.attempts[a], runs[a])
          BY DEF DurInv, WatchInv, a
        <4> QED BY <1>2, <3>2, <4>1 DEF DurInv, RunsInv
      <3> QED BY <1>1, <3>1, <3>2
    <2> QED BY <1>1, <2>1, <2>2 DEF WatchInv, service
  <1> QED BY <1>1, <1>4, <1>5 DEF DurInv, Home, RunsInv, SlotsInv, OutcomeIsReal,
                                   OneWaits, EndsKept, store, service

\* What a watcher does to its own attempt concerns no handler, loop or other watcher.
LEMMA OwnAttempt ==
  ASSUME RegInv, DurInv, NEW w \in watch, NEW next, next.attempt = w.attempt, next.info = NoRun,
         watch' \subseteq (watch \ {w}) \cup {next}, UNCHANGED <<runs, adm, seq, todo>>,
         \A b \in AttemptIds \ {w.attempt} : history'.attempts[b] = history.attempts[b],
         history'.attempts[w.attempt].status \in Closed =>
           Settled(history'.attempts[w.attempt], runs[w.attempt])
  PROVE  AdmissionInv' /\ TodoInv' /\ WatchInv'
  <1> USE DEF RegInv
  <1> DEFINE a == w.attempt
  <1>1. a \in AttemptIds /\ a <= seq BY DEF TypeOK, Watcher, DurInv, WatchInv
  <1>2. \A v \in watch' : (v \in watch /\ v.attempt # a) \/ v = next
    BY DEF DurInv, WatchInv
  <1>3. \A v \in watch' : \E u \in watch : u.attempt = v.attempt BY <1>2
  <1>4. AdmissionInv'
    <2>1. adm.pc # "idle" => adm.attempt \in AttemptIds \ {a}
      BY DEF TypeOK, DurInv, AdmissionInv, Unwatched
    <2> QED BY <1>3, <2>1 DEF DurInv, AdmissionInv, Unwatched
  <1>5. TodoInv'
    <2>1. \A b \in todo : b \in AttemptIds \ {a}
      BY DEF TypeOK, DurInv, TodoInv, Unwatched
    <2> QED BY <1>3, <2>1 DEF DurInv, TodoInv, Unwatched
  <1>6. WatchInv'
    <2>1. \A u, v \in watch' : u.attempt = v.attempt => u = v
      BY <1>2 DEF DurInv, WatchInv
    <2>2. ASSUME NEW v \in watch'
          PROVE  LET attempt == history'.attempts[v.attempt]
                     run == runs[v.attempt]
                 IN /\ v.attempt <= seq
                    /\ v.info.status \in Closed => run \in {v.info, NoRun}
                    /\ v.info.status = "queued" => attempt.status = "queued"
                    /\ v.info.status = "running" => run.status # "queued"
                    /\ attempt.status \in Closed =>
                         Settled(attempt, v.info) /\ Settled(attempt, run)
      <3>1. CASE v \in watch /\ v.attempt # a
        <4>1. v.attempt \in AttemptIds \ {a} BY <3>1 DEF TypeOK, Watcher
        <4> QED BY <3>1, <4>1 DEF DurInv, WatchInv
      <3>2. CASE v = next BY <1>1, <3>2, NoRunOK DEF Settled, Closed
      <3> QED BY <1>2, <3>1, <3>2
    <2> QED BY <2>1, <2>2 DEF WatchInv
  <1> QED BY <1>4, <1>5, <1>6

LEMMA WatchApplyDur ==
  ASSUME RegInv, DurInv, NoOldWatcher, NEW w \in watch, NEW ok \in BOOLEAN, WatchApply(w, ok)
  PROVE  DurInv' /\ EndsKept
  <1> USE DEF RegInv
  <1> DEFINE a == w.attempt
             next == [w EXCEPT !.info = NoRun]
             new == Mirror(history, a, w.info)
  <1>1. /\ a \in AttemptIds /\ w.info \in Run /\ w.registry = cur /\ history \in History
        /\ clock \in Times /\ runs[a] \in Run /\ next.attempt = a /\ next.info = NoRun
        /\ seq \in Nat /\ Recorded(w.info)
    <2>1. w \in Watcher /\ w.registry = cur BY DEF TypeOK, NoOldWatcher
    <2> QED BY <2>1, Bounded DEF TypeOK, Watcher, HistInv
  <1>2. /\ watch' \subseteq (watch \ {w}) \cup {next} /\ w.info # NoRun
        /\ \/ NeedsUpdate(history, a, w.info) /\ Update(cur, new, ok)
           \/ UNCHANGED <<store, budget>>
        /\ UNCHANGED <<clock, service, adm, seq, todo, stage>>
    BY <1>1 DEF WatchApply, history
  <1>3. /\ w.info.status \in Closed => runs[a] \in {w.info, NoRun}
        /\ w.info.status = "queued" => history.attempts[a].status = "queued"
        /\ w.info.status = "running" => runs[a].status # "queued"
        /\ history.attempts[a].status \in Closed =>
             Settled(history.attempts[a], w.info) /\ Settled(history.attempts[a], runs[a])
    BY DEF DurInv, WatchInv
  <1> HIDE DEF next
  <1>4. SlotsInv' BY <1>2 DEF DurInv, SlotsInv, service
  <1>5. CASE UNCHANGED <<store, budget>>
    <2>1. history' = history BY <1>5 DEF store, history
    <2>2. AdmissionInv' /\ TodoInv' /\ WatchInv'
      BY <1>1, <1>2, <1>3, <2>1, OwnAttempt DEF service
    <2> QED BY <1>2, <1>4, <1>5, <2>1, <2>2 DEF DurInv, Home, RunsInv, OutcomeIsReal,
                                             OneWaits, EndsKept, store, service
  <1>6. CASE NeedsUpdate(history, a, w.info) /\ Update(cur, new, ok)
    <2>1. history.attempts[a].status \notin Closed
      BY <1>3, <1>6 DEF NeedsUpdate, Settled, Closed
    <2>2. /\ new \in History
          /\ \A b \in AttemptIds \ {a} : new.attempts[b] = history.attempts[b]
          /\ new.attempts[a].status = w.info.status
          /\ new.attempts[a].task = history.attempts[a].task
          /\ w.info.finished # 0 => new.attempts[a].finished = w.info.finished
      <3>1. new = Mirror(history, a, w.info) OBVIOUS
      <3>2. history \in History /\ a \in AttemptIds /\ w.info \in Run /\ clock \in Times BY <1>1
      <3> HIDE DEF new, a
      <3> QED BY <3>1, <3>2, MirrorFollows
    <2>3. \A t \in Tasks :
            LET o == new.tasks[t].outcome
            IN \/ o \in {history.tasks[t].outcome, None}
               \/ o = a /\ t = new.attempts[a].task /\ new.attempts[a].status = "succeeded"
      <3>1. new = Mirror(history, a, w.info) OBVIOUS
      <3>2. history \in History /\ a \in AttemptIds /\ w.info \in Run /\ clock \in Times BY <1>1
      <3> HIDE DEF new, a
      <3> QED BY <3>1, <3>2, MirrorFollows
    <2>4. w.info.status \in Open \cup Closed
      BY <1>1, <1>2 DEF Recorded, Run, Statuses
    <2>5. new.attempts[a].status \in Closed => Settled(new.attempts[a], runs[a])
      BY <1>3, <2>2, NoRunOK DEF Settled
    <2>6. /\ runs[a].status = "queued" => new.attempts[a].status = "queued"
          /\ runs[a].status \in Open => new.attempts[a].status \in Open
      BY <1>3, <2>2, <2>4, NoRunOK DEF Open, Closed
    <2>7. new.attempts[a].status = "queued" =>
            \A b \in AttemptIds \ {a} : history.attempts[b].status # "queued"
      BY <1>1, <1>3, <2>2 DEF DurInv, OneWaits
    <2>8. Update(cur, new, ok) BY <1>6
    <2>9. runs' = runs /\ seq' >= seq /\ seq' \in Nat BY <1>1, <1>2 DEF service
    <2> HIDE DEF a, new
    <2>10. /\ Home' /\ RunsInv' /\ OutcomeIsReal' /\ OneWaits' /\ EndsKept
           /\ \A b \in AttemptIds \ {a} : history'.attempts[b] = history.attempts[b]
           /\ history' \in {new, history}
      BY <1>1, <2>1, <2>2, <2>3, <2>5, <2>6, <2>7, <2>8, <2>9, AttemptWritten
    <2>11. AdmissionInv' /\ TodoInv' /\ WatchInv'
      BY <1>1, <1>2, <1>3, <2>1, <2>5, <2>9, <2>10, OwnAttempt DEF a
    <2> QED BY <1>4, <2>10, <2>11 DEF DurInv
  <1> QED BY <1>2, <1>5, <1>6

LEMMA RestartDur ==
  ASSUME RegInv, DurInv, NEW resume \in AttemptIds \cup {None, Foreign}, Restart(resume)
  PROVE  DurInv' /\ EndsKept
  <1> USE DEF RegInv
  <1>1. /\ disk' = disk /\ cur' = 0 /\ seq' = seq /\ adm'.pc = "idle" /\ watch' = {}
        /\ pending' = None /\ todo' = OpenAttempts(disk) /\ 0 \in Registries
        /\ mem' = [r \in Registries |-> disk] /\ None \notin AttemptIds /\ Foreign \notin AttemptIds
    <2>1. None \notin AttemptIds /\ Foreign \notin AttemptIds
      BY TaskAttemptsConstants DEF None, Foreign, AttemptIds
    <2>2. 0 \in Registries BY TaskAttemptsConstants DEF Registries
    <2>3. adm'.pc = "idle" BY DEF Restart, Idle
    <2> QED BY <2>1, <2>2, <2>3 DEF Restart, None
  <1>2. Home' /\ history' = history BY <1>1 DEF DurInv, Home, history
  <1>3. \A a \in AttemptIds :
          /\ runs'[a].status \in Open => a = resume /\ runs[a].status = "running"
                                         /\ runs'[a].status = "running"
          /\ a = resume => runs'[a].status = "running"
          /\ runs[a] = NoRun => runs'[a] = NoRun
    <2> TAKE a \in AttemptIds
    <2> DEFINE x == Reread(runs[a])
               failed == [x EXCEPT !.status = "failed", !.finished = clock]
    <2>1. x \in Run /\ x.status = runs[a].status /\ (runs[a] = NoRun => x = NoRun)
      BY RereadOK DEF TypeOK
    <2>2. failed.status = "failed" BY <2>1 DEF Run
    <2>3. runs'[a] = IF runs[a].status \in Open /\ a # resume THEN failed ELSE x
      BY DEF Restart
    <2>4. a = resume => runs[a].status = "running" BY <1>1 DEF Restart
    <2> HIDE DEF x, failed
    <2> QED BY <2>1, <2>2, <2>3, <2>4, NoRunOK DEF Open
  <1>4. RunsInv' BY <1>1, <1>2, <1>3 DEF DurInv, RunsInv, Open
  <1>5. SlotsInv' BY <1>1, <1>3 DEF SlotsInv, Restart
  <1>6. TodoInv'
    <2>1. \A a \in todo' : history.attempts[a].status \in Open
      BY <1>1 DEF OpenAttempts, DurInv, Home, history
    <2> QED BY <1>1, <1>2, <2>1 DEF TodoInv, Unwatched
  <1>7. AdmissionInv' /\ WatchInv' BY <1>1 DEF AdmissionInv, WatchInv
  <1> QED BY <1>2, <1>4, <1>5, <1>6, <1>7 DEF DurInv, OutcomeIsReal, OneWaits, EndsKept

\* A registry is opened again with no run in flight; without old watchers there is then
\* no watcher at all, and the file is what the old registry held.
LEMMA ReloadDur ==
  ASSUME RegInv, DurInv, NoOldWatcher, NoOldWatcher', ReloadRegistry
  PROVE  DurInv' /\ EndsKept
  <1>1. /\ cur' = cur + 1 /\ cur + 1 \in Registries /\ cur \in Nat
        /\ mem' = [mem EXCEPT ![cur + 1] = disk] /\ disk' = disk
        /\ todo' = OpenAttempts(disk) /\ adm.pc = "idle"
        /\ UNCHANGED <<service, adm, seq, watch>>
    BY TaskAttemptsConstants DEF ReloadRegistry, Serving, RegInv, TypeOK, Registries
  <1>2. watch' = {}
    <2>1. \A w \in watch' : w.registry = cur /\ w.registry = cur + 1
      BY <1>1 DEF NoOldWatcher
    <2> QED BY <1>1, <2>1
  <1>3. Home' /\ history' = history
    BY <1>1 DEF RegInv, TypeOK, DurInv, Home, history
  <1>4. RunsInv' /\ SlotsInv' BY <1>1, <1>3 DEF DurInv, RunsInv, SlotsInv, service
  <1>5. TodoInv'
    <2>1. \A a \in todo' : history.attempts[a].status \in Open
      BY <1>1 DEF OpenAttempts, DurInv, Home, history
    <2> QED BY <1>2, <1>3, <2>1 DEF TodoInv, Unwatched
  <1>6. AdmissionInv' /\ WatchInv' BY <1>1, <1>2 DEF AdmissionInv, WatchInv
  <1> QED BY <1>3, <1>4, <1>5, <1>6 DEF DurInv, OutcomeIsReal, OneWaits, EndsKept

LEMMA DurStep ==
  ASSUME RegInv, DurInv, NoOldWatcher, NoOldWatcher', [Next]_vars
  PROVE  DurInv' /\ EndsKept
  <1>1. CASE UNCHANGED vars BY <1>1, IdleDur
  <1>2. ASSUME NEW ok \in BOOLEAN, NEW a \in AttemptIds, WatchStep(a, ok)
        PROVE  DurInv' /\ EndsKept
    BY <1>2, WatchApplyDur, WatchReadDur DEF WatchStep
  <1>3. CASE Next
    BY <1>2, <1>3, IdleDur, HandlerDur, ServiceDur, RunStepsDur, RequestsDur, ReloadDur,
       ReconcileDur, RestartDur DEF Next
  <1> QED BY <1>1, <1>3

LEMMA DurAlways == Spec /\ []NoOldWatcher => [](RegInv /\ DurInv)
  <1>1. Init => RegInv /\ DurInv BY RegInit, DurInit
  <1>2. RegInv /\ DurInv /\ NoOldWatcher /\ NoOldWatcher' /\ [Next]_vars => (RegInv /\ DurInv)'
    BY RegStep, DurStep
  <1> QED BY <1>1, <1>2, PTL DEF Spec

\* Where the settings do not change while the process runs there is no old watcher.
LEMMA OneRegistry == ASSUME MaxReloads = 0 PROVE Spec => []NoOldWatcher
  <1>1. RegInv => NoOldWatcher BY DEF RegInv, TypeOK, Watcher, Registries, NoOldWatcher
  <1> QED BY <1>1, RegAlways, PTL

\* RunHasDurableAttempt, as long as settings change only when the watchers have gone:
\* stopping the process at any point, with any number of failed writes, restarts and
\* reopened registries, leaves no run in flight without its open, written attempt.
THEOREM RunsAreDurable == Spec /\ []NoOldWatcher => []RunHasDurableAttempt
  <1>1. DurInv => RunHasDurableAttempt
    BY DEF DurInv, Home, RunsInv, RunHasDurableAttempt, history
  <1> QED BY <1>1, DurAlways, PTL

\* OutcomeIsReal, under the same condition: the outcome of a task is an attempt of it
\* that succeeded.
THEOREM OutcomesAreReal == Spec /\ []NoOldWatcher => []OutcomeIsReal
  <1>1. DurInv => OutcomeIsReal BY DEF DurInv
  <1> QED BY <1>1, DurAlways, PTL

\* TerminalAttemptIsFinal, under the same condition: no watcher of the registry in use,
\* handler, loop, restart, or reload that leaves no watcher behind touches a closed attempt.
THEOREM EndsAreFinal == Spec /\ []NoOldWatcher => TerminalAttemptIsFinal
  <1>1. RegInv /\ DurInv /\ NoOldWatcher /\ NoOldWatcher' /\ [Next]_vars =>
          [\A a \in AttemptIds : history.attempts[a].status \in Closed =>
             history'.attempts[a] = history.attempts[a]]_vars
    BY DurStep DEF EndsKept
  <1> QED BY <1>1, DurAlways, PTL DEF Spec, TerminalAttemptIsFinal

\* CapacityInv, under the same condition: types, and one attempt that waits.
THEOREM OneAttemptWaits == Spec /\ []NoOldWatcher => []CapacityInv
  <1>1. RegInv /\ DurInv => CapacityInv
    <2> SUFFICES ASSUME RegInv, DurInv PROVE OneQueuedAttempt
      BY DEF CapacityInv, RegInv
    <2> DEFINE Q == {a \in AttemptIds : history.attempts[a].status = "queued"}
    <2>1. \A a, b \in Q : a = b BY DEF DurInv, OneWaits
    <2> HIDE DEF Q
    <2>2. Q = {} => Cardinality(Q) = 0 BY FS_EmptySet
    <2>3. ASSUME NEW a \in Q PROVE Cardinality(Q) = 1
      <3>1. Q = {a} BY <2>1, <2>3
      <3> QED BY <3>1, FS_Singleton
    <2>4. Cardinality(Q) \in {0, 1} BY <2>2, <2>3
    <2> QED BY <2>4 DEF OneQueuedAttempt, Q
  <1> QED BY <1>1, DurAlways, PTL
=============================================================================
