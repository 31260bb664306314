------------------------- MODULE RunConsoleProofs -------------------------
(***************************************************************************)
(* Theorems about RunConsole, for any runs, overlapping functions, log     *)
(* lengths, events and failures: what the screen shows belongs to the      *)
(* selected run, and the run that was asked for is the one selected in the *)
(* end.  The inductive invariant, ScreenInv, says for every gate whose     *)
(* request holds it, and for every function at an await, which run it is   *)
(* about.                                                                  *)
(***************************************************************************)
EXTENDS RunConsole, FiniteSetTheorems, WellFoundedInduction, TLAPS

-----------------------------------------------------------------------------
(* The invariant *)

UIFields ==
  {"runId", "status", "list", "logs", "cursor", "eof", "snap", "committed", "arts", "art",
   "statusGate", "logsGate", "artGate", "preview", "sel", "ref", "ready", "failed", "asked"}

ProcFields == {"kind", "run", "pc", "final", "fresh", "cursor", "pages", "aborted", "by"}

SrvTyped == srv \in [Runs -> [status : {"absent", "running", "done", "evicted"}, log : 0..MaxLog]]

\* Retention drops a run only for a newer one.
NewestKept == \A r \in Runs : srv[r].status = "evicted" => \E q \in Known : q > r

Started(r) == r \in Runs /\ srv[r].status # "absent"

\* The state of the hooks: what is on the screen is of the selected run.
UIOK(s) ==
  /\ DOMAIN s = UIFields
  /\ s.runId \in RunOrNone /\ s.status \in Statuses
  /\ s.logs \subseteq Runs \X (0..MaxLog) /\ s.cursor \in 0..MaxLog
  /\ s.statusGate \in Procs \cup {None} /\ s.logsGate \in Procs \cup {None}
  /\ s.artGate \in Procs \cup {None} /\ s.sel \in Procs \cup {None}
  /\ s.runId # None =>
       /\ s.status = None \/ s.status.run = s.runId
       /\ s.snap.run \in {None, s.runId} /\ s.arts \in {None, s.runId}
       /\ s.art = None \/ s.art.run = s.runId
       /\ s.preview \in {None, s.runId}

ProcOK(p) ==
  /\ DOMAIN p = ProcFields
  /\ p.kind \in {"free", "boot", "select", "poll"} /\ p.cursor \in 0..MaxLog
  /\ p.kind = "free" => p.pc = "none" /\ p.by = "user"
  /\ p.kind = "boot" => p.pc \in {"bootList", "bootRest"}
  /\ p.kind = "select" =>
       /\ p.pc \in {"status", "artifacts", "finalArtifacts", "logs", "untilEOF"}
       /\ p.aborted = FALSE /\ Started(p.run)
  /\ p.kind = "poll" =>
       /\ p.pc \in {"list", "status", "pollArtifacts", "untilEOF", "page"}
       /\ p.pc # "list" \/ p.run # None => Started(p.run)
       /\ p.by = "user"

ProcsOK == DOMAIN procs = Procs /\ \A i \in Procs : ProcOK(procs[i])

\* Process i, in state p, holds a gate only while it waits for the request it took the gate
\* for, and only for the selected run.
Holder(s, i, p) ==
  /\ s.statusGate = i =>
       /\ p.pc \in {"status", "finalArtifacts", "pollArtifacts"}
       /\ s.runId # None => p.run = s.runId
  /\ s.artGate = i =>
       /\ p.pc \in {"artifacts", "finalArtifacts", "pollArtifacts"}
       /\ s.runId # None => p.run = s.runId
  /\ s.sel = i /\ p.kind = "select" /\ s.runId # None => p.run = s.runId

HoldersOK == \A i \in Procs : Holder(ui, i, procs[i])

SelectionOK ==
  /\ \A r \in DOMAIN ui.list : Started(r)
  /\ ui.runId # None => Started(ui.runId)
  /\ route # None => Started(route)

\* A bootstrap is under way, by itself or awaiting the selection it made.
Boots(p) == p.kind = "boot" \/ p.by = "boot"

Booting == \E i \in Procs : Boots(procs[i])

\* What the user asked for is selected, or is gone for good.
AskedOK ==
  ui.ready /\ ui.asked /\ ~ui.failed /\ ~Booting /\ route # None /\ ui.ref = route =>
    ui.runId = route \/ (route \notin Known /\ route \notin DOMAIN ui.list)

Bounds == moves \in 0..MaxMoves /\ errs \in 0..MaxErrors

ScreenInv ==
  /\ SrvTyped /\ NewestKept /\ UIOK(ui) /\ ProcsOK /\ HoldersOK /\ SelectionOK /\ AskedOK /\ Bounds

-----------------------------------------------------------------------------
(* The newest run of a set *)

LEMMA NewestOK ==
  ASSUME NEW S \in SUBSET Runs, S # {}
  PROVE  Newest(S) \in S /\ \A q \in S : q <= Newest(S)
  <1>1. PICK last \in Nat : \A r \in Runs : r <= last BY RunConsoleConstants
  <1> DEFINE T == {n \in Nat : last - n \in S}
  <1>2. PICK s \in S : TRUE OBVIOUS
  <1>3. S \subseteq Nat BY RunConsoleConstants
  <1>4. last - s \in T BY <1>1, <1>3
  <1> HIDE DEF T
  <1>5. PICK n \in T : \A m \in T : <<m, n>> \notin {ss \in Nat \X Nat : ss[1] < ss[2]}
    <2>1. T \subseteq Nat /\ T # {} BY <1>4 DEF T
    <2>2. IsWellFoundedOn({ss \in Nat \X Nat : ss[1] < ss[2]}, Nat)
      BY NatLessThanWellFounded, Zenon DEF OpToRel
    <2> QED BY <2>1, <2>2, WFMin, Zenon
  <1>6. n \in Nat /\ last - n \in S BY DEF T
  <1>7. ASSUME NEW q \in S PROVE q <= last - n
    <2>1. q \in Nat /\ q <= last BY <1>1, <1>3
    <2>2. last - q \in Nat BY <2>1
    <2>3. last - q \in T BY <1>7, <2>1, <2>2 DEF T
    <2>4. ~ (last - q < n) BY <1>5, <1>6, <2>2, <2>3
    <2> QED BY <2>1, <2>4, <1>6
  <1> QED BY <1>6, <1>7 DEF Newest

\* pickBootstrapRun picks a listed run if there is one.
LEMMA PickOK ==
  ASSUME NEW list, DOMAIN list \subseteq Runs
  PROVE  /\ pickBootstrapRun(list) = None => DOMAIN list = {}
         /\ pickBootstrapRun(list) # None => pickBootstrapRun(list) \in DOMAIN list
  <1> DEFINE active == {r \in DOMAIN list : Active(list[r])}
  <1>1. CASE active # {}
    <2>1. pickBootstrapRun(list) = Newest(active) BY <1>1 DEF pickBootstrapRun
    <2>2. Newest(active) \in active BY <1>1, NewestOK
    <2> QED BY <2>1, <2>2, RunConsoleConstants
  <1>2. CASE active = {} /\ DOMAIN list # {}
    <2>1. pickBootstrapRun(list) = Newest(DOMAIN list) BY <1>2 DEF pickBootstrapRun
    <2>2. Newest(DOMAIN list) \in DOMAIN list BY <1>2, NewestOK
    <2> QED BY <2>1, <2>2, RunConsoleConstants
  <1>3. CASE active = {} /\ DOMAIN list = {}
    BY <1>3 DEF pickBootstrapRun
  <1> QED BY <1>1, <1>2, <1>3

-----------------------------------------------------------------------------
(* What the hooks do to their state *)

\* The selection is not touched.
SameSel(s, t) ==
  /\ t.runId = s.runId /\ t.list = s.list /\ t.ref = s.ref /\ t.ready = s.ready
  /\ t.asked = s.asked /\ t.failed = s.failed /\ t.sel = s.sel

LEMMA ReleaseOK ==
  ASSUME NEW s, UIOK(s), NEW i
  PROVE  /\ UIOK(Release(s, i)) /\ SameSel(s, Release(s, i)) /\ Release(s, i).artGate = s.artGate
         /\ Release(s, i).statusGate = IF s.statusGate = i THEN None ELSE s.statusGate
         /\ Release(s, i).status = s.status /\ Release(s, i).eof = s.eof /\ Release(s, i).cursor = s.cursor
  BY DEF Release, UIOK, SameSel, UIFields

LEMMA UnloggedOK ==
  ASSUME NEW s, UIOK(s), NEW i
  PROVE  /\ UIOK(Unlogged(s, i)) /\ SameSel(s, Unlogged(s, i)) /\ Unlogged(s, i).artGate = s.artGate
         /\ Unlogged(s, i).statusGate = s.statusGate
  BY DEF Unlogged, UIOK, SameSel, UIFields

\* A request of logs takes their gate.
LEMMA LogsOK ==
  ASSUME NEW s, UIOK(s), NEW i \in Procs, NEW t, t = [s EXCEPT !.logsGate = i]
  PROVE  UIOK(t) /\ SameSel(s, t) /\ t.artGate = s.artGate /\ t.statusGate = s.statusGate
  BY DEF UIOK, SameSel, UIFields

LEMMA BeginArtifactsOK ==
  ASSUME NEW s, UIOK(s), NEW i \in Procs, NEW r, s.runId # None => r = s.runId
  PROVE  /\ UIOK(beginArtifacts(s, i, r)) /\ SameSel(s, beginArtifacts(s, i, r))
         /\ beginArtifacts(s, i, r).artGate = i /\ beginArtifacts(s, i, r).statusGate = s.statusGate
  BY DEF beginArtifacts, UIOK, SameSel, UIFields

\* The state after the status of r has been merged into it.
Answered(s, r) == [s EXCEPT !.status = [run |-> r, status |-> srv[r].status]]

\* The status of a run that is the selected one, if any is.
LEMMA StatusOK ==
  ASSUME NEW s, UIOK(s), SrvTyped, NEW r \in Runs, s.runId # None => r = s.runId
  PROVE  /\ UIOK(Answered(s, r)) /\ SameSel(s, Answered(s, r))
         /\ Answered(s, r).artGate = s.artGate /\ Answered(s, r).statusGate = s.statusGate
  <1>1. [run |-> r, status |-> srv[r].status] \in Statuses BY DEF SrvTyped, Statuses
  <1> QED BY <1>1 DEF UIOK, SameSel, UIFields, Answered

LEMMA SnapshotOK ==
  ASSUME NEW s, UIOK(s), NEW r, s.runId # None => r = s.runId, NEW status
  PROVE  /\ UIOK(applyEvidenceSnapshot(s, r, status)) /\ SameSel(s, applyEvidenceSnapshot(s, r, status))
         /\ applyEvidenceSnapshot(s, r, status).artGate = None
         /\ applyEvidenceSnapshot(s, r, status).statusGate = s.statusGate
  <1>1. PICK arts \in {r, None}, keep \in BOOLEAN :
          applyEvidenceSnapshot(s, r, status) =
            [s EXCEPT !.snap = [run |-> r, status |-> status], !.committed = r, !.arts = arts, !.artGate = None,
                      !.art = IF keep THEN s.art ELSE None, !.preview = IF keep THEN s.preview ELSE None]
    BY DEF applyEvidenceSnapshot, UIOK, UIFields
  <1>2. PICK t : t = applyEvidenceSnapshot(s, r, status) OBVIOUS
  <1>3. /\ DOMAIN t = DOMAIN s /\ t.snap.run = r /\ t.arts = arts /\ t.artGate = None
        /\ t.art \in {s.art, None} /\ t.preview \in {s.preview, None}
        /\ SameSel(s, t) /\ t.statusGate = s.statusGate /\ t.logsGate = s.logsGate
        /\ t.status = s.status /\ t.logs = s.logs /\ t.cursor = s.cursor
    BY <1>1, <1>2 DEF UIOK, UIFields, SameSel
  <1> QED BY <1>2, <1>3 DEF UIOK, SameSel

LEMMA FetchedOK ==
  ASSUME NEW s, UIOK(s), NEW i \in Procs, s.artGate = i /\ s.runId # None => procs[i].run = s.runId,
         NEW t \in Fetched(i, s)
  PROVE  /\ UIOK(t) /\ SameSel(s, t) /\ t.statusGate = s.statusGate
         /\ t.artGate \in {s.artGate, None} /\ t.artGate # i
  <1>1. PICK status : t = IF s.artGate = i THEN applyEvidenceSnapshot(s, procs[i].run, status) ELSE s
    BY DEF Fetched
  <1>2. CASE s.artGate = i
    <2>1. t = applyEvidenceSnapshot(s, procs[i].run, status) BY <1>1, <1>2
    <2> QED BY <1>2, <2>1, SnapshotOK, RunConsoleConstants
  <1>3. CASE s.artGate # i BY <1>1, <1>3 DEF SameSel
  <1> QED BY <1>2, <1>3

\* A page of the log leaves the cursor within the log.
LEMMA MergeOK ==
  ASSUME NEW s, UIOK(s), SrvTyped, NEW r \in Runs, NEW reset, NEW cursor \in 0..MaxLog
  PROVE  LET t == mergeRunLogsPayload(s, r, reset, cursor)
         IN /\ UIOK(t) /\ SameSel(s, t) /\ t.artGate = s.artGate /\ t.statusGate = s.statusGate
            /\ t.cursor \in 0..MaxLog
  <1> DEFINE lines == IF cursor < srv[r].log THEN {<<r, cursor>>} ELSE {}
  <1>1. srv[r].log \in 0..MaxLog /\ MaxLog \in Nat BY RunConsoleConstants DEF SrvTyped
  <1>2. lines \subseteq Runs \X (0..MaxLog) BY <1>1
  <1>3. cursor + Cardinality(lines) \in 0..MaxLog
    <2>1. CASE cursor < srv[r].log
      <3>1. lines = {<<r, cursor>>} BY <2>1
      <3>2. Cardinality(lines) = 1 BY <3>1, FS_Singleton
      <3> QED BY <1>1, <2>1, <3>2
    <2>2. CASE ~(cursor < srv[r].log)
      <3>1. lines = {} BY <2>2
      <3>2. Cardinality(lines) = 0 BY <3>1, FS_EmptySet
      <3> QED BY <1>1, <3>2
    <2> QED BY <2>1, <2>2
  <1>4. PICK n : n = cursor + Cardinality(lines) OBVIOUS
  <1>5. PICK logs, eof : /\ logs \subseteq Runs \X (0..MaxLog)
                         /\ mergeRunLogsPayload(s, r, reset, cursor)
                              = [s EXCEPT !.logs = logs, !.cursor = n, !.eof = eof]
    <2>1. s.logs \subseteq Runs \X (0..MaxLog) BY DEF UIOK
    <2>2. PICK logs : logs = IF reset THEN lines ELSE s.logs \cup {x \in lines : \A y \in s.logs : y[2] # x[2]}
      OBVIOUS
    <2>3. logs \subseteq Runs \X (0..MaxLog) BY <1>2, <2>1, <2>2
    <2>4. mergeRunLogsPayload(s, r, reset, cursor)
            = [s EXCEPT !.logs = logs, !.cursor = n, !.eof = (cursor + 1 >= srv[r].log)]
      BY <1>4, <2>2 DEF mergeRunLogsPayload, UIOK, UIFields
    <2> QED BY <2>3, <2>4
  <1> HIDE DEF lines
  <1> QED BY <1>3, <1>4, <1>5 DEF UIOK, SameSel, UIFields

\* A selection starts with an empty screen and takes the gate of the status.
LEMMA BeginSelectOK ==
  ASSUME NEW s, UIOK(s), NEW i \in Procs, NEW r \in Runs
  PROVE  LET t == beginSelect(s, i, r)
         IN /\ UIOK(t) /\ t.runId = r /\ t.sel = i /\ t.statusGate = i /\ t.artGate = None
            /\ t.list = s.list /\ t.ref = s.ref /\ t.ready = s.ready /\ t.asked = s.asked
            /\ t.failed = s.failed
  <1>1. PICK t : t = beginSelect(s, i, r) OBVIOUS
  <1>2. /\ DOMAIN t = UIFields /\ t.runId = r /\ t.sel = i /\ t.statusGate = i /\ t.artGate = None
        /\ t.list = s.list /\ t.ref = s.ref /\ t.ready = s.ready /\ t.asked = s.asked
        /\ t.failed = s.failed /\ t.status = None /\ t.logs = {} /\ t.cursor = 0 /\ t.logsGate = None
        /\ t.snap = emptyEvidenceSnapshot /\ t.arts = None /\ t.art = None /\ t.preview = None
    BY <1>1 DEF beginSelect, clearArtifacts, resetRunLogs, UIOK, UIFields
  <1>3. t.snap.run = None BY <1>2 DEF emptyEvidenceSnapshot
  <1>4. 0 \in 0..MaxLog BY RunConsoleConstants
  <1>5. UIOK(t) BY <1>2, <1>3, <1>4 DEF UIOK, Statuses, RunOrNone
  <1> QED BY <1>1, <1>2, <1>5

\* A closed selection shows nothing.
LEMMA ClearedOK ==
  ASSUME NEW s, UIOK(s)
  PROVE  LET t == clearRunSelection(s)
         IN /\ UIOK(t) /\ t.runId = None /\ t.artGate = None /\ t.statusGate = s.statusGate
            /\ t.list = s.list /\ t.ref = s.ref /\ t.ready = s.ready /\ t.asked = s.asked
            /\ t.failed = s.failed /\ t.sel = s.sel
  <1>1. PICK t : t = clearRunSelection(s) OBVIOUS
  <1>2. /\ DOMAIN t = UIFields /\ t.runId = None /\ t.sel = s.sel /\ t.statusGate = s.statusGate
        /\ t.artGate = None /\ t.list = s.list /\ t.ref = s.ref /\ t.ready = s.ready
        /\ t.asked = s.asked /\ t.failed = s.failed /\ t.status = None /\ t.logs = {}
        /\ t.cursor = 0 /\ t.logsGate = None
    BY <1>1 DEF clearRunSelection, clearArtifacts, resetRunLogs, UIOK, UIFields
  <1>3. 0 \in 0..MaxLog BY RunConsoleConstants
  <1>4. UIOK(t) BY <1>2, <1>3 DEF UIOK, Statuses, RunOrNone
  <1> QED BY <1>1, <1>2, <1>4

-----------------------------------------------------------------------------
(* One function goes on *)

\* The gates and the selection that a step of process i may take.
Takes(i) ==
  /\ ui'.statusGate \in {ui.statusGate, i, None} /\ ui'.artGate \in {ui.artGate, i, None}
  /\ ui'.sel \in {ui.sel, i}
  /\ \/ ui'.runId = ui.runId \/ ui'.runId = None
     \/ ui'.statusGate = i /\ ui'.artGate \in {i, None} /\ ui'.sel = i

LEMMA ProcStep ==
  ASSUME ScreenInv, NEW i \in Procs, NEW x, procs' = [procs EXCEPT ![i] = x], srv' = srv,
         UIOK(ui'), ProcOK(x), Holder(ui', i, x), Takes(i),
         SelectionOK', AskedOK', Bounds'
  PROVE  ScreenInv'
  <1>1. SrvTyped' /\ NewestKept' BY DEF ScreenInv, SrvTyped, NewestKept, Known
  <1>2. DOMAIN procs' = Procs /\ \A j \in Procs : procs'[j] = IF j = i THEN x ELSE procs[j]
    BY DEF ScreenInv, ProcsOK
  <1>3. ASSUME NEW p, ProcOK(p) PROVE ProcOK(p)' BY <1>3 DEF ProcOK, Started
  <1>4. ProcsOK' BY <1>2, <1>3 DEF ScreenInv, ProcsOK
  <1>5. ASSUME NEW j \in Procs PROVE Holder(ui', j, procs'[j])
    <2>1. CASE j = i BY <1>2, <2>1
    <2>2. CASE j # i
      <3>1. Holder(ui, j, procs[j]) /\ procs'[j] = procs[j] /\ j # None
        BY <1>2, <2>2, RunConsoleConstants DEF ScreenInv, HoldersOK
      <3> QED BY <2>2, <3>1 DEF Holder, Takes
    <2> QED BY <2>1, <2>2
  <1>6. HoldersOK' BY <1>5 DEF HoldersOK
  <1> QED BY <1>1, <1>4, <1>6 DEF ScreenInv

\* Requests may fail as long as errors are left.
LEMMA BoundsKept ==
  ASSUME Bounds, moves' = moves, SomeError \/ UNCHANGED errs
  PROVE  Bounds'
  BY RunConsoleConstants DEF Bounds, SomeError

\* A step that leaves the selection alone.
LEMMA QuietStep ==
  ASSUME ScreenInv, NEW i \in Procs, NEW x, procs' = [procs EXCEPT ![i] = x], Quiet,
         SomeError \/ UNCHANGED errs,
         UIOK(ui'), SameSel(ui, ui'), ProcOK(x), Holder(ui', i, x),
         ui'.statusGate \in {ui.statusGate, i, None}, ui'.artGate \in {ui.artGate, i, None},
         Boots(procs[i]) => Boots(x)
  PROVE  ScreenInv'
  <1>1. Takes(i) BY DEF Takes, SameSel
  <1>2. srv' = srv /\ route' = route /\ moves' = moves BY DEF Quiet
  <1>3. Bounds' BY <1>2, BoundsKept DEF ScreenInv
  <1>4. SelectionOK' BY <1>2 DEF ScreenInv, SelectionOK, SameSel, Started
  <1>5. ASSUME Booting PROVE Booting'
    <2>1. PICK j \in Procs : Boots(procs[j]) BY <1>5 DEF Booting
    <2>2. procs'[j] = IF j = i THEN x ELSE procs[j] BY DEF ScreenInv, ProcsOK
    <2>3. Boots(procs'[j]) BY <2>1, <2>2
    <2> QED BY <2>3 DEF Booting, Boots
  <1>6. AskedOK' BY <1>2, <1>5 DEF ScreenInv, AskedOK, SameSel, Known
  <1> QED BY <1>1, <1>2, <1>3, <1>4, <1>6, ProcStep

\* The function returns; if the bootstrap awaits it, that goes on.
LEMMA QuietEnd ==
  ASSUME ScreenInv, NEW i \in Procs, procs[i].kind # "boot", Ends(i), Quiet,
         SomeError \/ UNCHANGED errs,
         UIOK(ui'), SameSel(ui, ui'), ui'.statusGate \in {ui.statusGate, None},
         ui'.artGate \in {ui.artGate, None}, ui'.statusGate # i, ui'.artGate # i
  PROVE  ScreenInv'
  <1>1. PICK x : x = IF procs[i].by = "boot" THEN Proc("boot", None, "bootRest") ELSE Free OBVIOUS
  <1>2. procs' = [procs EXCEPT ![i] = x] BY <1>1 DEF Ends, ScreenInv, ProcsOK
  <1>3. ProcOK(x) /\ x.kind \in {"boot", "free"} /\ x.pc \in {"bootRest", "none"}
    BY <1>1, RunConsoleConstants DEF Proc, Free, ProcOK, ProcFields
  <1>4. Boots(procs[i]) => Boots(x) BY <1>1 DEF Boots, Proc
  <1>5. Holder(ui', i, x) BY <1>3 DEF Holder
  <1> QED BY <1>2, <1>3, <1>4, <1>5, QuietStep

LEMMA SelectingOK ==
  ASSUME NEW r, Started(r), NEW by
  PROVE  ProcOK(Selecting(r, by)) /\ Selecting(r, by).run = r /\ Selecting(r, by).pc = "status"
         /\ Selecting(r, by).kind = "select" /\ Selecting(r, by).by = by
  <1>1. PICK x : x = Selecting(r, by) OBVIOUS
  <1>2. /\ DOMAIN x = ProcFields /\ x.kind = "select" /\ x.run = r /\ x.pc = "status" /\ x.by = by
        /\ x.cursor = 0 /\ x.aborted = FALSE
    BY <1>1 DEF Selecting, Proc, ProcFields
  <1>3. 0 \in 0..MaxLog BY RunConsoleConstants
  <1> QED BY <1>1, <1>2, <1>3 DEF ProcOK

\* handleSelectRun after its status: it ends, or asks for the artifacts or the log.
LEMMA AfterSelect ==
  ASSUME ScreenInv, NEW i \in Procs, procs[i].kind = "select", Quiet, SomeError \/ UNCHANGED errs,
         NEW s, UIOK(s), SameSel(ui, s), s.statusGate \in {ui.statusGate, None}, s.statusGate # i,
         s.artGate \in {ui.artGate, None}, s.artGate # i,
         NEW final, AfterSelectStatus(i, s, final)
  PROVE  ScreenInv'
  <1>1. ProcOK(procs[i]) /\ Holder(ui, i, procs[i]) BY DEF ScreenInv, ProcsOK, HoldersOK
  <1>2. CASE s.sel # i
    <2>1. ui' = s /\ Ends(i) BY <1>2 DEF AfterSelectStatus
    <2> QED BY <2>1, QuietEnd
  <1>3. CASE s.sel = i /\ final
    <2>1. PICK x : x = [procs[i] EXCEPT !.pc = "logs", !.final = TRUE] OBVIOUS
    <2>2. ui' = [s EXCEPT !.logsGate = i] /\ procs' = [procs EXCEPT ![i] = x]
      BY <1>3, <2>1 DEF AfterSelectStatus, Becomes
    <2>3. UIOK(ui') /\ SameSel(s, ui') /\ ui'.artGate = s.artGate /\ ui'.statusGate = s.statusGate
      BY <2>2, LogsOK
    <2>4. x.pc = "logs" /\ x.run = procs[i].run /\ x.kind = procs[i].kind /\ x.by = procs[i].by /\ ProcOK(x)
      BY <1>1, <2>1 DEF ProcOK, ProcFields
    <2>5. SameSel(ui, ui') BY <2>3 DEF SameSel
    <2>6. Holder(ui', i, x) BY <1>1, <2>3, <2>4, <2>5 DEF Holder, SameSel
    <2>7. Boots(procs[i]) => Boots(x) BY <2>4 DEF Boots
    <2> QED BY <2>2, <2>3, <2>4, <2>5, <2>6, <2>7, QuietStep
  <1>4. CASE s.sel = i /\ ~final
    <2>1. PICK x : x = [procs[i] EXCEPT !.pc = "artifacts"] OBVIOUS
    <2>2. ui' = beginArtifacts(s, i, procs[i].run) /\ procs' = [procs EXCEPT ![i] = x]
      BY <1>4, <2>1 DEF AfterSelectStatus, Becomes
    <2>3. s.runId # None => procs[i].run = s.runId BY <1>1, <1>4 DEF Holder, SameSel
    <2>4. UIOK(ui') /\ SameSel(s, ui') /\ ui'.artGate = i /\ ui'.statusGate = s.statusGate
      BY <2>2, <2>3, BeginArtifactsOK
    <2>5. x.pc = "artifacts" /\ x.run = procs[i].run /\ x.kind = procs[i].kind /\ x.by = procs[i].by
          /\ ProcOK(x)
      BY <1>1, <2>1 DEF ProcOK, ProcFields
    <2>6. SameSel(ui, ui') BY <2>4 DEF SameSel
    <2>7. Holder(ui', i, x) BY <2>3, <2>4, <2>5 DEF Holder, SameSel
    <2>8. Boots(procs[i]) => Boots(x) BY <2>5 DEF Boots
    <2> QED BY <2>2, <2>4, <2>5, <2>6, <2>7, <2>8, QuietStep
  <1> QED BY <1>2, <1>3, <1>4

LEMMA SelectStatusOK ==
  ASSUME ScreenInv, NEW i \in Procs, SelectStatus(i)
  PROVE  ScreenInv'
  <1>1. PICK p : p = procs[i] OBVIOUS
  <1>2. ProcOK(p) /\ Holder(ui, i, p) BY <1>1 DEF ScreenInv, ProcsOK, HoldersOK
  <1>3. p.kind = "select" /\ p.pc = "status" /\ Quiet BY <1>1 DEF SelectStatus
  <1>4. p.aborted = FALSE /\ Started(p.run) /\ p.run \in Runs BY <1>2, <1>3 DEF ProcOK, Started
  <1>5. UIOK(ui) /\ SrvTyped /\ i # None /\ SameSel(ui, ui)
    BY RunConsoleConstants DEF ScreenInv, SameSel
  <1>6. ui.artGate # i BY <1>2, <1>3 DEF Holder
  <1>7. PICK answered : answered = Answered(ui, p.run) OBVIOUS
  <1>8. CASE ui.statusGate # i
    <2>1. ~Holds(i, ui.statusGate) BY <1>8 DEF Holds
    <2>2. AfterSelectStatus(i, ui, FALSE) /\ UNCHANGED errs BY <1>1, <2>1 DEF SelectStatus
    <2> QED BY <1>1, <1>3, <1>5, <1>6, <1>8, <2>2, AfterSelect
  <1>9. CASE ui.statusGate = i
    <2>1. Holds(i, ui.statusGate) BY <1>1, <1>4, <1>9 DEF Holds
    <2>2. ui.runId # None => p.run = ui.runId BY <1>2, <1>9 DEF Holder
    <2>3. /\ UIOK(answered) /\ SameSel(ui, answered) /\ answered.artGate = ui.artGate
          /\ answered.statusGate = i
      <3>1. UIOK(answered) /\ SameSel(ui, answered) /\ answered.artGate = ui.artGate
            /\ answered.statusGate = ui.statusGate
        BY <1>4, <1>5, <1>7, <2>2, StatusOK
      <3> QED BY <1>9, <3>1
    <2>4. PICK rel : rel = Release(answered, i) OBVIOUS
    <2>5. UIOK(rel) /\ SameSel(answered, rel) /\ rel.artGate = ui.artGate /\ rel.statusGate = None
      BY <2>3, <2>4, ReleaseOK
    <2>6. SameSel(ui, rel) BY <2>3, <2>5 DEF SameSel
    <2>7. ASSUME NEW final, AfterSelectStatus(i, rel, final), UNCHANGED errs PROVE ScreenInv'
      BY <1>1, <1>3, <1>5, <1>6, <2>5, <2>6, <2>7, AfterSelect
    <2>8. CASE ui' = Release(ui, i) /\ Ends(i) /\ (SomeError \/ UNCHANGED errs)
      <3>1. UIOK(ui') /\ SameSel(ui, ui') /\ ui'.artGate = ui.artGate /\ ui'.statusGate = None
        BY <1>5, <1>9, <2>8, ReleaseOK
      <3> QED BY <1>1, <1>3, <1>5, <1>6, <2>8, <3>1, QuietEnd
    <2>9. CASE /\ ui' = beginArtifacts(answered, i, p.run)
               /\ Becomes(i, [p EXCEPT !.pc = "finalArtifacts"]) /\ UNCHANGED errs
      <3>1. PICK x : x = [p EXCEPT !.pc = "finalArtifacts"] OBVIOUS
      <3>2. procs' = [procs EXCEPT ![i] = x] BY <2>9, <3>1 DEF Becomes
      <3>3. answered.runId # None => p.run = answered.runId BY <2>2, <2>3 DEF SameSel
      <3>4. UIOK(ui') /\ SameSel(answered, ui') /\ ui'.artGate = i /\ ui'.statusGate = i
        BY <2>3, <2>9, <3>3, BeginArtifactsOK
      <3>5. SameSel(ui, ui') BY <2>3, <3>4 DEF SameSel
      <3>6. x.pc = "finalArtifacts" /\ x.run = p.run /\ x.kind = p.kind /\ x.by = p.by /\ ProcOK(x)
        BY <1>2, <1>3, <3>1 DEF ProcOK, ProcFields
      <3>7. Holder(ui', i, x) BY <2>2, <3>4, <3>5, <3>6 DEF Holder, SameSel
      <3>8. Boots(procs[i]) => Boots(x) BY <1>1, <3>6 DEF Boots
      <3> QED BY <1>3, <2>9, <3>2, <3>4, <3>5, <3>6, <3>7, <3>8, QuietStep
    <2>10. \/ ui' = Release(ui, i) /\ Ends(i) /\ (SomeError \/ UNCHANGED errs)
           \/ /\ ui' = beginArtifacts(answered, i, p.run)
              /\ Becomes(i, [p EXCEPT !.pc = "finalArtifacts"]) /\ UNCHANGED errs
           \/ AfterSelectStatus(i, rel, FALSE) /\ UNCHANGED errs
           \/ AfterSelectStatus(i, rel, TRUE) /\ UNCHANGED errs
      BY <1>1, <1>7, <2>1, <2>4, Zenon DEF SelectStatus, Answered
    <2> QED BY <2>7, <2>8, <2>9, <2>10
  <1> QED BY <1>8, <1>9

\* The function goes on with a page of the log.
LEMMA QuietLogs ==
  ASSUME ScreenInv, NEW i \in Procs, Quiet, SomeError \/ UNCHANGED errs,
         NEW s, UIOK(s), SameSel(ui, s), s.statusGate \in {ui.statusGate, None}, s.statusGate # i,
         s.artGate \in {ui.artGate, None}, s.artGate # i,
         ui' = s \/ ui' = [s EXCEPT !.logsGate = i],
         NEW x, procs' = [procs EXCEPT ![i] = x], ProcOK(x), x.pc \in {"logs", "untilEOF", "page"},
         x.run = procs[i].run, x.kind = procs[i].kind, x.by = procs[i].by
  PROVE  ScreenInv'
  <1>1. Holder(ui, i, procs[i]) BY DEF ScreenInv, HoldersOK
  <1>2. UIOK(ui') /\ SameSel(s, ui') /\ ui'.artGate = s.artGate /\ ui'.statusGate = s.statusGate
    <2>1. CASE ui' = s BY <2>1 DEF SameSel
    <2>2. CASE ui' = [s EXCEPT !.logsGate = i] BY <2>2, LogsOK
    <2> QED BY <2>1, <2>2
  <1>3. SameSel(ui, ui') BY <1>2 DEF SameSel
  <1>4. Holder(ui', i, x) BY <1>1, <1>2, <1>3 DEF Holder, SameSel
  <1>5. Boots(procs[i]) => Boots(x) BY DEF Boots
  <1> QED BY <1>2, <1>3, <1>4, <1>5, QuietStep

LEMMA SelectArtifactsOK ==
  ASSUME ScreenInv, NEW i \in Procs, SelectArtifacts(i)
  PROVE  ScreenInv'
  <1>1. PICK p : p = procs[i] OBVIOUS
  <1>2. ProcOK(p) /\ Holder(ui, i, p) BY <1>1 DEF ScreenInv, ProcsOK, HoldersOK
  <1>3. p.kind = "select" /\ p.pc \in {"finalArtifacts", "artifacts"} /\ Quiet /\ UNCHANGED errs
    BY <1>1 DEF SelectArtifacts
  <1>4. UIOK(ui) /\ i # None BY RunConsoleConstants DEF ScreenInv
  <1>5. PICK s, t :
          /\ s \in Fetched(i, ui) /\ t = IF p.pc = "finalArtifacts" THEN Release(s, i) ELSE s
          /\ \/ ui' = t /\ Ends(i)
             \/ /\ ui' = [t EXCEPT !.logsGate = i]
                /\ Becomes(i, [p EXCEPT !.pc = "logs", !.final = (p.pc = "finalArtifacts")])
    BY <1>1, Zenon DEF SelectArtifacts
  <1>6. /\ UIOK(s) /\ SameSel(ui, s) /\ s.statusGate = ui.statusGate
        /\ s.artGate \in {ui.artGate, None} /\ s.artGate # i
    BY <1>1, <1>2, <1>4, <1>5, FetchedOK DEF Holder
  <1>7. /\ UIOK(t) /\ SameSel(ui, t) /\ t.statusGate \in {ui.statusGate, None} /\ t.statusGate # i
        /\ t.artGate \in {ui.artGate, None} /\ t.artGate # i
    <2>1. CASE p.pc = "finalArtifacts"
      <3>1. t = Release(s, i) BY <1>5, <2>1
      <3>2. /\ UIOK(t) /\ SameSel(s, t) /\ t.artGate = s.artGate
            /\ t.statusGate = IF s.statusGate = i THEN None ELSE s.statusGate
        BY <1>6, <3>1, ReleaseOK
      <3> QED BY <1>4, <1>6, <3>2 DEF SameSel
    <2>2. CASE p.pc = "artifacts"
      <3>1. t = s BY <1>5, <2>2
      <3> QED BY <1>2, <1>6, <2>2, <3>1 DEF Holder
    <2> QED BY <1>3, <2>1, <2>2
  <1>8. CASE ui' = t /\ Ends(i) BY <1>1, <1>3, <1>7, <1>8, QuietEnd
  <1>9. CASE /\ ui' = [t EXCEPT !.logsGate = i]
             /\ Becomes(i, [p EXCEPT !.pc = "logs", !.final = (p.pc = "finalArtifacts")])
    <2>1. PICK x : x = [p EXCEPT !.pc = "logs", !.final = (p.pc = "finalArtifacts")] OBVIOUS
    <2>2. procs' = [procs EXCEPT ![i] = x] BY <1>9, <2>1 DEF Becomes
    <2>3. x.pc = "logs" /\ x.run = p.run /\ x.kind = p.kind /\ x.by = p.by /\ ProcOK(x)
      BY <1>2, <1>3, <2>1 DEF ProcOK, ProcFields
    <2> QED BY <1>1, <1>3, <1>7, <1>9, <2>2, <2>3, QuietLogs
  <1> QED BY <1>5, <1>8, <1>9

LEMMA SelectLogsOK ==
  ASSUME ScreenInv, NEW i \in Procs, SelectLogs(i)
  PROVE  ScreenInv'
  <1>1. PICK p : p = procs[i] OBVIOUS
  <1>2. ProcOK(p) /\ Holder(ui, i, p) BY <1>1 DEF ScreenInv, ProcsOK, HoldersOK
  <1>3. p.kind = "select" /\ p.pc = "logs" /\ Quiet BY <1>1 DEF SelectLogs
  <1>4. UIOK(ui) /\ SrvTyped /\ SameSel(ui, ui) BY DEF ScreenInv, SameSel
  <1>5. p.run \in Runs /\ 0 \in 0..MaxLog BY <1>2, <1>3, RunConsoleConstants DEF ProcOK, Started
  <1>6. ui.statusGate # i /\ ui.artGate # i BY <1>2, <1>3 DEF Holder
  <1>7. ASSUME NEW s, UIOK(s), SameSel(ui, s), s.statusGate = ui.statusGate, s.artGate = ui.artGate,
               AfterSelectLogs(i, s), UNCHANGED errs
        PROVE  ScreenInv'
    <2>1. CASE ui' = s /\ Ends(i) BY <1>1, <1>3, <1>6, <1>7, <2>1, QuietEnd
    <2>2. CASE ui' = [s EXCEPT !.logsGate = i] /\ Becomes(i, [p EXCEPT !.pc = "untilEOF"])
      <3>1. PICK x : x = [p EXCEPT !.pc = "untilEOF"] OBVIOUS
      <3>2. procs' = [procs EXCEPT ![i] = x] BY <2>2, <3>1 DEF Becomes
      <3>3. x.pc = "untilEOF" /\ x.run = p.run /\ x.kind = p.kind /\ x.by = p.by /\ ProcOK(x)
        BY <1>2, <1>3, <3>1 DEF ProcOK, ProcFields
      <3> QED BY <1>1, <1>3, <1>6, <1>7, <2>2, <3>2, <3>3, QuietLogs
    <2> QED BY <1>1, <1>7, <2>1, <2>2 DEF AfterSelectLogs
  <1>8. CASE AfterSelectLogs(i, ui) /\ UNCHANGED errs BY <1>4, <1>7, <1>8
  <1>9. PICK m, u : m = mergeRunLogsPayload(ui, p.run, TRUE, 0) /\ u = Unlogged(m, i) OBVIOUS
  <1>10. CASE AfterSelectLogs(i, u) /\ UNCHANGED errs
    <2>1. UIOK(m) /\ SameSel(ui, m) /\ m.artGate = ui.artGate /\ m.statusGate = ui.statusGate
      BY <1>4, <1>5, <1>9, MergeOK
    <2>2. UIOK(u) /\ SameSel(m, u) /\ u.artGate = ui.artGate /\ u.statusGate = ui.statusGate
      BY <1>9, <2>1, UnloggedOK
    <2>3. SameSel(ui, u) BY <2>1, <2>2 DEF SameSel
    <2> QED BY <1>7, <1>10, <2>2, <2>3
  <1>11. CASE SomeError /\ ui' = Unlogged(ui, i) /\ Ends(i)
    <2>1. UIOK(ui') /\ SameSel(ui, ui') /\ ui'.artGate = ui.artGate /\ ui'.statusGate = ui.statusGate
      BY <1>4, <1>11, UnloggedOK
    <2> QED BY <1>1, <1>3, <1>6, <1>11, <2>1, QuietEnd
  <1> QED BY <1>1, <1>8, <1>9, <1>10, <1>11, Zenon DEF SelectLogs

LEMMA UntilEOFOK ==
  ASSUME ScreenInv, NEW i \in Procs, UntilEOF(i)
  PROVE  ScreenInv'
  <1>1. PICK p, s : p = procs[i] /\ s = mergeRunLogsPayload(ui, p.run, p.pages = 0, p.cursor) OBVIOUS
  <1>2. ProcOK(p) /\ Holder(ui, i, p) BY <1>1 DEF ScreenInv, ProcsOK, HoldersOK
  <1>3. p.pc = "untilEOF" /\ Quiet BY <1>1 DEF UntilEOF
  <1>4. UIOK(ui) /\ SrvTyped /\ SameSel(ui, ui) BY DEF ScreenInv, SameSel
  <1>5. p.run \in Runs /\ p.cursor \in 0..MaxLog /\ p.kind # "boot" BY <1>2, <1>3 DEF ProcOK, Started
  <1>6. ui.statusGate # i /\ ui.artGate # i BY <1>2, <1>3 DEF Holder
  <1>7. /\ UIOK(s) /\ SameSel(ui, s) /\ s.artGate = ui.artGate /\ s.statusGate = ui.statusGate
        /\ s.cursor \in 0..MaxLog
    BY <1>1, <1>4, <1>5, MergeOK
  <1>8. ASSUME NEW t \in {ui, s}, ui' \in {t, Unlogged(t, i)}, Ends(i), SomeError \/ UNCHANGED errs
        PROVE  ScreenInv'
    <2>1. UIOK(t) /\ SameSel(ui, t) /\ t.artGate = ui.artGate /\ t.statusGate = ui.statusGate
      BY <1>4, <1>7, <1>8
    <2>2. UIOK(ui') /\ SameSel(ui, ui') /\ ui'.artGate = ui.artGate /\ ui'.statusGate = ui.statusGate
      <3>1. CASE ui' = t BY <2>1, <3>1
      <3>2. CASE ui' = Unlogged(t, i) BY <2>1, <3>2, UnloggedOK DEF SameSel
      <3> QED BY <1>8, <3>1, <3>2
    <2> QED BY <1>1, <1>3, <1>5, <1>6, <1>8, <2>2, QuietEnd
  <1>9. CASE ui' = s /\ Becomes(i, [p EXCEPT !.cursor = s.cursor, !.pages = @ + 1]) /\ UNCHANGED errs
    <2>1. PICK x : x = [p EXCEPT !.cursor = s.cursor, !.pages = @ + 1] OBVIOUS
    <2>2. procs' = [procs EXCEPT ![i] = x] BY <1>9, <2>1 DEF Becomes
    <2>3. x.pc = "untilEOF" /\ x.run = p.run /\ x.kind = p.kind /\ x.by = p.by /\ ProcOK(x)
      BY <1>2, <1>3, <1>7, <2>1 DEF ProcOK, ProcFields
    <2> QED BY <1>1, <1>3, <1>6, <1>7, <1>9, <2>2, <2>3, QuietLogs
  <1>10. \/ Ends(i) /\ ui' = ui /\ UNCHANGED errs
         \/ ui' = Unlogged(s, i) /\ Ends(i) /\ UNCHANGED errs
         \/ ui' = s /\ Becomes(i, [p EXCEPT !.cursor = s.cursor, !.pages = @ + 1]) /\ UNCHANGED errs
         \/ SomeError /\ ui' = Unlogged(ui, i) /\ Ends(i)
    BY <1>1, Zenon DEF UntilEOF
  <1> QED BY <1>8, <1>9, <1>10

LEMMA PollPageOK ==
  ASSUME ScreenInv, NEW i \in Procs, PollPage(i)
  PROVE  ScreenInv'
  <1> DEFINE reset == FALSE
  <1>1. PICK p, s : p = procs[i] /\ s = mergeRunLogsPayload(ui, p.run, reset, p.cursor) OBVIOUS
  <1>2. ProcOK(p) /\ Holder(ui, i, p) BY <1>1 DEF ScreenInv, ProcsOK, HoldersOK
  <1>3. p.pc = "page" /\ Ends(i) /\ Quiet /\ (SomeError \/ UNCHANGED errs) BY <1>1 DEF PollPage
  <1>4. UIOK(ui) /\ SrvTyped /\ SameSel(ui, ui) BY DEF ScreenInv, SameSel
  <1>5. p.run \in Runs /\ p.cursor \in 0..MaxLog /\ p.kind # "boot" BY <1>2, <1>3 DEF ProcOK, Started
  <1>6. ui.statusGate # i /\ ui.artGate # i BY <1>2, <1>3 DEF Holder
  <1>7. UIOK(s) /\ SameSel(ui, s) /\ s.artGate = ui.artGate /\ s.statusGate = ui.statusGate
    <2> HIDE DEF reset
    <2> QED BY <1>1, <1>4, <1>5, MergeOK
  <1>8. PICK t \in {ui, s} : ui' = Unlogged(t, i) BY <1>1, Zenon DEF PollPage
  <1>9. UIOK(t) /\ SameSel(ui, t) /\ t.artGate = ui.artGate /\ t.statusGate = ui.statusGate
    BY <1>4, <1>7, <1>8
  <1>10. UIOK(ui') /\ SameSel(t, ui') /\ ui'.artGate = ui.artGate /\ ui'.statusGate = ui.statusGate
    BY <1>8, <1>9, UnloggedOK
  <1>11. SameSel(ui, ui') BY <1>9, <1>10 DEF SameSel
  <1> QED BY <1>1, <1>3, <1>5, <1>6, <1>10, <1>11, QuietEnd

-----------------------------------------------------------------------------
(* Polling *)

LEMMA AfterPoll ==
  ASSUME ScreenInv, NEW i \in Procs, procs[i].kind = "poll", procs[i].pc \in {"status", "missing"},
         Started(procs[i].run), Quiet, UNCHANGED errs,
         NEW s, UIOK(s), SameSel(ui, s), s.statusGate = None, s.artGate \in {ui.artGate, None},
         s.artGate # i, AfterPollStatus(i, s)
  PROVE  ScreenInv'
  <1>1. ProcOK(procs[i]) /\ i # None BY RunConsoleConstants DEF ScreenInv, ProcsOK
  <1>2. s.cursor \in 0..MaxLog BY DEF UIOK
  <1>3. CASE ui' = s /\ Ends(i) BY <1>1, <1>3, QuietEnd
  <1>4. CASE ui' = [s EXCEPT !.logsGate = i] /\ Becomes(i, [procs[i] EXCEPT !.pc = "page", !.cursor = s.cursor])
    <2>1. PICK x : x = [procs[i] EXCEPT !.pc = "page", !.cursor = s.cursor] OBVIOUS
    <2>2. procs' = [procs EXCEPT ![i] = x] BY <1>4, <2>1 DEF Becomes
    <2>3. x.pc = "page" /\ x.run = procs[i].run /\ x.kind = procs[i].kind /\ x.by = procs[i].by /\ ProcOK(x)
      BY <1>1, <1>2, <2>1 DEF ProcOK, ProcFields
    <2> QED BY <1>1, <1>4, <2>2, <2>3, QuietLogs
  <1>5. CASE ui' = [s EXCEPT !.logsGate = i] /\ Becomes(i, [procs[i] EXCEPT !.pc = "untilEOF"])
    <2>1. PICK x : x = [procs[i] EXCEPT !.pc = "untilEOF"] OBVIOUS
    <2>2. procs' = [procs EXCEPT ![i] = x] BY <1>5, <2>1 DEF Becomes
    <2>3. x.pc = "untilEOF" /\ x.run = procs[i].run /\ x.kind = procs[i].kind /\ x.by = procs[i].by
          /\ ProcOK(x)
      BY <1>1, <2>1 DEF ProcOK, ProcFields
    <2> QED BY <1>1, <1>5, <2>2, <2>3, QuietLogs
  <1> QED BY <1>3, <1>4, <1>5, Zenon DEF AfterPollStatus

LEMMA PollStatusOK ==
  ASSUME ScreenInv, NEW i \in Procs, PollStatus(i)
  PROVE  ScreenInv'
  <1>1. PICK p : p = procs[i] OBVIOUS
  <1>2. ProcOK(p) /\ Holder(ui, i, p) BY <1>1 DEF ScreenInv, ProcsOK, HoldersOK
  <1>3. p.kind = "poll" /\ p.pc = "status" /\ Quiet BY <1>1, <1>2 DEF PollStatus, ProcOK
  <1>4. Started(p.run) /\ p.run \in Runs BY <1>2, <1>3 DEF ProcOK, Started
  <1>5. UIOK(ui) /\ SrvTyped /\ i # None /\ SameSel(ui, ui)
    BY RunConsoleConstants DEF ScreenInv, SameSel
  <1>6. ui.artGate # i BY <1>2, <1>3 DEF Holder
  <1>7. PICK s : s = Answered(ui, p.run) OBVIOUS
  <1>8. CASE ui' = Release(ui, i) /\ Ends(i) /\ (SomeError \/ UNCHANGED errs)
    <2>1. /\ UIOK(ui') /\ SameSel(ui, ui') /\ ui'.artGate = ui.artGate
          /\ ui'.statusGate = IF ui.statusGate = i THEN None ELSE ui.statusGate
      BY <1>5, <1>8, ReleaseOK
    <2> QED BY <1>1, <1>3, <1>5, <1>6, <1>8, <2>1, QuietEnd
  <1>9. CASE /\ Holds(i, ui.statusGate) /\ UNCHANGED errs
             /\ \/ AfterPollStatus(i, Release(s, i))
                \/ ui' = beginArtifacts(s, i, p.run) /\ Becomes(i, [p EXCEPT !.pc = "pollArtifacts"])
    <2>1. ui.statusGate = i BY <1>9 DEF Holds
    <2>2. ui.runId # None => p.run = ui.runId BY <1>2, <2>1 DEF Holder
    <2>3. UIOK(s) /\ SameSel(ui, s) /\ s.artGate = ui.artGate /\ s.statusGate = i
      <3>1. UIOK(s) /\ SameSel(ui, s) /\ s.artGate = ui.artGate /\ s.statusGate = ui.statusGate
        BY <1>4, <1>5, <1>7, <2>2, StatusOK
      <3> QED BY <2>1, <3>1
    <2>4. CASE AfterPollStatus(i, Release(s, i))
      <3>1. PICK rel : rel = Release(s, i) OBVIOUS
      <3>2. UIOK(rel) /\ SameSel(s, rel) /\ rel.artGate = ui.artGate /\ rel.statusGate = None
        BY <2>3, <3>1, ReleaseOK
      <3>3. SameSel(ui, rel) BY <2>3, <3>2 DEF SameSel
      <3>4. AfterPollStatus(i, rel) BY <2>4, <3>1
      <3> QED BY <1>1, <1>3, <1>4, <1>6, <1>9, <3>2, <3>3, <3>4, AfterPoll
    <2>5. CASE ui' = beginArtifacts(s, i, p.run) /\ Becomes(i, [p EXCEPT !.pc = "pollArtifacts"])
      <3>1. PICK x : x = [p EXCEPT !.pc = "pollArtifacts"] OBVIOUS
      <3>2. procs' = [procs EXCEPT ![i] = x] BY <2>5, <3>1 DEF Becomes
      <3>3. s.runId # None => p.run = s.runId BY <2>2, <2>3 DEF SameSel
      <3>4. UIOK(ui') /\ SameSel(s, ui') /\ ui'.artGate = i /\ ui'.statusGate = i
        BY <2>3, <2>5, <3>3, BeginArtifactsOK
      <3>5. SameSel(ui, ui') BY <2>3, <3>4 DEF SameSel
      <3>6. x.pc = "pollArtifacts" /\ x.run = p.run /\ x.kind = p.kind /\ x.by = p.by /\ ProcOK(x)
        BY <1>2, <1>3, <3>1 DEF ProcOK, ProcFields
      <3>7. Holder(ui', i, x) BY <1>3, <2>2, <3>4, <3>5, <3>6 DEF Holder, SameSel
      <3>8. Boots(procs[i]) => Boots(x) BY <1>1, <3>6 DEF Boots
      <3> QED BY <1>3, <1>9, <3>2, <3>4, <3>5, <3>6, <3>7, <3>8, QuietStep
    <2> QED BY <1>9, <2>4, <2>5
  <1>10. \/ ui' = Release(ui, i) /\ Ends(i) /\ (SomeError \/ UNCHANGED errs)
         \/ /\ Holds(i, ui.statusGate) /\ UNCHANGED errs
            /\ \/ AfterPollStatus(i, Release(s, i))
               \/ ui' = beginArtifacts(s, i, p.run) /\ Becomes(i, [p EXCEPT !.pc = "pollArtifacts"])
    <2>1. p.pc # "missing" BY <1>3
    <2> QED BY <1>1, <1>7, <2>1, Zenon DEF PollStatus, Answered
  <1> QED BY <1>8, <1>9, <1>10

LEMMA PollArtifactsOK ==
  ASSUME ScreenInv, NEW i \in Procs, PollArtifacts(i)
  PROVE  ScreenInv'
  <1>1. PICK p : p = procs[i] OBVIOUS
  <1>2. ProcOK(p) /\ Holder(ui, i, p) BY <1>1 DEF ScreenInv, ProcsOK, HoldersOK
  <1>3. p.kind = "poll" /\ p.pc = "pollArtifacts" /\ Quiet /\ UNCHANGED errs
    BY <1>1 DEF PollArtifacts
  <1>4. UIOK(ui) /\ i # None BY RunConsoleConstants DEF ScreenInv
  <1>5. PICK s, t :
          /\ s \in Fetched(i, ui) /\ t = Release(s, i)
          /\ \/ ui' = t /\ Ends(i)
             \/ ui' = [t EXCEPT !.logsGate = i] /\ Becomes(i, [p EXCEPT !.pc = "untilEOF"])
    BY <1>1, Zenon DEF PollArtifacts
  <1>6. /\ UIOK(s) /\ SameSel(ui, s) /\ s.statusGate = ui.statusGate
        /\ s.artGate \in {ui.artGate, None} /\ s.artGate # i
    BY <1>1, <1>2, <1>4, <1>5, FetchedOK DEF Holder
  <1>7. /\ UIOK(t) /\ SameSel(s, t) /\ t.artGate = s.artGate
        /\ t.statusGate = IF s.statusGate = i THEN None ELSE s.statusGate
    BY <1>5, <1>6, ReleaseOK
  <1>8. /\ SameSel(ui, t) /\ t.statusGate \in {ui.statusGate, None} /\ t.statusGate # i
        /\ t.artGate \in {ui.artGate, None} /\ t.artGate # i
    BY <1>4, <1>6, <1>7 DEF SameSel
  <1>9. CASE ui' = t /\ Ends(i) BY <1>1, <1>3, <1>7, <1>8, <1>9, QuietEnd
  <1>10. CASE ui' = [t EXCEPT !.logsGate = i] /\ Becomes(i, [p EXCEPT !.pc = "untilEOF"])
    <2>1. PICK x : x = [p EXCEPT !.pc = "untilEOF"] OBVIOUS
    <2>2. procs' = [procs EXCEPT ![i] = x] BY <1>10, <2>1 DEF Becomes
    <2>3. x.pc = "untilEOF" /\ x.run = p.run /\ x.kind = p.kind /\ x.by = p.by /\ ProcOK(x)
      BY <1>2, <1>3, <2>1 DEF ProcOK, ProcFields
    <2> QED BY <1>1, <1>3, <1>7, <1>8, <1>10, <2>2, <2>3, QuietLogs
  <1> QED BY <1>5, <1>9, <1>10

LEMMA ListedOK == DOMAIN Listed = Known /\ Known \subseteq Runs /\ \A r \in Known : Started(r)
  BY DEF Listed, Known, Started

\* A step that refreshes the list of runs.
LEMMA ListStep ==
  ASSUME ScreenInv, NEW i \in Procs, NEW x, procs' = [procs EXCEPT ![i] = x], Quiet,
         SomeError \/ UNCHANGED errs,
         UIOK(ui'), ui'.list = Listed, ui'.runId = ui.runId, ui'.ref = ui.ref, ui'.ready = ui.ready,
         ui'.asked = ui.asked, ui'.failed = ui.failed, ui'.sel = ui.sel, ProcOK(x), Holder(ui', i, x),
         ui'.statusGate \in {ui.statusGate, i, None}, ui'.artGate \in {ui.artGate, i, None},
         Boots(procs[i]) => Boots(x)
  PROVE  ScreenInv'
  <1>1. Takes(i) BY DEF Takes
  <1>2. srv' = srv /\ route' = route /\ moves' = moves BY DEF Quiet
  <1>3. Bounds' BY <1>2, BoundsKept DEF ScreenInv
  <1>4. SelectionOK' BY <1>2, ListedOK DEF ScreenInv, SelectionOK, Started
  <1>5. ASSUME Booting PROVE Booting'
    <2>1. PICK j \in Procs : Boots(procs[j]) BY <1>5 DEF Booting
    <2>2. procs'[j] = IF j = i THEN x ELSE procs[j] BY DEF ScreenInv, ProcsOK
    <2>3. Boots(procs'[j]) BY <2>1, <2>2
    <2> QED BY <2>3 DEF Booting, Boots
  <1>6. AskedOK' BY <1>2, <1>5, ListedOK DEF ScreenInv, AskedOK, Known
  <1> QED BY <1>1, <1>2, <1>3, <1>4, <1>6, ProcStep

\* A step that selects a run.
LEMMA SelectStep ==
  ASSUME ScreenInv, NEW i \in Procs, NEW r, Started(r), NEW by,
         procs' = [procs EXCEPT ![i] = Selecting(r, by)], srv' = srv, Bounds',
         UIOK(ui'), ui'.runId = r, ui'.sel = i, ui'.statusGate = i, ui'.artGate = None,
         \A q \in DOMAIN ui'.list : Started(q), route' # None => Started(route'), AskedOK'
  PROVE  ScreenInv'
  <1>1. PICK x : x = Selecting(r, by) OBVIOUS
  <1>2. ProcOK(x) /\ x.run = r /\ x.pc = "status" /\ x.kind = "select" BY <1>1, SelectingOK
  <1>3. Takes(i) BY DEF Takes
  <1>4. i # None BY RunConsoleConstants
  <1>5. Holder(ui', i, x) BY <1>2, <1>4 DEF Holder
  <1>6. SelectionOK' BY DEF SelectionOK, Started
  <1> QED BY <1>1, <1>2, <1>3, <1>5, <1>6, ProcStep

\* A step of the page that no function takes.
LEMMA StillStep ==
  ASSUME ScreenInv, procs' = procs, srv' = srv, UIOK(ui'), ui'.statusGate = ui.statusGate,
         ui'.artGate \in {ui.artGate, None}, ui'.sel = ui.sel, ui'.runId \in {ui.runId, None},
         SelectionOK', AskedOK', Bounds'
  PROVE  ScreenInv'
  <1>1. SrvTyped' /\ NewestKept' BY DEF ScreenInv, SrvTyped, NewestKept, Known
  <1>2. ProcsOK' BY DEF ScreenInv, ProcsOK, ProcOK, Started
  <1>3. ASSUME NEW i \in Procs PROVE Holder(ui', i, procs[i])
    <2>1. Holder(ui, i, procs[i]) /\ i # None BY RunConsoleConstants DEF ScreenInv, HoldersOK
    <2> QED BY <2>1 DEF Holder
  <1>4. HoldersOK' BY <1>3 DEF HoldersOK
  <1> QED BY <1>1, <1>2, <1>4 DEF ScreenInv

LEMMA PollListOK ==
  ASSUME ScreenInv, NEW i \in Procs, PollList(i)
  PROVE  ScreenInv'
  <1>1. PICK p, s, next : /\ p = procs[i] /\ s = [ui EXCEPT !.list = Listed]
                          /\ next = reconcileSelectedRunID(p.run, Listed)
    OBVIOUS
  <1>2. ProcOK(p) /\ Holder(ui, i, p) BY <1>1 DEF ScreenInv, ProcsOK, HoldersOK
  <1>3. p.kind = "poll" /\ p.pc = "list" /\ Quiet BY <1>1 DEF PollList
  <1>4. UIOK(ui) /\ i # None /\ SameSel(ui, ui) BY RunConsoleConstants DEF ScreenInv, SameSel
  <1>5. ui.statusGate # i /\ ui.artGate # i BY <1>2, <1>3 DEF Holder
  <1>6. /\ UIOK(s) /\ s.list = Listed /\ s.runId = ui.runId /\ s.ref = ui.ref /\ s.ready = ui.ready
        /\ s.asked = ui.asked /\ s.failed = ui.failed /\ s.sel = ui.sel
        /\ s.statusGate = ui.statusGate /\ s.artGate = ui.artGate
    BY <1>1, <1>4 DEF UIOK, UIFields
  <1>7. CASE ui' = ui /\ Ends(i) /\ (SomeError \/ UNCHANGED errs)
    BY <1>1, <1>3, <1>4, <1>5, <1>7, QuietEnd
  <1>8. CASE ui' = s /\ Ends(i) /\ UNCHANGED errs
    <2>1. procs' = [procs EXCEPT ![i] = Free]
      <3>1. procs[i].by # "boot" BY <1>1, <1>2, <1>3 DEF ProcOK
      <3> QED BY <1>8, <3>1 DEF Ends, ScreenInv, ProcsOK
    <2>2. PICK x : x = Free OBVIOUS
    <2>3. ProcOK(x) /\ x.pc = "none" /\ x.kind = "free"
      BY <2>2, RunConsoleConstants DEF Proc, Free, ProcOK, ProcFields
    <2>4. Holder(ui', i, x) BY <1>5, <1>6, <1>8, <2>3 DEF Holder
    <2>5. ~Boots(procs[i]) BY <1>1, <1>2, <1>3 DEF ProcOK, Boots
    <2> QED BY <1>3, <1>6, <1>8, <2>1, <2>2, <2>3, <2>4, <2>5, ListStep
  <1>9. CASE /\ p.run # None /\ ui.runId = p.run /\ UNCHANGED errs
             /\ ui' = [s EXCEPT !.statusGate = i] /\ Becomes(i, [p EXCEPT !.pc = "status"])
    <2>1. PICK x : x = [p EXCEPT !.pc = "status"] OBVIOUS
    <2>2. procs' = [procs EXCEPT ![i] = x] BY <1>9, <2>1 DEF Becomes
    <2>3. x.pc = "status" /\ x.run = p.run /\ x.kind = p.kind /\ x.by = p.by /\ ProcOK(x)
      BY <1>2, <1>3, <1>9, <2>1 DEF ProcOK, ProcFields
    <2>4. /\ UIOK(ui') /\ ui'.list = Listed /\ ui'.runId = ui.runId /\ ui'.ref = ui.ref
          /\ ui'.ready = ui.ready /\ ui'.asked = ui.asked /\ ui'.failed = ui.failed /\ ui'.sel = ui.sel
          /\ ui'.statusGate = i /\ ui'.artGate = ui.artGate
      BY <1>6, <1>9 DEF UIOK, UIFields
    <2>5. Holder(ui', i, x) BY <1>3, <1>5, <1>9, <2>3, <2>4 DEF Holder
    <2>6. Boots(procs[i]) => Boots(x) BY <1>1, <2>3 DEF Boots
    <2> QED BY <1>3, <1>9, <2>2, <2>3, <2>4, <2>5, <2>6, ListStep
  <1>10. ASSUME p.run # None, next # p.run
         PROVE  p.run \notin Known /\ next # None /\ next \in Known
    <2>1. next = pickBootstrapRun(Listed) /\ p.run \notin Known
      BY <1>1, <1>10, ListedOK DEF reconcileSelectedRunID
    <2>2. Started(p.run) BY <1>2, <1>3, <1>10 DEF ProcOK
    <2>3. Known # {} BY <2>1, <2>2 DEF ScreenInv, SrvTyped, NewestKept, Started, Known
    <2> QED BY <2>1, <2>3, ListedOK, PickOK
  <1>11. CASE /\ p.run # None /\ ui.runId = p.run /\ next # p.run /\ Replace(i, s, next) /\ UNCHANGED errs
    <2>1. PICK c, d, e : /\ c = clearRunStatusForRun(s, p.run) /\ d = resetRunLogs(c)
                         /\ e = clearArtifacts(d)
      OBVIOUS
    <2>2. Started(next) /\ next \in Runs BY <1>10, <1>11, ListedOK DEF Started
    <2>3. ui' = beginSelect(e, i, next) /\ procs' = [procs EXCEPT ![i] = Selecting(next, "poll")]
      BY <1>1, <1>11, <2>1 DEF Replace, Becomes
    <2>4. /\ UIOK(e) /\ e.list = Listed /\ e.ref = ui.ref /\ e.ready = ui.ready /\ e.asked = ui.asked
          /\ e.failed = ui.failed
      <3>1. /\ DOMAIN c = UIFields /\ c.status \in {s.status, None} /\ c.list = s.list /\ c.ref = s.ref
            /\ c.ready = s.ready /\ c.asked = s.asked /\ c.failed = s.failed /\ c.runId = s.runId
            /\ c.statusGate = s.statusGate /\ c.sel = s.sel
        BY <1>6, <2>1 DEF clearRunStatusForRun, UIOK, UIFields
      <3>2. /\ DOMAIN e = UIFields /\ e.status = c.status /\ e.list = c.list /\ e.ref = c.ref
            /\ e.ready = c.ready /\ e.asked = c.asked /\ e.failed = c.failed /\ e.runId = c.runId
            /\ e.statusGate = c.statusGate /\ e.sel = c.sel /\ e.logs = {} /\ e.cursor = 0
            /\ e.logsGate = None /\ e.artGate = None /\ e.snap = emptyEvidenceSnapshot
            /\ e.arts = None /\ e.art = None /\ e.preview = None
        BY <2>1, <3>1 DEF resetRunLogs, clearArtifacts, UIFields
      <3>3. e.snap.run = None BY <3>2 DEF emptyEvidenceSnapshot
      <3>4. 0 \in 0..MaxLog BY RunConsoleConstants
      <3>5. e.status \in {s.status, None} /\ e.runId = s.runId /\ e.statusGate = s.statusGate /\ e.sel = s.sel
        BY <3>1, <3>2
      <3>6. UIOK(e) BY <1>6, <3>2, <3>3, <3>4, <3>5 DEF UIOK, Statuses
      <3> QED BY <1>6, <3>1, <3>2, <3>6
    <2>5. /\ UIOK(ui') /\ ui'.runId = next /\ ui'.sel = i /\ ui'.statusGate = i /\ ui'.artGate = None
          /\ ui'.list = Listed /\ ui'.ref = ui.ref /\ ui'.ready = ui.ready /\ ui'.asked = ui.asked
          /\ ui'.failed = ui.failed
      BY <2>2, <2>3, <2>4, BeginSelectOK
    <2>6. srv' = srv /\ route' = route /\ moves' = moves BY <1>3 DEF Quiet
    <2>7. Bounds' BY <1>11, <2>6, BoundsKept DEF ScreenInv
    <2>8. ASSUME Booting PROVE Booting'
      <3>1. PICK j \in Procs : Boots(procs[j]) BY <2>8 DEF Booting
      <3>2. j # i BY <1>1, <1>2, <1>3, <3>1 DEF ProcOK, Boots
      <3>3. procs'[j] = procs[j] BY <2>3, <3>2 DEF ScreenInv, ProcsOK
      <3> QED BY <3>1, <3>3 DEF Booting, Boots
    <2>9. AskedOK'
      <3>1. Known' = Known BY <2>6 DEF Known
      <3>2. SUFFICES ASSUME ui.ready, ui.asked, ~ui.failed, ~Booting, route # None, ui.ref = route
                     PROVE  route \notin Known
        BY <2>5, <2>6, <2>8, <3>1, ListedOK DEF AskedOK
      <3> QED BY <1>10, <1>11, <3>2 DEF ScreenInv, AskedOK
    <2>10. \A q \in DOMAIN ui'.list : Started(q) BY <2>5, ListedOK
    <2>11. route' # None => Started(route') BY <2>6 DEF ScreenInv, SelectionOK
    <2> QED BY <2>2, <2>3, <2>5, <2>6, <2>7, <2>9, <2>10, <2>11, SelectStep
  <1>12. \/ ui' = ui /\ Ends(i) /\ (SomeError \/ UNCHANGED errs)
         \/ ui' = s /\ Ends(i) /\ UNCHANGED errs
         \/ /\ p.run # None /\ ui.runId = p.run /\ UNCHANGED errs
            /\ ui' = [s EXCEPT !.statusGate = i] /\ Becomes(i, [p EXCEPT !.pc = "status"])
         \/ /\ p.run # None /\ ui.runId = p.run /\ next # p.run /\ next # None /\ Replace(i, s, next)
            /\ UNCHANGED errs
         \/ p.run # None /\ next # p.run /\ next = None
    BY <1>1, Zenon DEF PollList
  <1> QED BY <1>7, <1>8, <1>9, <1>10, <1>11, <1>12

LEMMA StartPollOK ==
  ASSUME ScreenInv, NEW i \in Procs, StartPoll(i)
  PROVE  ScreenInv'
  <1>1. PICK x : x = [Proc("poll", ui.runId, "list") EXCEPT
                        !.final = (ui.status # None /\ ~Active(ui.status.status)), !.fresh = ~ui.eof]
    OBVIOUS
  <1>2. procs' = [procs EXCEPT ![i] = x] /\ procs[i] = Free /\ ui' = ui /\ UNCHANGED errs /\ Quiet
    BY <1>1 DEF StartPoll, Becomes, Idle, Quiet
  <1>3. UIOK(ui) /\ SameSel(ui, ui) /\ Holder(ui, i, Free) BY <1>2 DEF ScreenInv, SameSel, HoldersOK
  <1>4. ui.runId # None => Started(ui.runId) BY DEF ScreenInv, SelectionOK
  <1>5. /\ DOMAIN x = ProcFields /\ x.kind = "poll" /\ x.run = ui.runId /\ x.pc = "list"
        /\ x.by = "user" /\ x.cursor = 0
    BY <1>1 DEF Proc, ProcFields
  <1>6. ProcOK(x) BY <1>4, <1>5, RunConsoleConstants DEF ProcOK
  <1>7. ui.statusGate # i /\ ui.artGate # i BY <1>3 DEF Holder, Free, Proc
  <1>8. Holder(ui', i, x) BY <1>2, <1>5, <1>7 DEF Holder
  <1>9. ~Boots(procs[i]) BY <1>2 DEF Boots, Free, Proc
  <1> QED BY <1>2, <1>3, <1>6, <1>8, <1>9, QuietStep

LEMMA StopPollOK ==
  ASSUME ScreenInv, StopPoll
  PROVE  ScreenInv'
  <1>1. srv' = srv /\ ui' = ui /\ route' = route /\ moves' = moves /\ errs' = errs BY DEF StopPoll
  <1>2. DOMAIN procs' = Procs BY DEF StopPoll
  <1>3. ASSUME NEW i \in Procs
        PROVE  ProcOK(procs'[i]) /\ Holder(ui', i, procs'[i]) /\ (Boots(procs[i]) => Boots(procs'[i]))
    <2>1. ProcOK(procs[i]) /\ Holder(ui, i, procs[i]) BY DEF ScreenInv, ProcsOK, HoldersOK
    <2>2. CASE Polling(procs[i])
      <3>1. PICK x : x = procs'[i] OBVIOUS
      <3>2. x = [procs[i] EXCEPT !.aborted = procs[i].kind = "poll", !.by = "user"]
        BY <2>2, <3>1 DEF StopPoll
      <3>3. procs[i].kind = "poll" \/ procs[i].by = "poll" BY <2>2 DEF Polling
      <3>4. /\ DOMAIN x = ProcFields /\ x.kind = procs[i].kind /\ x.run = procs[i].run
            /\ x.pc = procs[i].pc /\ x.cursor = procs[i].cursor /\ x.by = "user"
        BY <2>1, <3>2 DEF ProcOK, ProcFields
      <3>5. x.aborted = (procs[i].kind = "poll") BY <2>1, <3>2 DEF ProcOK, ProcFields
      <3>6. procs[i].kind = "select" => x.aborted = FALSE
        <4>1. ASSUME procs[i].kind = "select" PROVE (procs[i].kind = "poll") = FALSE BY <4>1
        <4> QED BY <3>5, <4>1, Zenon
      <3>7. ProcOK(x) BY <2>1, <3>4, <3>6 DEF ProcOK
      <3>8. Holder(ui', i, x) BY <1>1, <2>1, <3>4 DEF Holder
      <3>9. Boots(procs[i]) => Boots(x) BY <2>1, <3>3, <3>4 DEF ProcOK, Boots
      <3> QED BY <3>1, <3>7, <3>8, <3>9
    <2>3. CASE ~Polling(procs[i])
      <3>1. procs'[i] = procs[i] BY <2>3 DEF StopPoll
      <3> QED BY <1>1, <2>1, <3>1
    <2> QED BY <2>2, <2>3
  <1>4. ProcsOK'
    <2>1. ASSUME NEW p, ProcOK(p) PROVE ProcOK(p)' BY <1>1, <2>1 DEF ProcOK, Started
    <2> QED BY <1>2, <1>3, <2>1 DEF ProcsOK
  <1>5. HoldersOK' BY <1>3 DEF HoldersOK
  <1>6. Booting => Booting' BY <1>3 DEF Booting, Boots
  <1>7. AskedOK' BY <1>1, <1>6 DEF ScreenInv, AskedOK, Known
  <1>8. SrvTyped' /\ NewestKept' /\ UIOK(ui') /\ SelectionOK' /\ Bounds'
    BY <1>1 DEF ScreenInv, SrvTyped, NewestKept, Known, SelectionOK, Started, Bounds
  <1> QED BY <1>4, <1>5, <1>7, <1>8 DEF ScreenInv

-----------------------------------------------------------------------------
(* The bootstrap, the address and the user *)

LEMMA BootstrapListOK ==
  ASSUME ScreenInv, NEW i \in Procs, BootstrapList(i)
  PROVE  ScreenInv'
  <1>1. PICK p : p = procs[i] OBVIOUS
  <1>2. ProcOK(p) /\ Holder(ui, i, p) BY <1>1 DEF ScreenInv, ProcsOK, HoldersOK
  <1>3. p.pc = "bootList" /\ Quiet BY <1>1 DEF BootstrapList
  <1>4. p.kind = "boot" BY <1>2, <1>3 DEF ProcOK
  <1>5. UIOK(ui) /\ i # None BY RunConsoleConstants DEF ScreenInv
  <1>6. ui.statusGate # i /\ ui.artGate # i BY <1>2, <1>3 DEF Holder
  <1>7. srv' = srv /\ route' = route /\ moves' = moves BY <1>3 DEF Quiet
  <1>8. PICK list, r, s :
          /\ list \in {Listed, <<>>} /\ r = pickBootstrapRun(list) /\ s = [ui EXCEPT !.list = list]
          /\ SomeError \/ UNCHANGED errs
          /\ \/ r = None /\ ui' = s /\ Becomes(i, [p EXCEPT !.pc = "bootRest"])
             \/ r # None /\ ui' = beginSelect(s, i, r) /\ Becomes(i, Selecting(r, "boot"))
    <2>1. PICK list \in {Listed, <<>>} :
            /\ SomeError \/ UNCHANGED errs
            /\ IF pickBootstrapRun(list) = None
                 THEN ui' = [ui EXCEPT !.list = list] /\ Becomes(i, [p EXCEPT !.pc = "bootRest"])
                 ELSE /\ ui' = beginSelect([ui EXCEPT !.list = list], i, pickBootstrapRun(list))
                      /\ Becomes(i, Selecting(pickBootstrapRun(list), "boot"))
      BY <1>1, Zenon DEF BootstrapList
    <2> QED BY <2>1, Zenon
  <1>9. Bounds' BY <1>7, <1>8, BoundsKept DEF ScreenInv
  <1>10. \A q \in DOMAIN list : Started(q) BY <1>8, ListedOK
  <1>11. /\ UIOK(s) /\ s.list = list /\ s.runId = ui.runId /\ s.ref = ui.ref /\ s.ready = ui.ready
         /\ s.asked = ui.asked /\ s.failed = ui.failed /\ s.sel = ui.sel
         /\ s.statusGate = ui.statusGate /\ s.artGate = ui.artGate
    BY <1>5, <1>8 DEF UIOK, UIFields
  <1>12. CASE r = None /\ ui' = s /\ Becomes(i, [p EXCEPT !.pc = "bootRest"])
    <2>1. PICK x : x = [p EXCEPT !.pc = "bootRest"] OBVIOUS
    <2>2. procs' = [procs EXCEPT ![i] = x] BY <1>12, <2>1 DEF Becomes
    <2>3. x.pc = "bootRest" /\ x.run = p.run /\ x.kind = p.kind /\ x.by = p.by /\ ProcOK(x)
      BY <1>2, <1>4, <2>1 DEF ProcOK, ProcFields
    <2>4. Holder(ui', i, x) BY <1>4, <1>6, <1>11, <1>12, <2>3 DEF Holder
    <2>5. Booting'
      <3>1. procs'[i] = x BY <2>2 DEF ScreenInv, ProcsOK
      <3>2. Boots(procs'[i]) BY <1>4, <2>3, <3>1 DEF Boots
      <3> QED BY <3>2 DEF Booting, Boots
    <2>6. AskedOK' BY <2>5 DEF AskedOK
    <2>7. SelectionOK' BY <1>7, <1>10, <1>11, <1>12 DEF ScreenInv, SelectionOK, Started
    <2>8. Takes(i) BY <1>11, <1>12 DEF Takes
    <2> QED BY <1>7, <1>9, <1>11, <1>12, <2>2, <2>3, <2>4, <2>6, <2>7, <2>8, ProcStep
  <1>13. CASE r # None /\ ui' = beginSelect(s, i, r) /\ Becomes(i, Selecting(r, "boot"))
    <2>1. r \in DOMAIN list
      <3>1. DOMAIN list \subseteq Runs BY <1>10 DEF Started
      <3> QED BY <1>8, <1>13, <3>1, PickOK
    <2>2. Started(r) /\ r \in Runs BY <1>10, <2>1 DEF Started
    <2>3. procs' = [procs EXCEPT ![i] = Selecting(r, "boot")] BY <1>13 DEF Becomes
    <2>4. /\ UIOK(ui') /\ ui'.runId = r /\ ui'.sel = i /\ ui'.statusGate = i /\ ui'.artGate = None
          /\ ui'.list = list
      BY <1>11, <1>13, <2>2, BeginSelectOK
    <2>5. Booting'
      <3>1. procs'[i].by = "boot" BY <2>2, <2>3, SelectingOK DEF ScreenInv, ProcsOK
      <3> QED BY <3>1 DEF Booting, Boots
    <2>6. AskedOK' BY <2>5 DEF AskedOK
    <2>7. route' # None => Started(route') BY <1>7 DEF ScreenInv, SelectionOK
    <2>8. \A q \in DOMAIN ui'.list : Started(q) BY <1>10, <2>4
    <2> QED BY <1>7, <1>9, <2>2, <2>3, <2>4, <2>6, <2>7, <2>8, SelectStep
  <1> QED BY <1>8, <1>12, <1>13

LEMMA BootstrapEndsOK ==
  ASSUME ScreenInv, NEW i \in Procs, BootstrapEnds(i)
  PROVE  ScreenInv'
  <1>1. PICK p : p = procs[i] OBVIOUS
  <1>2. ProcOK(p) /\ Holder(ui, i, p) BY <1>1 DEF ScreenInv, ProcsOK, HoldersOK
  <1>3. p.pc = "bootRest" /\ Quiet /\ (SomeError \/ UNCHANGED errs) BY <1>1 DEF BootstrapEnds
  <1>4. UIOK(ui) /\ i # None BY RunConsoleConstants DEF ScreenInv
  <1>5. ui.statusGate # i /\ ui.artGate # i BY <1>2, <1>3 DEF Holder
  <1>6. srv' = srv /\ route' = route /\ moves' = moves BY <1>3 DEF Quiet
  <1>7. Bounds' BY <1>3, <1>6, BoundsKept DEF ScreenInv
  <1>8. route # None => Started(route) BY DEF ScreenInv, SelectionOK
  <1>9. CASE /\ Ends(i)
             /\ \/ route = None /\ ui' = [ui EXCEPT !.ready = TRUE]
                \/ ui' = [ui EXCEPT !.failed = TRUE]
    <2>1. PICK x : x = IF procs[i].by = "boot" THEN Proc("boot", None, "bootRest") ELSE Free OBVIOUS
    <2>2. procs' = [procs EXCEPT ![i] = x] BY <1>9, <2>1 DEF Ends, ScreenInv, ProcsOK
    <2>3. ProcOK(x) /\ x.kind \in {"boot", "free"}
      BY <2>1, RunConsoleConstants DEF Proc, Free, ProcOK, ProcFields
    <2>4. /\ UIOK(ui') /\ ui'.list = ui.list /\ ui'.runId = ui.runId /\ ui'.sel = ui.sel
          /\ ui'.statusGate = ui.statusGate /\ ui'.artGate = ui.artGate
      BY <1>4, <1>9 DEF UIOK, UIFields
    <2>5. Holder(ui', i, x) BY <1>5, <2>3, <2>4 DEF Holder
    <2>6. AskedOK'
      <3>1. CASE route = None BY <1>6, <3>1 DEF AskedOK
      <3>2. CASE ui' = [ui EXCEPT !.failed = TRUE]
        <4>1. ui'.failed BY <1>4, <3>2 DEF UIOK, UIFields
        <4> QED BY <4>1 DEF AskedOK
      <3> QED BY <1>9, <3>1, <3>2
    <2>7. SelectionOK' BY <1>6, <2>4 DEF ScreenInv, SelectionOK, Started
    <2>8. Takes(i) BY <2>4 DEF Takes
    <2> QED BY <1>6, <1>7, <2>2, <2>3, <2>4, <2>5, <2>6, <2>7, <2>8, ProcStep
  <1>10. CASE /\ route # None
              /\ ui' = [beginSelect(ui, i, route) EXCEPT !.ready = TRUE]
              /\ Becomes(i, Selecting(route, "user"))
    <2>1. Started(route) /\ route \in Runs BY <1>8, <1>10 DEF Started
    <2>2. procs' = [procs EXCEPT ![i] = Selecting(route, "user")] BY <1>10 DEF Becomes
    <2>3. PICK t : t = beginSelect(ui, i, route) OBVIOUS
    <2>4. UIOK(t) /\ t.runId = route /\ t.sel = i /\ t.statusGate = i /\ t.artGate = None /\ t.list = ui.list
      BY <1>4, <2>1, <2>3, BeginSelectOK
    <2>5. /\ UIOK(ui') /\ ui'.runId = route /\ ui'.sel = i /\ ui'.statusGate = i /\ ui'.artGate = None
          /\ ui'.list = ui.list
      BY <1>10, <2>3, <2>4 DEF UIOK, UIFields
    <2>6. AskedOK' BY <1>6, <2>5 DEF AskedOK
    <2>7. route' # None => Started(route') BY <1>6, <1>8
    <2>8. \A q \in DOMAIN ui'.list : Started(q) BY <2>5 DEF ScreenInv, SelectionOK
    <2> QED BY <1>6, <1>7, <2>1, <2>2, <2>5, <2>6, <2>7, <2>8, SelectStep
  <1> QED BY <1>1, <1>9, <1>10, Zenon DEF BootstrapEnds

LEMMA BootstrapBeginsOK ==
  ASSUME ScreenInv, NEW i \in Procs, BootstrapBegins(i)
  PROVE  ScreenInv'
  <1>1. PICK x : x = Proc("boot", None, "bootList") OBVIOUS
  <1>2. /\ procs' = [procs EXCEPT ![i] = x] /\ procs[i] = Free /\ ui' = [ui EXCEPT !.failed = FALSE]
        /\ srv' = srv /\ route' = route /\ errs' = errs /\ moves < MaxMoves /\ moves' = moves + 1
    BY <1>1 DEF BootstrapBegins, Becomes, Idle, Move, Event
  <1>3. UIOK(ui) /\ Holder(ui, i, Free) BY <1>2 DEF ScreenInv, HoldersOK
  <1>4. ProcOK(x) /\ x.kind = "boot" /\ x.pc = "bootList"
    BY <1>1, RunConsoleConstants DEF Proc, ProcOK, ProcFields
  <1>5. ui.statusGate # i /\ ui.artGate # i BY <1>3 DEF Holder, Free, Proc
  <1>6. /\ UIOK(ui') /\ ui'.list = ui.list /\ ui'.runId = ui.runId /\ ui'.sel = ui.sel
        /\ ui'.statusGate = ui.statusGate /\ ui'.artGate = ui.artGate
    BY <1>2, <1>3 DEF UIOK, UIFields
  <1>7. Holder(ui', i, x) BY <1>4, <1>5, <1>6 DEF Holder
  <1>8. Booting'
    <2>1. procs'[i] = x BY <1>2 DEF ScreenInv, ProcsOK
    <2> QED BY <1>4, <2>1 DEF Booting, Boots
  <1>9. AskedOK' BY <1>8 DEF AskedOK
  <1>10. SelectionOK' BY <1>2, <1>6 DEF ScreenInv, SelectionOK, Started
  <1>11. Bounds' BY <1>2, RunConsoleConstants DEF ScreenInv, Bounds
  <1>12. Takes(i) BY <1>6 DEF Takes
  <1> QED BY <1>2, <1>4, <1>6, <1>7, <1>9, <1>10, <1>11, <1>12, ProcStep

LEMMA SelectRunAndRouteOK ==
  ASSUME ScreenInv, NEW i \in Procs, NEW r \in Runs, SelectRunAndRoute(i, r)
  PROVE  ScreenInv'
  <1>1. PICK t : t = beginSelect(ui, i, r) OBVIOUS
  <1>2. /\ procs' = [procs EXCEPT ![i] = Selecting(r, "user")]
        /\ ui' = [t EXCEPT !.ref = r, !.asked = TRUE] /\ r \in DOMAIN ui.list
        /\ srv' = srv /\ route' = r /\ errs' = errs /\ moves < MaxMoves /\ moves' = moves + 1
    BY <1>1 DEF SelectRunAndRoute, Becomes, Move, Event
  <1>3. UIOK(ui) /\ Started(r) BY <1>2 DEF ScreenInv, SelectionOK
  <1>4. UIOK(t) /\ t.runId = r /\ t.sel = i /\ t.statusGate = i /\ t.artGate = None /\ t.list = ui.list
    BY <1>1, <1>3, BeginSelectOK
  <1>5. /\ UIOK(ui') /\ ui'.runId = r /\ ui'.sel = i /\ ui'.statusGate = i /\ ui'.artGate = None
        /\ ui'.list = ui.list
    BY <1>2, <1>4 DEF UIOK, UIFields
  <1>6. AskedOK' BY <1>2, <1>5 DEF AskedOK
  <1>7. Bounds' BY <1>2, RunConsoleConstants DEF ScreenInv, Bounds
  <1>8. \A q \in DOMAIN ui'.list : Started(q) BY <1>5 DEF ScreenInv, SelectionOK
  <1> QED BY <1>2, <1>3, <1>5, <1>6, <1>7, <1>8, SelectStep

LEMMA VisitOK ==
  ASSUME ScreenInv, NEW r \in Runs \cup {None}, Visit(r)
  PROVE  ScreenInv'
  <1>1. /\ ui' = [ui EXCEPT !.asked = FALSE] /\ route' = r /\ procs' = procs /\ srv' = srv
        /\ errs' = errs /\ moves < MaxMoves /\ moves' = moves + 1
        /\ r # None => Started(r)
    BY DEF Visit, Move, Event, Started
  <1>2. UIOK(ui) BY DEF ScreenInv
  <1>3. /\ UIOK(ui') /\ ui'.list = ui.list /\ ui'.runId = ui.runId /\ ui'.sel = ui.sel
        /\ ui'.statusGate = ui.statusGate /\ ui'.artGate = ui.artGate
    BY <1>1, <1>2 DEF UIOK, UIFields
  <1>4. ~ui'.asked BY <1>1, <1>2 DEF UIOK, UIFields
  <1>5. AskedOK' BY <1>4 DEF AskedOK
  <1>6. SelectionOK' BY <1>1, <1>3 DEF ScreenInv, SelectionOK, Started
  <1>7. Bounds' BY <1>1, RunConsoleConstants DEF ScreenInv, Bounds
  <1> QED BY <1>1, <1>3, <1>5, <1>6, <1>7, StillStep

LEMMA RouteEffectOK ==
  ASSUME ScreenInv, NEW i \in Procs, RouteEffect(i)
  PROVE  ScreenInv'
  <1>1. UIOK(ui) /\ srv' = srv /\ moves' = moves /\ errs' = errs BY DEF ScreenInv, RouteEffect
  <1>2. Bounds' BY <1>1 DEF ScreenInv, Bounds
  <1>3. CASE route = None /\ ui' = [ui EXCEPT !.ref = None] /\ procs' = procs /\ route' = route
    <2>1. /\ UIOK(ui') /\ ui'.list = ui.list /\ ui'.runId = ui.runId /\ ui'.sel = ui.sel
          /\ ui'.statusGate = ui.statusGate /\ ui'.artGate = ui.artGate
      BY <1>1, <1>3 DEF UIOK, UIFields
    <2>2. AskedOK' BY <1>3 DEF AskedOK
    <2>3. SelectionOK' BY <1>1, <1>3, <2>1 DEF ScreenInv, SelectionOK, Started
    <2> QED BY <1>1, <1>2, <1>3, <2>1, <2>2, <2>3, StillStep
  <1>4. CASE ui' = [clearRunSelection(ui) EXCEPT !.ref = route] /\ route' = None /\ procs' = procs
    <2>1. PICK t : t = clearRunSelection(ui) OBVIOUS
    <2>2. /\ UIOK(t) /\ t.runId = None /\ t.artGate = None /\ t.statusGate = ui.statusGate
          /\ t.list = ui.list /\ t.sel = ui.sel
      BY <1>1, <2>1, ClearedOK
    <2>3. /\ UIOK(ui') /\ ui'.list = ui.list /\ ui'.runId = None /\ ui'.sel = ui.sel
          /\ ui'.statusGate = ui.statusGate /\ ui'.artGate = None
      BY <1>4, <2>1, <2>2 DEF UIOK, UIFields
    <2>4. AskedOK' BY <1>4 DEF AskedOK
    <2>5. SelectionOK' BY <1>1, <1>4, <2>3 DEF ScreenInv, SelectionOK, Started
    <2> QED BY <1>1, <1>2, <1>4, <2>3, <2>4, <2>5, StillStep
  <1>5. CASE /\ route \in DOMAIN ui.list /\ ui' = [beginSelect(ui, i, route) EXCEPT !.ref = route]
             /\ Becomes(i, Selecting(route, "user")) /\ route' = route
    <2>1. Started(route) /\ route \in Runs BY <1>5 DEF ScreenInv, SelectionOK, Started
    <2>2. procs' = [procs EXCEPT ![i] = Selecting(route, "user")] BY <1>5 DEF Becomes
    <2>3. PICK t : t = beginSelect(ui, i, route) OBVIOUS
    <2>4. UIOK(t) /\ t.runId = route /\ t.sel = i /\ t.statusGate = i /\ t.artGate = None /\ t.list = ui.list
      BY <1>1, <2>1, <2>3, BeginSelectOK
    <2>5. /\ UIOK(ui') /\ ui'.runId = route /\ ui'.sel = i /\ ui'.statusGate = i /\ ui'.artGate = None
          /\ ui'.list = ui.list
      BY <1>5, <2>3, <2>4 DEF UIOK, UIFields
    <2>6. AskedOK' BY <1>5, <2>5 DEF AskedOK
    <2>7. \A q \in DOMAIN ui'.list : Started(q) BY <2>5 DEF ScreenInv, SelectionOK
    <2> QED BY <1>1, <1>2, <1>5, <2>1, <2>2, <2>5, <2>6, <2>7, SelectStep
  <1> QED BY <1>3, <1>4, <1>5, Zenon DEF RouteEffect

LEMMA OpenArtifactOK ==
  ASSUME ScreenInv, OpenArtifact
  PROVE  ScreenInv'
  <1>1. /\ ui.arts # None /\ ui' = [ui EXCEPT !.art = [run |-> ui.arts, shown |-> FALSE], !.preview = ui.arts]
        /\ srv' = srv /\ procs' = procs /\ route' = route /\ errs' = errs
        /\ moves < MaxMoves /\ moves' = moves + 1
    BY DEF OpenArtifact, Move, Event
  <1>2. UIOK(ui) BY DEF ScreenInv
  <1>3. /\ UIOK(ui') /\ SameSel(ui, ui') /\ ui'.statusGate = ui.statusGate /\ ui'.artGate = ui.artGate
    BY <1>1, <1>2 DEF UIOK, UIFields, SameSel
  <1>4. AskedOK' BY <1>1, <1>3 DEF ScreenInv, AskedOK, Booting, Boots, Known, SameSel
  <1>5. SelectionOK' BY <1>1, <1>3 DEF ScreenInv, SelectionOK, Started, SameSel
  <1>6. Bounds' BY <1>1, RunConsoleConstants DEF ScreenInv, Bounds
  <1> QED BY <1>1, <1>3, <1>4, <1>5, <1>6, StillStep DEF SameSel

LEMMA ArtifactArrivesOK ==
  ASSUME ScreenInv, ArtifactArrives
  PROVE  ScreenInv'
  <1>1. /\ ui.preview # None /\ ui' = [ui EXCEPT !.art = [run |-> ui.preview, shown |-> TRUE], !.preview = None]
        /\ srv' = srv /\ procs' = procs /\ route' = route /\ errs' = errs /\ moves' = moves
    BY DEF ArtifactArrives, Quiet
  <1>2. UIOK(ui) BY DEF ScreenInv
  <1>3. /\ UIOK(ui') /\ SameSel(ui, ui') /\ ui'.statusGate = ui.statusGate /\ ui'.artGate = ui.artGate
    BY <1>1, <1>2 DEF UIOK, UIFields, SameSel
  <1>4. AskedOK' BY <1>1, <1>3 DEF ScreenInv, AskedOK, Booting, Boots, Known, SameSel
  <1>5. SelectionOK' BY <1>1, <1>3 DEF ScreenInv, SelectionOK, Started, SameSel
  <1>6. Bounds' BY <1>1 DEF ScreenInv, Bounds
  <1> QED BY <1>1, <1>3, <1>4, <1>5, <1>6, StillStep DEF SameSel

-----------------------------------------------------------------------------
(* The service *)

\* What a step of the service leaves standing, whatever run it is about: a run that was
\* started stays started, and one that is gone does not come back.
LEMMA ServiceStep ==
  ASSUME ScreenInv, UNCHANGED <<ui, procs, route, errs>>, Event, SrvTyped', NewestKept',
         \A r : Started(r) => Started(r)' /\ (r \notin Known => r \notin Known')
  PROVE  ScreenInv'
  <1>1. ui' = ui /\ procs' = procs /\ route' = route /\ errs' = errs /\ moves < MaxMoves /\ moves' = moves + 1
    BY DEF Event
  <1>2. ProcsOK'
    <2>1. ASSUME NEW p, ProcOK(p) PROVE ProcOK(p)' BY <2>1 DEF ProcOK
    <2> QED BY <1>1, <2>1 DEF ScreenInv, ProcsOK
  <1>3. HoldersOK' BY <1>1 DEF ScreenInv, HoldersOK
  <1>4. SelectionOK' BY <1>1 DEF ScreenInv, SelectionOK
  <1>5. AskedOK'
    <2>1. Booting' <=> Booting BY <1>1 DEF Booting, Boots
    <2>2. route # None => Started(route) BY DEF ScreenInv, SelectionOK
    <2> QED BY <1>1, <2>1, <2>2 DEF ScreenInv, AskedOK
  <1>6. Bounds' BY <1>1, RunConsoleConstants DEF ScreenInv, Bounds
  <1>7. UIOK(ui') BY <1>1 DEF ScreenInv
  <1> QED BY <1>2, <1>3, <1>4, <1>5, <1>6, <1>7 DEF ScreenInv

LEMMA ServiceOK ==
  ASSUME ScreenInv, NEW r \in Runs, RunStarts(r) \/ RunLogs(r) \/ RunFinishes(r) \/ RunEvicted(r)
  PROVE  ScreenInv'
  <1>1. SrvTyped /\ NewestKept BY DEF ScreenInv
  <1>2. Runs \subseteq Nat /\ MaxLog \in Nat BY RunConsoleConstants
  <1>3. UNCHANGED <<ui, procs, route, errs>> /\ Event BY DEF RunStarts, RunLogs, RunFinishes, RunEvicted
  <1>4. /\ SrvTyped' /\ \A q \in Runs : q # r => srv'[q] = srv[q]
        /\ \/ srv[r].status = "absent" /\ srv'[r].status = "running"
           \/ srv[r].status = "running" /\ srv'[r].status \in {"running", "done"}
           \/ srv[r].status = "done" /\ srv'[r].status = "evicted" /\ \E q \in Known : q > r
    <2>1. CASE RunStarts(r) BY <1>1, <1>2, <2>1 DEF RunStarts, SrvTyped
    <2>2. CASE RunLogs(r)
      <3>1. PICK x : x = [srv[r] EXCEPT !.log = @ + 1] OBVIOUS
      <3>2. srv' = [srv EXCEPT ![r] = x] /\ srv[r].status = "running" /\ srv[r].log < MaxLog
        BY <1>1, <2>2, <3>1 DEF RunLogs, SrvTyped
      <3>3. x \in [status : {"absent", "running", "done", "evicted"}, log : 0..MaxLog] /\ x.status = "running"
        BY <1>1, <1>2, <3>1, <3>2 DEF SrvTyped
      <3> QED BY <1>1, <3>2, <3>3 DEF SrvTyped
    <2>3. CASE RunFinishes(r)
      <3>1. PICK x : x = [srv[r] EXCEPT !.status = "done"] OBVIOUS
      <3>2. srv' = [srv EXCEPT ![r] = x] /\ srv[r].status = "running"
        BY <1>1, <2>3, <3>1 DEF RunFinishes, SrvTyped
      <3>3. x \in [status : {"absent", "running", "done", "evicted"}, log : 0..MaxLog] /\ x.status = "done"
        BY <1>1, <3>1 DEF SrvTyped
      <3> QED BY <1>1, <3>2, <3>3 DEF SrvTyped
    <2>4. CASE RunEvicted(r) BY <1>1, <1>2, <2>4 DEF RunEvicted, SrvTyped
    <2> QED BY <2>1, <2>2, <2>3, <2>4
  <1>5. ASSUME NEW q, Started(q) PROVE Started(q)' /\ (q \notin Known => q \notin Known')
    BY <1>1, <1>4, <1>5 DEF Started, Known, SrvTyped
  <1>6. NewestKept'
    <2>1. ASSUME NEW q \in Runs, srv'[q].status = "evicted" PROVE \E k \in Known' : k > q
      <3>1. PICK k \in Known : k > q
        <4>1. CASE q = r BY <1>4, <2>1, <4>1
        <4>2. CASE q # r BY <1>1, <1>4, <2>1, <4>2 DEF NewestKept
        <4> QED BY <4>1, <4>2
      <3>2. CASE k \in Known' BY <3>1, <3>2
      <3>3. CASE k \notin Known'
        <4>1. k = r /\ srv[r].status = "done" BY <1>4, <3>1, <3>3 DEF Known
        <4>2. PICK n \in Known : n > r BY <1>4, <3>3, <4>1 DEF Known
        <4>3. n \in Known' /\ n > q BY <1>2, <1>4, <2>1, <3>1, <4>1, <4>2 DEF Known
        <4> QED BY <4>3
      <3> QED BY <3>2, <3>3
    <2> QED BY <2>1 DEF NewestKept
  <1> QED BY <1>3, <1>4, <1>5, <1>6, ServiceStep

-----------------------------------------------------------------------------
(* The theorems *)

LEMMA InitOK == Init => ScreenInv
  <1> SUFFICES ASSUME Init PROVE ScreenInv OBVIOUS
  <1>1. PICK i \in Procs : procs = [j \in Procs |-> IF j = i THEN Proc("boot", None, "bootList") ELSE Free]
    BY DEF Init
  <1>2. 0 \in 0..MaxLog /\ MaxLog \in 0..MaxLog /\ None \notin Runs /\ None \notin Procs
    BY RunConsoleConstants
  <1>3. SrvTyped BY <1>2 DEF Init, SrvTyped
  <1>4. NewestKept BY DEF Init, NewestKept
  <1>5. PICK s : s = ui OBVIOUS
  <1>6. /\ DOMAIN s = UIFields /\ s.runId = None /\ s.status = None /\ s.list = <<>> /\ s.logs = {}
        /\ s.cursor = 0 /\ s.statusGate = None /\ s.logsGate = None /\ s.artGate = None
        /\ s.sel = None /\ s.ready = FALSE
    BY <1>5 DEF Init, InitialUI, UIFields
  <1>7. UIOK(ui) BY <1>2, <1>5, <1>6 DEF UIOK, RunOrNone, Statuses
  <1>8. ASSUME NEW j \in Procs PROVE ProcOK(procs[j]) /\ Holder(ui, j, procs[j])
    <2>1. PICK x \in {Proc("boot", None, "bootList"), Free} : x = procs[j] BY <1>1
    <2>2. ProcOK(x) /\ x.kind # "select" BY <1>2 DEF Proc, Free, ProcOK, ProcFields
    <2> QED BY <1>2, <1>5, <1>6, <2>1, <2>2 DEF Holder
  <1>9. ProcsOK BY <1>1, <1>8 DEF ProcsOK
  <1>10. HoldersOK BY <1>8 DEF HoldersOK
  <1>11. DOMAIN ui.list = {} BY <1>5, <1>6
  <1>12. SelectionOK BY <1>5, <1>6, <1>11 DEF SelectionOK, Started, Init
  <1>13. AskedOK BY <1>5, <1>6, Zenon DEF AskedOK
  <1>14. Bounds BY RunConsoleConstants DEF Init, Bounds
  <1> QED BY <1>3, <1>4, <1>7, <1>9, <1>10, <1>12, <1>13, <1>14 DEF ScreenInv

LEMMA NextOK == ScreenInv /\ [Next]_vars => ScreenInv'
  <1> SUFFICES ASSUME ScreenInv, [Next]_vars PROVE ScreenInv' OBVIOUS
  <1>1. ASSUME NEW i \in Procs, Resume(i) PROVE ScreenInv'
    BY <1>1, SelectStatusOK, SelectArtifactsOK, SelectLogsOK, UntilEOFOK, PollListOK, PollStatusOK,
       PollArtifactsOK, PollPageOK, BootstrapListOK, BootstrapEndsOK, Zenon DEF Resume
  <1>2. ASSUME NEW i \in Procs, StartPoll(i) \/ User(i) \/ RouteEffect(i) PROVE ScreenInv'
    BY <1>2, StartPollOK, BootstrapBeginsOK, SelectRunAndRouteOK, RouteEffectOK, Zenon DEF User
  <1>3. CASE StopPoll \/ OpenArtifact \/ ArtifactArrives \/ \E r \in Runs \cup {None} : Visit(r)
    BY <1>3, StopPollOK, OpenArtifactOK, ArtifactArrivesOK, VisitOK
  <1>4. CASE Service BY <1>4, ServiceOK, Zenon DEF Service
  <1>5. CASE UNCHANGED vars
    <2>1. srv' = srv /\ ui' = ui /\ procs' = procs /\ route' = route /\ moves' = moves /\ errs' = errs
      BY <1>5 DEF vars
    <2> QED BY <2>1 DEF ScreenInv, SrvTyped, NewestKept, Known, ProcsOK, ProcOK, Started, HoldersOK,
                        SelectionOK, AskedOK, Booting, Boots, Bounds
  <1> QED BY <1>1, <1>2, <1>3, <1>4, <1>5, Zenon DEF Next

\* The strengthened invariant: a function at an await holds the gate of its request only
\* while its run is the selected one, and what was asked for is selected unless a bootstrap
\* is still under way or retention dropped it (the useRun* hooks, App.tsx).
THEOREM ScreenInvHolds == Spec => []ScreenInv
  BY InitOK, NextOK, PTL DEF Spec

\* What the screen shows belongs to the selected run, and the cursor of the log stays
\* within the log, whatever answers come late (applyEvidenceSnapshot, fetchRunStatus,
\* mergeRunLogsPayload).
THEOREM ScreenIsOfSelectedRun == Spec => []ConsoleInv
  <1>1. ScreenInv => ConsoleInv
    <2> SUFFICES ASSUME ScreenInv PROVE ConsoleInv OBVIOUS
    <2>1. UIOK(ui) /\ ProcsOK /\ SelectionOK /\ Bounds /\ SrvTyped BY DEF ScreenInv
    <2>2. ShownIsOfSelected BY <2>1 DEF UIOK, ShownIsOfSelected
    <2>3. route \in RunOrNone BY <2>1 DEF SelectionOK, Started, RunOrNone
    <2>4. TypeOK BY <2>1, <2>3 DEF TypeOK, UIOK, ProcsOK, ProcOK, SrvTyped, Bounds
    <2> QED BY <2>2, <2>4 DEF ConsoleInv
  <1> QED BY <1>1, ScreenInvHolds, PTL

\* The run the user asked for is the one selected in the end (handleSelectRunAndRoute,
\* bootstrapConsoleData, the effect that restores the run of the address).
THEOREM AskedRunEndsSelected == Spec => []AskedRunIsSelected
  <1>1. ScreenInv => AskedRunIsSelected
    <2> SUFFICES ASSUME ScreenInv, ui.ready, ui.asked, ~ui.failed, \A i \in Procs : procs[i] = Free,
                        route \in DOMAIN ui.list, ~RouteDue
                 PROVE  ui.runId = route
      BY Zenon DEF AskedRunIsSelected
    <2>1. ~Booting BY DEF Booting, Boots, Free, Proc
    <2>2. route # None BY RunConsoleConstants DEF ScreenInv, SelectionOK, Started
    <2>3. ui.ref = route \/ ui.runId = route BY DEF RouteDue
    <2> QED BY <2>1, <2>2, <2>3 DEF ScreenInv, AskedOK
  <1> QED BY <1>1, ScreenInvHolds, PTL
=============================================================================
