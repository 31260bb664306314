-------------------------- MODULE RunServiceProofs --------------------------
(***************************************************************************)
(* Proofs about RunService for every number of runs, every retention and   *)
(* any number of failed writes and restarts.                               *)
(***************************************************************************)
EXTENDS RunService, FiniteSetTheorems, WellFoundedInduction, TLAPS

\* The part of TypeOK that an upsert changes.
RegistryTyped ==
    /\ runs \in [RunIds -> RunState]
    /\ history \in [RunIds -> RunState]
    /\ faults \in 0..MaxFaults

\* A step leaves the runs outside S in flight as they are, and their absent
\* records absent.
OthersKept(S) ==
    \A x \in RunIds \ S :
        /\ runs[x] \in InFlight => runs'[x] = runs[x]
        /\ runs[x] = "absent" => runs'[x] = "absent"
        /\ runs[x] = "absent" /\ history[x] = "absent" => history'[x] = "absent"

\* Retention drops terminal records only (retainRunRecords).
LEMMA TrimKeepsInFlight ==
    ASSUME NEW f \in [RunIds -> RunState]
    PROVE  /\ Trim(f) \in [RunIds -> RunState]
           /\ \A r \in RunIds : ~IsTerminal(f[r]) => Trim(f)[r] = f[r]
           /\ \A r \in RunIds : Trim(f)[r] \in {f[r], "absent"}
  BY DEF Trim, Retained, RunState

\* One record changes, and only if it does not regress (upsertRunsLocked).
LEMMA PutOne ==
    ASSUME NEW f \in [RunIds -> RunState], NEW r \in RunIds,
           NEW status \in RunState
    PROVE  /\ Put(f, r, status) \in [RunIds -> RunState]
           /\ \A x \in RunIds : x # r => Put(f, r, status)[x] = f[x]
           /\ Put(f, r, status)[r] \in {f[r], status}
           /\ ~IsTerminal(f[r]) => Put(f, r, status)[r] = status
  BY DEF Put

\* What one upsert may do to the registry, whether or not its write fails: other
\* runs in flight stay as they are, and absent records of other runs stay absent.
LEMMA UpsertOne ==
    ASSUME TypeOK, NEW r \in RunIds, NEW status \in RunState,
           NEW ok \in BOOLEAN, Publish(Put(runs, r, status), ok)
    PROVE  /\ RegistryTyped'
           /\ OthersKept({r})
           /\ ~ok => runs' = runs
           /\ ok /\ status \in InFlight /\ ~IsTerminal(runs[r]) => runs'[r] = status
  <1> DEFINE c == Put(runs, r, status)
  <1>1. runs \in [RunIds -> RunState] /\ history \in [RunIds -> RunState]
    BY DEF TypeOK
  <1>2. /\ c \in [RunIds -> RunState]
        /\ \A x \in RunIds : x # r => c[x] = runs[x]
        /\ ~IsTerminal(runs[r]) => c[r] = status
    BY <1>1, PutOne
  <1> HIDE DEF c
  <1>3. /\ Trim(c) \in [RunIds -> RunState]
        /\ \A x \in RunIds : ~IsTerminal(c[x]) => Trim(c)[x] = c[x]
        /\ \A x \in RunIds : Trim(c)[x] \in {c[x], "absent"}
    BY <1>2, TrimKeepsInFlight
  <1>4. Publish(c, ok)
    BY DEF c
  <1>5. CASE ok
    <2>1. runs' = Trim(c) /\ history' = Trim(c) /\ faults' = faults
      BY <1>4, <1>5 DEF Publish
    <2>2. faults' \in 0..MaxFaults
      BY <2>1 DEF TypeOK
    <2> QED
      BY <1>2, <1>3, <1>5, <2>1, <2>2 DEF RegistryTyped, OthersKept, InFlight,
             IsTerminal,
             Terminal
  <1>6. CASE ~ok
    <2>1. runs' = runs /\ history' = history /\ faults < MaxFaults /\ faults' = faults + 1
      BY <1>4, <1>6 DEF Publish
    <2>2. faults' \in 0..MaxFaults
      BY <2>1, RunServiceConstants DEF TypeOK
    <2> QED
      BY <1>1, <1>6, <2>1, <2>2 DEF RegistryTyped, OthersKept
  <1> QED
    BY <1>5, <1>6

\* The same for a queue replacement, which writes two records at once.
LEMMA UpsertTwo ==
    ASSUME TypeOK, NEW r \in RunIds, NEW p \in RunIds, r # p,
           NEW ok \in BOOLEAN,
           Publish(Put(Put(runs, r, "queued"), p, "superseded"), ok)
    PROVE  /\ RegistryTyped'
           /\ OthersKept({r, p})
           /\ ~ok => runs' = runs
           /\ ok /\ runs[r] = "absent" => runs'[r] = "queued"
  <1> DEFINE c1 == Put(runs, r, "queued")
             c2 == Put(c1, p, "superseded")
  <1>1. runs \in [RunIds -> RunState] /\ history \in [RunIds -> RunState]
    BY DEF TypeOK
  <1>2. /\ c1 \in [RunIds -> RunState]
        /\ \A x \in RunIds : x # r => c1[x] = runs[x]
        /\ runs[r] = "absent" => c1[r] = "queued"
    BY <1>1, PutOne DEF RunState, InFlight, Terminal, IsTerminal
  <1> HIDE DEF c1
  <1>3. /\ c2 \in [RunIds -> RunState]
        /\ \A x \in RunIds : x # p => c2[x] = c1[x]
    BY <1>2, PutOne DEF RunState, Terminal
  <1> HIDE DEF c2
  <1>4. /\ Trim(c2) \in [RunIds -> RunState]
        /\ \A x \in RunIds : ~IsTerminal(c2[x]) => Trim(c2)[x] = c2[x]
        /\ \A x \in RunIds : Trim(c2)[x] \in {c2[x], "absent"}
    BY <1>3, TrimKeepsInFlight
  <1>5. Publish(c2, ok)
    BY DEF c1, c2
  <1>6. CASE ok
    <2>1. runs' = Trim(c2) /\ history' = Trim(c2) /\ faults' = faults
      BY <1>5, <1>6 DEF Publish
    <2>2. faults' \in 0..MaxFaults
      BY <2>1 DEF TypeOK
    <2> QED
      BY <1>2, <1>3, <1>4, <1>6, <2>1, <2>2 DEF RegistryTyped, OthersKept,
             InFlight, IsTerminal,
             Terminal
  <1>7. CASE ~ok
    <2>1. runs' = runs /\ history' = history /\ faults < MaxFaults /\ faults' = faults + 1
      BY <1>5, <1>7 DEF Publish
    <2>2. faults' \in 0..MaxFaults
      BY <2>1, RunServiceConstants DEF TypeOK
    <2> QED
      BY <1>1, <1>7, <2>1, <2>2 DEF RegistryTyped, OthersKept
  <1> QED
    BY <1>6, <1>7

\* A step that leaves the registry alone.
LEMMA NoUpsert ==
    ASSUME TypeOK, UNCHANGED <<runs, history, faults>>
    PROVE  /\ RegistryTyped'
           /\ \A S : OthersKept(S)
  BY DEF TypeOK, RegistryTyped, OthersKept

-----------------------------------------------------------------------------
(***************************************************************************)
(* Type correctness                                                        *)
(***************************************************************************)

\* Members of the types that the steps below need.
LEMMA RunStateMembers ==
    /\ {"queued", "running", "succeeded", "failed", "canceled", "superseded",
        "reconciled", "absent"} \subseteq RunState
    /\ NoRun \notin RunIds
    /\ RunIds \subseteq Nat
  BY DEF RunState, InFlight, Terminal, NoRun, RunIds

\* StartAsyncRun and CancelRun keep the types.
LEMMA TypeRequest ==
    ASSUME TypeOK, Request
    PROVE  TypeOK'
  <1>1. ASSUME NEW intent \in Intents, Arrive(intent)
        PROVE  TypeOK'
    <2>1. seq + 1 \in RunIds /\ seq' \in 0..MaxRuns
      BY <1>1, RunServiceConstants DEF TypeOK, Arrive, RunIds
    <2>2. requests' \subseteq [id : RunIds, intent : Intents]
      BY <1>1, <2>1 DEF TypeOK, Arrive
    <2> QED
      BY <1>1, <2>1, <2>2 DEF TypeOK, Arrive, registry, slots, cancellation,
             shutdown, goroutines, asked
  <1>2. ASSUME NEW q \in requests, RejectStart(q)
        PROVE  TypeOK'
    BY <1>2 DEF TypeOK, RejectStart, registry, slots, cancellation, shutdown,
           goroutines, asked
  <1>3. ASSUME NEW q \in requests, NEW ok \in BOOLEAN, StartNow(q, ok)
        PROVE  TypeOK'
    <2>1. q.id \in RunIds
      BY DEF TypeOK
    <2>2. RegistryTyped'
      BY <1>3, <2>1, UpsertOne, RunStateMembers DEF StartNow
    <2> QED
      BY <1>3, <2>1, <2>2 DEF TypeOK, RegistryTyped, StartNow, PC, cancellation,
             shutdown, asked
  <1>4. ASSUME NEW q \in requests, NEW ok \in BOOLEAN, QueueFirst(q, ok)
        PROVE  TypeOK'
    <2>1. q.id \in RunIds
      BY DEF TypeOK
    <2>2. RegistryTyped'
      BY <1>4, <2>1, UpsertOne, RunStateMembers DEF QueueFirst
    <2> QED
      BY <1>4, <2>1, <2>2 DEF TypeOK, RegistryTyped, QueueFirst, cancellation,
             shutdown,
             goroutines, asked
  <1>5. ASSUME NEW q \in requests, NEW ok \in BOOLEAN, QueueSupersede(q, ok)
        PROVE  TypeOK'
    <2>1. q.id \in RunIds /\ pending \in RunIds /\ q.id # pending
      BY <1>5 DEF TypeOK, QueueSupersede
    <2>2. RegistryTyped'
      BY <1>5, <2>1, UpsertTwo DEF QueueSupersede
    <2> QED
      BY <1>5, <2>1, <2>2 DEF TypeOK, RegistryTyped, QueueSupersede, cancellation,
             shutdown,
             goroutines, asked
  <1>6. ASSUME NEW r \in RunIds, NEW ok \in BOOLEAN, CancelPending(r, ok)
        PROVE  TypeOK'
    <2>1. RegistryTyped'
      BY <1>6, UpsertOne, RunStateMembers DEF CancelPending
    <2> QED
      BY <1>6, <2>1 DEF TypeOK, RegistryTyped, CancelPending, shutdown, goroutines,
             arrivals
  <1>7. ASSUME NEW r \in RunIds, CancelActive(r)
        PROVE  TypeOK'
    BY <1>7 DEF TypeOK, CancelActive, registry, slots, shutdown, goroutines,
           arrivals
  <1> QED
    BY <1>1, <1>2, <1>3, <1>4, <1>5, <1>6, <1>7 DEF Request

\* Every step of a goroutine keeps the types.
LEMMA TypeRunStep ==
    ASSUME TypeOK, NEW r \in RunIds,
           RunStep(r) \/ \E ok \in BOOLEAN : Progress(r, ok)
    PROVE  TypeOK'
  <1>1. ASSUME Launch(r) PROVE TypeOK'
    BY <1>1 DEF TypeOK, Launch, Goto, PC, registry, slots, cancellation, shutdown,
           arrivals, asked
  <1>2. ASSUME NEW ok \in BOOLEAN, Refuse(r, ok) PROVE TypeOK'
    <2>1. RegistryTyped'
      BY <1>2, UpsertOne, NoUpsert, RunStateMembers DEF Refuse
    <2> QED
      BY <1>2, <2>1 DEF TypeOK, RegistryTyped, Refuse, Goto, PC, slots,
             cancellation, shutdown,
             arrivals, asked
  <1>3. ASSUME NEW ok \in BOOLEAN, Boot(r, ok) PROVE TypeOK'
    <2>1. RegistryTyped'
      BY <1>3, UpsertOne, RunStateMembers DEF Boot
    <2> QED
      BY <1>3, <2>1 DEF TypeOK, RegistryTyped, Boot, Goto, PC, slots, cancellation,
             shutdown,
             arrivals, asked
  <1>4. ASSUME NEW ok \in BOOLEAN, Succeed(r, ok) PROVE TypeOK'
    <2>1. RegistryTyped'
      BY <1>4, UpsertOne, RunStateMembers DEF Succeed
    <2> QED
      BY <1>4, <2>1 DEF TypeOK, RegistryTyped, Succeed, Goto, PC, slots,
             cancellation, shutdown,
             arrivals, asked
  <1>5. ASSUME NEW ok \in BOOLEAN, PartialFail(r, ok) PROVE TypeOK'
    <2>1. RegistryTyped'
      BY <1>5, UpsertOne, RunStateMembers DEF PartialFail
    <2> QED
      BY <1>5, <2>1 DEF TypeOK, RegistryTyped, PartialFail, Goto, PC, slots,
             cancellation,
             shutdown, arrivals, asked
  <1>6. ASSUME NEW label \in {"fail", "guard"}, ExecutionError(r, label)
        PROVE  TypeOK'
    BY <1>6 DEF TypeOK, ExecutionError, Goto, PC, registry, slots, cancellation,
           shutdown, arrivals, asked
  <1>7. ASSUME NEW code \in {"failed", "canceled"}, Classify(r, code)
        PROVE  TypeOK'
    BY <1>7 DEF TypeOK, Classify, registry, slots, cancellation, shutdown,
           arrivals, asked
  <1>8. ASSUME NEW ok \in BOOLEAN, StoreFailure(r, ok) PROVE TypeOK'
    <2>1. plan[r] \in RunState
      BY <1>8, RunStateMembers DEF TypeOK, StoreFailure
    <2>2. RegistryTyped'
      BY <1>8, <2>1, UpsertOne DEF StoreFailure, TypeOK, RegistryTyped
    <2>3. pc' \in [RunIds -> PC] /\ plan' \in [RunIds -> {"none", "failed",
    "canceled"}]
      BY <1>8 DEF TypeOK, StoreFailure, Goto, PC, AfterFailure
    <2> QED
      BY <1>8, <2>2, <2>3 DEF TypeOK, RegistryTyped, StoreFailure, slots,
             cancellation, shutdown,
             arrivals, asked
  <1>9. ASSUME Finish(r) PROVE TypeOK'
    <2>1. SlotAfter(r) \in RunIds \cup {NoRun}
      BY DEF SlotAfter, TypeOK
    <2> QED
      BY <1>9, <2>1 DEF TypeOK, Finish, Goto, PC, registry, shutdown, arrivals,
             asked
  <1>10. ASSUME NEW ok \in BOOLEAN, Progress(r, ok) PROVE TypeOK'
    <2>1. RegistryTyped'
      BY <1>10, UpsertOne, RunStateMembers DEF Progress
    <2> QED
      BY <1>10, <2>1 DEF TypeOK, RegistryTyped, Progress, Goto, PC, slots,
             cancellation, shutdown,
             arrivals, asked
  <1> QED
    BY <1>1, <1>2, <1>3, <1>4, <1>5, <1>6, <1>7, <1>8, <1>9, <1>10 DEF RunStep

\* Shutdown keeps the types, and waits only when it captured a run.
LEMMA TypeShutdown ==
    ASSUME TypeOK,
           \/ \E ok \in BOOLEAN : Shutdown(ok)
           \/ ShutdownDone
           \/ \E ok \in BOOLEAN : ShutdownTimeout(ok)
    PROVE  TypeOK'
  <1>1. ASSUME NEW ok \in BOOLEAN, Shutdown(ok) PROVE TypeOK'
    <2>1. RegistryTyped'
      <3>1. CASE pending # NoRun
        <4>1. pending \in RunIds
          BY <3>1 DEF TypeOK
        <4> QED
          BY <1>1, <3>1, <4>1, UpsertOne, RunStateMembers DEF Shutdown
      <3>2. CASE pending = NoRun
        BY <1>1, <3>2 DEF Shutdown, TypeOK, RegistryTyped
      <3> QED
        BY <3>1, <3>2
    <2>2. pending' \in RunIds \cup {NoRun}
      BY <1>1 DEF Shutdown, TypeOK
    <2>3. stopAsked' \subseteq RunIds /\ ctxDone' \subseteq RunIds
      BY <1>1 DEF Shutdown, TypeOK, InFlightRuns
    <2> QED
      BY <1>1, <2>1, <2>2, <2>3 DEF TypeOK, RegistryTyped, Shutdown, goroutines,
             arrivals
  <1>2. ASSUME ShutdownDone PROVE TypeOK'
    BY <1>2 DEF TypeOK, ShutdownDone, registry, slots, cancellation, goroutines,
           arrivals, asked
  <1>3. ASSUME NEW ok \in BOOLEAN, ShutdownTimeout(ok) PROVE TypeOK'
    <2>1. RegistryTyped'
      <3>1. shutRun \in RunIds
        BY <1>3 DEF ShutdownTimeout, TypeOK
      <3> QED
        BY <1>3, <3>1, UpsertOne, NoUpsert, RunStateMembers DEF ShutdownTimeout
    <2> QED
      BY <1>3, <2>1 DEF TypeOK, RegistryTyped, ShutdownTimeout, slots,
             cancellation, goroutines,
             arrivals, asked
  <1> QED
    BY <1>1, <1>2, <1>3

\* A restart keeps the types.
LEMMA TypeRestart ==
    ASSUME TypeOK, NEW c \in RunIds \cup {NoRun}, NEW ok \in BOOLEAN,
           Restart(c, ok)
    PROVE  TypeOK'
  <1>1. Reconciled(c) \in [RunIds -> RunState]
    BY RunStateMembers DEF Reconciled, TypeOK
  <1>2. Trim(Reconciled(c)) \in [RunIds -> RunState]
    BY <1>1, TrimKeepsInFlight
  <1>3. runs' \in [RunIds -> RunState] /\ history' \in [RunIds -> RunState]
    BY <1>1, <1>2 DEF Restart, TypeOK
  <1>4. faults' \in 0..MaxFaults /\ restarts' \in 0..MaxRestarts
    BY RunServiceConstants DEF Restart, TypeOK
  <1> QED
    BY <1>3, <1>4 DEF Restart, TypeOK, PC, asked

\* Every action keeps every variable within its type.
THEOREM TypeCorrect == Spec => []TypeOK
  <1>1. Init => TypeOK
    <2> SUFFICES ASSUME Init PROVE TypeOK
      OBVIOUS
    <2>1. /\ runs \in [RunIds -> RunState]
          /\ history \in [RunIds -> RunState]
      BY RunStateMembers DEF Init
    <2>2. /\ pc \in [RunIds -> PC]
          /\ plan \in [RunIds -> {"none", "failed", "canceled"}]
      BY DEF Init, PC
    <2>3. seq \in 0..MaxRuns /\ faults \in 0..MaxFaults /\ restarts \in 0..MaxRestarts
      BY RunServiceConstants DEF Init
    <2> QED
      BY <2>1, <2>2, <2>3 DEF Init, TypeOK
  <1>2. TypeOK /\ [Next]_vars => TypeOK'
    <2> SUFFICES ASSUME TypeOK, [Next]_vars
                 PROVE  TypeOK'
      OBVIOUS
    <2>1. CASE Next
      BY <2>1, TypeRequest, TypeRunStep, TypeShutdown, TypeRestart DEF Next
    <2>2. CASE UNCHANGED vars
      BY <2>2 DEF TypeOK, vars, registry, slots, cancellation, shutdown, goroutines,
             arrivals, asked
    <2> QED
      BY <2>1, <2>2
  <1> QED
    BY <1>1, <1>2, PTL DEF Spec

-----------------------------------------------------------------------------
(***************************************************************************)
(* One driving goroutine, one parked pending run                           *)
(***************************************************************************)

\* Admission and cancellation keep SlotInv: a start finds the slot free of any
\* driving run because DrivingOwnsSlot ties the slot to an in-flight record.
LEMMA SlotRequest ==
    ASSUME TypeOK, SlotInv, Request
    PROVE  SlotInv'
  <1> USE RunStateMembers
  <1>1. ASSUME NEW intent \in Intents, Arrive(intent)
        PROVE  SlotInv'
    <2>1. PendingIsParked' /\ DrivingOwnsSlot' /\ ShutdownTarget'
      BY <1>1 DEF SlotInv, PendingIsParked, DrivingOwnsSlot, ShutdownTarget, Arrive,
             registry, slots, shutdown, goroutines
    <2>2. IdsFresh'
      <3>1. /\ seq \in Nat /\ seq' = seq + 1
            /\ requests' = requests \cup {[id |-> seq + 1, intent |-> intent]}
            /\ UNCHANGED <<runs, history, shutRun, pc, active, pending>>
        BY <1>1 DEF TypeOK, Arrive, registry, slots, shutdown, goroutines
      <3>2. \A q \in requests : q.id \in Nat /\ q.id <= seq
        BY DEF TypeOK, SlotInv, IdsFresh
      <3>3. \A q \in requests' : q.id <= seq'
        BY <3>1, <3>2
      <3>4. \A q1, q2 \in requests' : q1.id = q2.id => q1 = q2
        BY <3>1, <3>2 DEF SlotInv, IdsFresh
      <3>5. \A r \in RunIds : (seq' < r \/ \E q \in requests' : q.id = r)
                               => seq < r \/ \E q \in requests : q.id = r
        BY <3>1, <3>2
      <3>6. \A r \in RunIds : seq' < r => seq < r
        BY <3>1
      <3> QED
        BY <3>1, <3>3, <3>4, <3>5, <3>6 DEF SlotInv, IdsFresh
    <2> QED
      BY <2>1, <2>2 DEF SlotInv
  <1>2. ASSUME NEW q \in requests, RejectStart(q)
        PROVE  SlotInv'
    BY <1>2 DEF SlotInv, PendingIsParked, DrivingOwnsSlot, IdsFresh,
           ShutdownTarget, RejectStart, registry, slots, shutdown, goroutines
  <1>3. ASSUME NEW q \in requests, NEW ok \in BOOLEAN, StartNow(q, ok)
        PROVE  SlotInv'
    <2>1. /\ q.id \in RunIds /\ ~closed /\ ~IsActiveRun /\ runs[q.id] = "absent"
          /\ pending # q.id /\ q.id <= seq
      BY <1>3 DEF TypeOK, SlotInv, IdsFresh, StartNow
    <2>2. \A r \in RunIds : pc[r] \notin Driving
      BY <2>1 DEF SlotInv, DrivingOwnsSlot, IsActiveRun
    <2>3. /\ OthersKept({q.id})
          /\ ~ok => runs' = runs
          /\ ok => runs'[q.id] = "queued"
      <3>1. Publish(Put(runs, q.id, "queued"), ok)
        BY <1>3 DEF StartNow
      <3>2. "queued" \in RunState /\ "queued" \in InFlight /\ ~IsTerminal(runs[q.id])
        BY <2>1 DEF InFlight, IsTerminal, Terminal
      <3> QED
        BY <2>1, <3>1, <3>2, UpsertOne
    <2>4. PendingIsParked'
      BY <1>3, <2>1, <2>3 DEF OthersKept, TypeOK, SlotInv, PendingIsParked,
             StartNow, InFlight
    <2>5. DrivingOwnsSlot'
      BY <1>3, <2>1, <2>2, <2>3 DEF OthersKept, TypeOK, DrivingOwnsSlot, StartNow,
             InFlight, Driving
    <2>6. IdsFresh'
      BY <1>3, <2>1, <2>3 DEF OthersKept, TypeOK, SlotInv, IdsFresh, StartNow,
             shutdown
    <2>7. ShutdownTarget'
      BY <1>3 DEF SlotInv, ShutdownTarget, StartNow, shutdown
    <2> QED
      BY <2>4, <2>5, <2>6, <2>7 DEF SlotInv
  <1>4. ASSUME NEW q \in requests, NEW ok \in BOOLEAN, QueueFirst(q, ok)
        PROVE  SlotInv'
    <2>1. /\ q.id \in RunIds /\ ~closed /\ runs[q.id] = "absent" /\ pending = NoRun
          /\ active # q.id /\ pc[q.id] = "none" /\ q.id <= seq
      BY <1>4 DEF TypeOK, SlotInv, IdsFresh, QueueFirst
    <2>2. /\ OthersKept({q.id})
          /\ ~ok => runs' = runs
          /\ ok => runs'[q.id] = "queued"
      <3>1. Publish(Put(runs, q.id, "queued"), ok)
        BY <1>4 DEF QueueFirst
      <3>2. "queued" \in RunState /\ "queued" \in InFlight /\ ~IsTerminal(runs[q.id])
        BY <2>1 DEF InFlight, IsTerminal, Terminal
      <3> QED
        BY <2>1, <3>1, <3>2, UpsertOne
    <2>3. PendingIsParked'
      BY <1>4, <2>1, <2>2 DEF OthersKept, PendingIsParked, QueueFirst, goroutines
    <2>4. DrivingOwnsSlot'
      BY <1>4, <2>1, <2>2 DEF OthersKept, SlotInv, DrivingOwnsSlot, QueueFirst,
             goroutines,
             shutdown, InFlight, Driving
    <2>5. IdsFresh'
      BY <1>4, <2>1, <2>2 DEF OthersKept, TypeOK, SlotInv, IdsFresh, QueueFirst,
             shutdown,
             goroutines
    <2>6. ShutdownTarget'
      BY <1>4, <2>1 DEF SlotInv, ShutdownTarget, QueueFirst, shutdown
    <2> QED
      BY <2>3, <2>4, <2>5, <2>6 DEF SlotInv
  <1>5. ASSUME NEW q \in requests, NEW ok \in BOOLEAN, QueueSupersede(q, ok)
        PROVE  SlotInv'
    <2>1. /\ q.id \in RunIds /\ pending \in RunIds /\ q.id # pending
          /\ ~closed /\ runs[q.id] = "absent" /\ active # q.id
          /\ pc[q.id] = "none" /\ pc[pending] = "none" /\ q.id <= seq
          /\ ~ (seq < pending)
      BY <1>5 DEF TypeOK, SlotInv, IdsFresh, PendingIsParked, QueueSupersede
    <2>2. /\ OthersKept({q.id, pending})
          /\ ~ok => runs' = runs
          /\ ok => runs'[q.id] = "queued"
      <3>1. Publish(Put(Put(runs, q.id, "queued"), pending, "superseded"), ok)
        BY <1>5 DEF QueueSupersede
      <3> QED
        BY <2>1, <3>1, UpsertTwo
    <2>3. PendingIsParked'
      BY <1>5, <2>1, <2>2 DEF OthersKept, SlotInv, PendingIsParked, QueueSupersede,
             goroutines
    <2>4. DrivingOwnsSlot'
      BY <1>5, <2>1, <2>2 DEF OthersKept, SlotInv, DrivingOwnsSlot, QueueSupersede,
             goroutines,
             shutdown, InFlight, Driving
    <2>5. IdsFresh'
      BY <1>5, <2>1, <2>2 DEF OthersKept, TypeOK, SlotInv, IdsFresh,
             QueueSupersede, shutdown,
             goroutines
    <2>6. ShutdownTarget'
      BY <1>5, <2>1 DEF SlotInv, ShutdownTarget, QueueSupersede, shutdown
    <2> QED
      BY <2>3, <2>4, <2>5, <2>6 DEF SlotInv
  <1>6. ASSUME NEW r \in RunIds, NEW ok \in BOOLEAN, CancelPending(r, ok)
        PROVE  SlotInv'
    <2>1. pending = r /\ pc[r] = "none" /\ ~(seq < r)
      BY <1>6 DEF SlotInv, PendingIsParked, IdsFresh, CancelPending
    <2>2. /\ OthersKept({r})
          /\ ~ok => runs' = runs
      BY <1>6, UpsertOne DEF CancelPending
    <2>3. PendingIsParked'
      BY <1>6, <2>2 DEF OthersKept, SlotInv, PendingIsParked, CancelPending,
             goroutines
    <2>4. DrivingOwnsSlot'
      BY <1>6, <2>1, <2>2 DEF OthersKept, SlotInv, DrivingOwnsSlot, CancelPending,
             goroutines,
             shutdown, InFlight, Driving
    <2>5. IdsFresh'
      BY <1>6, <2>1, <2>2 DEF OthersKept, SlotInv, IdsFresh, CancelPending,
             shutdown, goroutines,
             arrivals
    <2>6. ShutdownTarget'
      BY <1>6 DEF TypeOK, SlotInv, ShutdownTarget, CancelPending, shutdown
    <2> QED
      BY <2>3, <2>4, <2>5, <2>6 DEF SlotInv
  <1>7. ASSUME NEW r \in RunIds, CancelActive(r)
        PROVE  SlotInv'
    BY <1>7 DEF SlotInv, PendingIsParked, DrivingOwnsSlot, IdsFresh,
           ShutdownTarget, CancelActive, registry, slots, shutdown, goroutines,
           arrivals
  <1> QED
    BY <1>1, <1>2, <1>3, <1>4, <1>5, <1>6, <1>7 DEF Request

\* Storing a running record keeps the run in flight unless a shutdown has already
\* terminalized it.
LEMMA RunningStaysInFlight ==
    ASSUME TypeOK, NEW r \in RunIds, NEW ok \in BOOLEAN,
           Publish(Put(runs, r, "running"), ok),
           runs[r] \in InFlight \/ closed
    PROVE  /\ OthersKept({r})
           /\ runs'[r] \in InFlight \/ closed
  <1>1. "running" \in RunState /\ "running" \in InFlight
    BY RunStateMembers DEF InFlight
  <1>2. /\ OthersKept({r})
        /\ ~ok => runs' = runs
        /\ ok /\ "running" \in InFlight /\ ~IsTerminal(runs[r]) => runs'[r] = "running"
    BY <1>1, UpsertOne
  <1>3. runs[r] \in InFlight => ~IsTerminal(runs[r])
    BY DEF InFlight, IsTerminal, Terminal
  <1> QED
    BY <1>1, <1>2, <1>3

\* A registry write for a run that does not wait in the pending slot and is
\* neither unused nor driving afterwards keeps SlotInv, when the slots, the
\* arrivals and the shutdown stay as they are.
LEMMA SlotWrite ==
    ASSUME TypeOK, SlotInv, NEW r \in RunIds, OthersKept({r}),
           pc[r] # "none",
           NEW label \in PC \ {"none"}, Goto(r, label),
           label \in Driving =>
               pc[r] \in Driving /\ (runs'[r] \in InFlight \/ closed),
           UNCHANGED <<active, pending, closed, shut, shutRun, requests, seq>>
    PROVE  SlotInv'
  <1> USE RunStateMembers
  <1>1. /\ pc \in [RunIds -> PC] /\ pc' = [pc EXCEPT ![r] = label]
        /\ pending \in RunIds \cup {NoRun}
    BY DEF TypeOK, Goto
  <1>2. pending # r /\ ~(seq < r) /\ ~\E q \in requests : q.id = r
    BY DEF SlotInv, PendingIsParked, IdsFresh
  <1>3. PendingIsParked'
    BY <1>1, <1>2 DEF SlotInv, PendingIsParked, OthersKept, InFlight
  <1>4. DrivingOwnsSlot'
    BY <1>1, <1>2 DEF SlotInv, DrivingOwnsSlot, OthersKept, InFlight
  <1>5. IdsFresh'
    BY <1>1, <1>2 DEF SlotInv, IdsFresh, OthersKept
  <1>6. ShutdownTarget'
    BY DEF SlotInv, ShutdownTarget
  <1> QED
    BY <1>3, <1>4, <1>5, <1>6 DEF SlotInv

\* The steps of a run's goroutine keep SlotInv: only Finish moves the slot, and
\* by then the run that gives it up no longer drives.
LEMMA SlotRunStep ==
    ASSUME TypeOK, SlotInv, NEW r \in RunIds,
           RunStep(r) \/ \E ok \in BOOLEAN : Progress(r, ok)
    PROVE  SlotInv'
  <1> USE RunStateMembers
  <1>0. pc[r] \in Driving => runs[r] \in InFlight \/ closed
    BY DEF SlotInv, DrivingOwnsSlot
  <1>1. ASSUME Launch(r) PROVE SlotInv'
    <2>1. OthersKept({r})
      BY <1>1, NoUpsert DEF Launch, registry
    <2>2. runs' = runs /\ pc[r] = "launch" /\ pc[r] \in Driving
      BY <1>1 DEF Launch, registry, Driving
    <2>3. \E label \in {"refused", "boot"} : Goto(r, label)
      BY <1>1 DEF Launch
    <2>4. "refused" \in PC \ {"none"} /\ "boot" \in PC \ {"none"}
      BY DEF PC
    <2> QED
      BY <1>0, <1>1, <2>1, <2>2, <2>3, <2>4, SlotWrite DEF Launch, slots, shutdown,
             arrivals
  <1>2. ASSUME NEW ok \in BOOLEAN, Refuse(r, ok) PROVE SlotInv'
    <2>1. OthersKept({r})
      BY <1>2, UpsertOne, NoUpsert DEF Refuse
    <2>2. "finish" \in PC \ {"none"} /\ "finish" \notin Driving
      BY DEF PC, Driving
    <2> QED
      BY <1>2, <2>1, <2>2, SlotWrite DEF Refuse, slots, shutdown, arrivals
  <1>3. ASSUME NEW ok \in BOOLEAN, Boot(r, ok) PROVE SlotInv'
    <2>1. /\ OthersKept({r}) /\ pc[r] \in Driving /\ pc[r] # "none"
          /\ ok => runs'[r] \in InFlight \/ closed
      BY <1>0, <1>3, RunningStaysInFlight DEF Boot, Driving
    <2>2. /\ "exec" \in PC \ {"none"}
          /\ "outer" \in PC \ {"none"} /\ "outer" \notin Driving
      BY DEF PC, Driving
    <2>3. (ok /\ Goto(r, "exec")) \/ (~ok /\ Goto(r, "outer"))
      BY <1>3 DEF Boot
    <2> QED
      BY <1>3, <2>1, <2>2, <2>3, SlotWrite DEF Boot, slots, shutdown, arrivals
  <1>4. ASSUME NEW ok \in BOOLEAN, Succeed(r, ok) \/ PartialFail(r, ok)
        PROVE  SlotInv'
    <2>1. OthersKept({r}) /\ pc[r] # "none"
      BY <1>4, UpsertOne DEF Succeed, PartialFail
    <2>2. /\ {"finish", "guard"} \subseteq PC \ {"none"}
          /\ "finish" \notin Driving /\ "guard" \notin Driving
      BY DEF PC, Driving
    <2>3. \E label \in {"finish", "guard"} : Goto(r, label)
      BY <1>4 DEF Succeed, PartialFail
    <2> QED
      BY <1>4, <2>1, <2>2, <2>3, SlotWrite DEF Succeed, PartialFail, slots, shutdown,
             arrivals
  <1>5. ASSUME NEW label \in {"fail", "guard"}, ExecutionError(r, label)
        PROVE  SlotInv'
    <2>1. OthersKept({r}) /\ runs' = runs
      BY <1>5, NoUpsert DEF ExecutionError, registry
    <2>2. pc[r] \in Driving /\ pc[r] # "none" /\ label \in PC \ {"none"}
      BY <1>5 DEF ExecutionError, Driving, PC
    <2> QED
      BY <1>0, <1>5, <2>1, <2>2, SlotWrite DEF ExecutionError, slots, shutdown,
             arrivals
  <1>6. ASSUME NEW code \in {"failed", "canceled"}, Classify(r, code)
        PROVE  SlotInv'
    BY <1>6 DEF SlotInv, PendingIsParked, DrivingOwnsSlot, IdsFresh, ShutdownTarget,
           Classify, registry, slots, shutdown, arrivals
  <1>7. ASSUME NEW ok \in BOOLEAN, StoreFailure(r, ok) PROVE SlotInv'
    <2>1. plan[r] \in RunState /\ pc[r] # "none"
      BY <1>7 DEF TypeOK, StoreFailure
    <2>2. OthersKept({r})
      BY <1>7, <2>1, UpsertOne, NoUpsert DEF StoreFailure
    <2>3. /\ AfterFailure[pc[r]] \in PC \ {"none"}
          /\ AfterFailure[pc[r]] \notin Driving
      BY <1>7 DEF StoreFailure, AfterFailure, PC, Driving
    <2> QED
      BY <1>7, <2>1, <2>2, <2>3, SlotWrite DEF StoreFailure, slots, shutdown, arrivals
  <1>8. ASSUME Finish(r) PROVE SlotInv'
    <2>1. /\ pc[r] = "finish" /\ pending # r /\ ~(seq < r)
          /\ ~\E q \in requests : q.id = r
      BY <1>8 DEF Finish, SlotInv, PendingIsParked, IdsFresh
    <2>2. /\ UNCHANGED <<runs, history, closed, shut, shutRun, requests, seq>>
          /\ pc \in [RunIds -> PC]
          /\ pending \in RunIds \cup {NoRun}
      BY <1>8 DEF Finish, TypeOK, registry, shutdown, arrivals
    <2>3. CASE ~closed /\ SlotAfter(r) = NoRun /\ pending # NoRun
      <3>1. /\ active' = pending /\ pending' = NoRun /\ pending \in RunIds
            /\ pc' = [pc EXCEPT ![r] = "done", ![pending] = "launch"]
        BY <1>8, <2>2, <2>3 DEF Finish
      <3>2. \A x \in RunIds : pc[x] \notin Driving
        BY <2>1, <2>3 DEF SlotInv, DrivingOwnsSlot, SlotAfter, Driving
      <3>3. runs[pending] = "queued" /\ ~(seq < pending)
            /\ ~\E q \in requests : q.id = pending
        BY <2>3, <3>1 DEF SlotInv, PendingIsParked, IdsFresh
      <3>4. DrivingOwnsSlot'
        BY <2>1, <2>2, <3>1, <3>2, <3>3 DEF DrivingOwnsSlot, InFlight, Driving
      <3>5. IdsFresh'
        BY <2>1, <2>2, <3>1, <3>3 DEF SlotInv, IdsFresh
      <3>6. PendingIsParked' /\ ShutdownTarget'
        BY <2>2, <2>3, <3>1 DEF SlotInv, PendingIsParked, ShutdownTarget
      <3> QED
        BY <3>4, <3>5, <3>6 DEF SlotInv
    <2>4. CASE closed \/ SlotAfter(r) # NoRun \/ pending = NoRun
      <3>1. /\ active' = SlotAfter(r) /\ pending' = pending
            /\ pc' = [pc EXCEPT ![r] = "done"]
        BY <1>8, <2>4 DEF Finish, Goto
      <3>2. SlotAfter(r) \in {active, NoRun} /\ (active # r => SlotAfter(r) = active)
        BY DEF SlotAfter
      <3>3. PendingIsParked'
        BY <2>1, <2>2, <3>1, <3>2 DEF SlotInv, PendingIsParked
      <3>4. DrivingOwnsSlot'
        BY <2>1, <2>2, <3>1, <3>2 DEF SlotInv, DrivingOwnsSlot, Driving
      <3>5. IdsFresh'
        BY <2>1, <2>2, <3>1, <3>2 DEF SlotInv, IdsFresh
      <3>6. ShutdownTarget'
        BY <2>2, <3>1 DEF SlotInv, ShutdownTarget
      <3> QED
        BY <3>3, <3>4, <3>5, <3>6 DEF SlotInv
    <2> QED
      BY <1>8, <2>3, <2>4
  <1>9. ASSUME NEW ok \in BOOLEAN, Progress(r, ok) PROVE SlotInv'
    <2>1. /\ OthersKept({r}) /\ pc[r] \in Driving /\ pc[r] # "none"
          /\ runs'[r] \in InFlight \/ closed
      BY <1>0, <1>9, RunningStaysInFlight DEF Progress, Driving
    <2>2. pc[r] \in PC \ {"none"} /\ "doomed" \in PC \ {"none"}
      BY <1>9 DEF Progress, PC
    <2>3. Goto(r, pc[r]) \/ Goto(r, "doomed")
      BY <1>9 DEF Progress
    <2> QED
      BY <1>9, <2>1, <2>2, <2>3, SlotWrite DEF Progress, slots, shutdown, arrivals
  <1> QED
    BY <1>1, <1>2, <1>3, <1>4, <1>5, <1>6, <1>7, <1>8, <1>9 DEF RunStep

\* Shutdown and its deadline keep SlotInv: they terminalize the pending run, which
\* drives nothing, and the captured active run of a service that is closed.
LEMMA SlotShutdown ==
    ASSUME TypeOK, SlotInv,
           \/ \E ok \in BOOLEAN : Shutdown(ok)
           \/ ShutdownDone
           \/ \E ok \in BOOLEAN : ShutdownTimeout(ok)
    PROVE  SlotInv'
  <1> USE RunStateMembers
  <1>1. ASSUME NEW ok \in BOOLEAN, Shutdown(ok) PROVE SlotInv'
    <2>1. /\ OthersKept({pending})
          /\ pending' \in {pending, NoRun}
          /\ pending' # NoRun => runs' = runs
      <3>1. CASE pending # NoRun
        <4>1. pending \in RunIds
          BY <3>1 DEF TypeOK
        <4> QED
          BY <1>1, <3>1, <4>1, UpsertOne DEF Shutdown
      <3>2. CASE pending = NoRun
        BY <1>1, <3>2, NoUpsert DEF Shutdown
      <3> QED
        BY <3>1, <3>2
    <2>2. /\ closed' = TRUE /\ shutRun' = active /\ pc' = pc /\ active' = active
          /\ requests' = requests /\ seq' = seq
          /\ shut' \in {"waiting", "waitingErr"} => active # NoRun
      BY <1>1 DEF Shutdown, goroutines, arrivals
    <2>3. PendingIsParked'
      BY <2>1, <2>2 DEF SlotInv, PendingIsParked
    <2>4. DrivingOwnsSlot'
      BY <2>2 DEF SlotInv, DrivingOwnsSlot
    <2>5. IdsFresh'
      BY <2>1, <2>2 DEF SlotInv, IdsFresh, OthersKept
    <2>6. ShutdownTarget'
      BY <2>1, <2>2 DEF SlotInv, PendingIsParked, ShutdownTarget
    <2> QED
      BY <2>3, <2>4, <2>5, <2>6 DEF SlotInv
  <1>2. ASSUME ShutdownDone PROVE SlotInv'
    BY <1>2 DEF SlotInv, PendingIsParked, DrivingOwnsSlot, IdsFresh, ShutdownTarget,
           ShutdownDone, registry, slots, goroutines, arrivals
  <1>3. ASSUME NEW ok \in BOOLEAN, ShutdownTimeout(ok) PROVE SlotInv'
    <2>1. shutRun \in RunIds /\ closed /\ shutRun # pending
      BY <1>3 DEF TypeOK, SlotInv, ShutdownTarget, ShutdownTimeout
    <2>2. OthersKept({shutRun})
      BY <1>3, <2>1, UpsertOne, NoUpsert DEF ShutdownTimeout
    <2>3. /\ UNCHANGED <<active, pending, closed, shutRun, pc, requests, seq>>
          /\ shut' = "error"
      BY <1>3 DEF ShutdownTimeout, slots, goroutines, arrivals
    <2>4. PendingIsParked'
      BY <2>1, <2>2, <2>3 DEF TypeOK, SlotInv, PendingIsParked, OthersKept, InFlight
    <2>5. DrivingOwnsSlot'
      BY <2>1, <2>3 DEF SlotInv, DrivingOwnsSlot
    <2>6. IdsFresh'
      BY <2>1, <2>2, <2>3 DEF SlotInv, IdsFresh, OthersKept
    <2>7. ShutdownTarget'
      BY <2>3 DEF ShutdownTarget
    <2> QED
      BY <2>4, <2>5, <2>6, <2>7 DEF SlotInv
  <1> QED
    BY <1>1, <1>2, <1>3

\* A restart leaves at most the resumed run in the slot, launched and in flight.
LEMMA SlotRestart ==
    ASSUME TypeOK, SlotInv, NEW c \in RunIds \cup {NoRun}, NEW ok \in BOOLEAN,
           Restart(c, ok)
    PROVE  SlotInv'
  <1> USE RunStateMembers
  <1>1. /\ active' = c /\ pending' = NoRun /\ closed' = FALSE /\ shut' = "open"
        /\ shutRun' = NoRun /\ requests' = {} /\ seq' = seq
        /\ pc' = [r \in RunIds |-> IF r = c THEN "launch" ELSE "none"]
    BY DEF Restart
  <1>2. c \in RunIds => history[c] = "running"
    BY DEF Restart, ResumeChoices
  <1>3. /\ Reconciled(c) \in [RunIds -> RunState]
        /\ c \in RunIds => Reconciled(c)[c] = "running"
        /\ \A r \in RunIds : history[r] = "absent" => Reconciled(c)[r] = "absent"
    BY <1>2 DEF TypeOK, Reconciled, InFlight
  <1>4. \A r \in RunIds : history[r] = "absent" => Trim(Reconciled(c))[r] = "absent"
    BY <1>3, TrimKeepsInFlight
  <1>5. /\ c \in RunIds => runs'[c] = "running"
        /\ \A r \in RunIds : history[r] = "absent"
                             => runs'[r] = "absent" /\ history'[r] = "absent"
    BY <1>2, <1>3, <1>4 DEF Restart
  <1>6. DrivingOwnsSlot'
    BY <1>1, <1>5 DEF DrivingOwnsSlot, Driving, InFlight
  <1>7. IdsFresh'
    <2>1. \A r \in RunIds : seq < r => history[r] = "absent" /\ c # r
      BY <1>2 DEF SlotInv, IdsFresh
    <2> QED
      BY <1>1, <1>5, <2>1 DEF IdsFresh
  <1>8. PendingIsParked' /\ ShutdownTarget'
    BY <1>1 DEF PendingIsParked, ShutdownTarget
  <1> QED
    BY <1>6, <1>7, <1>8 DEF SlotInv

\* Whatever the number of requests, of failed history writes, of restarts and the
\* retention: never two goroutines drive a pipeline at once, and the pending run
\* is always a queued record that nothing executes.  This holds although a run may
\* be admitted before the previous goroutine has called finishAsyncRun, although a
\* shutdown deadline terminalizes a run under its goroutine, and although retention
\* may evict the record of the active run.
THEOREM SlotSafety == Spec => [](SlotInv /\ AtMostOneDriving)
  <1>1. Init => SlotInv
    <2> SUFFICES ASSUME Init PROVE SlotInv
      OBVIOUS
    <2>1. PendingIsParked /\ ShutdownTarget
      BY DEF Init, PendingIsParked, ShutdownTarget
    <2>2. DrivingOwnsSlot
      BY DEF Init, DrivingOwnsSlot, Driving
    <2>3. IdsFresh
      BY RunStateMembers DEF Init, IdsFresh
    <2> QED
      BY <2>1, <2>2, <2>3 DEF SlotInv
  <1>2. TypeOK /\ SlotInv /\ [Next]_vars => SlotInv'
    <2> SUFFICES ASSUME TypeOK, SlotInv, [Next]_vars
                 PROVE  SlotInv'
      OBVIOUS
    <2>1. CASE Next
      BY <2>1, SlotRequest, SlotRunStep, SlotShutdown, SlotRestart DEF Next
    <2>2. CASE UNCHANGED vars
      BY <2>2 DEF SlotInv, PendingIsParked, DrivingOwnsSlot, IdsFresh, ShutdownTarget,
             vars, registry, slots, shutdown, goroutines, arrivals
    <2> QED
      BY <2>1, <2>2
  <1>3. SlotInv => AtMostOneDriving
    BY DEF SlotInv, DrivingOwnsSlot, AtMostOneDriving
  <1> QED
    BY <1>1, <1>2, <1>3, TypeCorrect, PTL DEF Spec

-----------------------------------------------------------------------------
(***************************************************************************)
(* Durability, and the finality of terminal records                        *)
(***************************************************************************)

\* What a critical section does to the registry and its file: nothing, or it
\* replaces both by the same trimmed registry, in which no terminal record has
\* gone back to a run in flight.
RegistryWrite ==
    \/ runs' = runs /\ history' = history
    \/ \E f \in [RunIds -> RunState] :
          /\ \A r \in RunIds : IsTerminal(runs[r]) => IsTerminal(f[r])
          /\ runs' = Trim(f)
          /\ history' = Trim(f)

\* Publishing a registry whose terminal records stayed terminal.
LEMMA PublishWrites ==
    ASSUME NEW f \in [RunIds -> RunState], NEW ok \in BOOLEAN, Publish(f, ok),
           \A r \in RunIds : IsTerminal(runs[r]) => IsTerminal(f[r])
    PROVE  RegistryWrite
  BY DEF Publish, RegistryWrite

\* upsertRunsLocked with one record.
LEMMA WriteOne ==
    ASSUME TypeOK, NEW r \in RunIds, NEW status \in RunState, NEW ok \in BOOLEAN,
           Publish(Put(runs, r, status), ok)
    PROVE  RegistryWrite
  <1>1. runs \in [RunIds -> RunState]
    BY DEF TypeOK
  <1>2. Put(runs, r, status) \in [RunIds -> RunState]
    BY <1>1, PutOne
  <1>3. \A x \in RunIds : IsTerminal(runs[x]) => IsTerminal(Put(runs, r, status)[x])
    BY <1>1 DEF Put
  <1> QED
    BY <1>2, <1>3, PublishWrites

\* upsertRunsLocked with the two records of a queue replacement.
LEMMA WriteTwo ==
    ASSUME TypeOK, NEW r \in RunIds, NEW p \in RunIds, NEW ok \in BOOLEAN,
           Publish(Put(Put(runs, r, "queued"), p, "superseded"), ok)
    PROVE  RegistryWrite
  <1> DEFINE c == Put(runs, r, "queued")
  <1>1. runs \in [RunIds -> RunState]
    BY DEF TypeOK
  <1>2. c \in [RunIds -> RunState]
    BY <1>1, PutOne, RunStateMembers
  <1>3. \A x \in RunIds : IsTerminal(runs[x]) => IsTerminal(c[x])
    BY <1>1 DEF Put
  <1>4. Publish(Put(c, p, "superseded"), ok)
    OBVIOUS
  <1> HIDE DEF c
  <1>5. Put(c, p, "superseded") \in [RunIds -> RunState]
    BY <1>2, PutOne, RunStateMembers
  <1>6. \A x \in RunIds : IsTerminal(c[x]) => IsTerminal(Put(c, p, "superseded")[x])
    BY <1>2 DEF Put
  <1> QED
    BY <1>3, <1>4, <1>5, <1>6, PublishWrites

\* Every step other than a restart writes the registry as RegistryWrite says.
LEMMA StepsWriteRegistry ==
    ASSUME TypeOK, Next
    PROVE  RegistryWrite \/ \E c \in RunIds \cup {NoRun}, ok \in BOOLEAN : Restart(c, ok)
  <1> USE RunStateMembers
  <1>1. ASSUME Request PROVE RegistryWrite
    <2>1. ASSUME NEW q \in requests, NEW ok \in BOOLEAN,
                 \/ StartNow(q, ok) \/ QueueFirst(q, ok) \/ QueueSupersede(q, ok)
          PROVE  RegistryWrite
      <3>1. q.id \in RunIds
        BY DEF TypeOK
      <3>2. CASE QueueSupersede(q, ok)
        <4>1. pending \in RunIds
          BY <3>2 DEF QueueSupersede, TypeOK
        <4> QED
          BY <3>1, <3>2, <4>1, WriteTwo DEF QueueSupersede
      <3>3. CASE StartNow(q, ok) \/ QueueFirst(q, ok)
        BY <3>1, <3>3, WriteOne DEF StartNow, QueueFirst
      <3> QED
        BY <2>1, <3>2, <3>3
    <2>2. ASSUME NEW r \in RunIds, NEW ok \in BOOLEAN, CancelPending(r, ok)
          PROVE  RegistryWrite
      BY <2>2, WriteOne DEF CancelPending
    <2> QED
      BY <1>1, <2>1, <2>2 DEF Request, Arrive, RejectStart, CancelActive, registry,
             RegistryWrite
  <1>2. ASSUME NEW r \in RunIds, NEW ok \in BOOLEAN,
               \/ Refuse(r, ok) \/ Boot(r, ok) \/ Succeed(r, ok)
               \/ PartialFail(r, ok) \/ Progress(r, ok)
        PROVE  RegistryWrite
    <2>1. CASE Refuse(r, ok)
      <3>1. CASE runs[r] \in InFlight
        BY <2>1, <3>1, WriteOne DEF Refuse
      <3>2. CASE runs[r] \notin InFlight
        BY <2>1, <3>2 DEF Refuse, RegistryWrite
      <3> QED
        BY <3>1, <3>2
    <2>2. CASE Boot(r, ok) \/ Succeed(r, ok) \/ PartialFail(r, ok) \/ Progress(r, ok)
      BY <2>2, WriteOne DEF Boot, Succeed, PartialFail, Progress
    <2> QED
      BY <1>2, <2>1, <2>2
  <1>3. ASSUME NEW r \in RunIds, NEW ok \in BOOLEAN, StoreFailure(r, ok)
        PROVE  RegistryWrite
    <2>1. plan[r] \in RunState
      BY <1>3 DEF TypeOK, StoreFailure
    <2>2. Publish(Put(runs, r, plan[r]), ok) \/ UNCHANGED <<runs, history>>
      BY <1>3 DEF StoreFailure
    <2>3. CASE Publish(Put(runs, r, plan[r]), ok)
      BY <2>1, <2>3, WriteOne
    <2>4. CASE UNCHANGED <<runs, history>>
      BY <2>4 DEF RegistryWrite
    <2> QED
      BY <2>2, <2>3, <2>4
  <1>4. ASSUME NEW r \in RunIds, RunStep(r) PROVE RegistryWrite
    BY <1>2, <1>3, <1>4 DEF RunStep, Launch, ExecutionError, Classify, Finish, registry,
           RegistryWrite
  <1>5. ASSUME NEW ok \in BOOLEAN, Shutdown(ok) PROVE RegistryWrite
    <2>1. CASE pending # NoRun
      <3>1. pending \in RunIds
        BY <2>1 DEF TypeOK
      <3> QED
        BY <1>5, <2>1, <3>1, WriteOne DEF Shutdown
    <2>2. CASE pending = NoRun
      BY <1>5, <2>2 DEF Shutdown, RegistryWrite
    <2> QED
      BY <2>1, <2>2
  <1>6. ASSUME NEW ok \in BOOLEAN, ShutdownTimeout(ok) PROVE RegistryWrite
    <2>1. shutRun \in RunIds
      BY <1>6 DEF TypeOK, ShutdownTimeout
    <2>2. Publish(Put(runs, shutRun, "canceled"), ok) \/ UNCHANGED <<runs, history>>
      BY <1>6 DEF ShutdownTimeout
    <2>3. CASE Publish(Put(runs, shutRun, "canceled"), ok)
      BY <2>1, <2>3, WriteOne
    <2>4. CASE UNCHANGED <<runs, history>>
      BY <2>4 DEF RegistryWrite
    <2> QED
      BY <2>2, <2>3, <2>4
  <1>7. ShutdownDone => RegistryWrite
    BY DEF ShutdownDone, registry, RegistryWrite
  <1> QED
    BY <1>1, <1>2, <1>4, <1>5, <1>6, <1>7 DEF Next

\* What the API shows of a run in flight is what a restart would read, and nothing
\* on disk is hidden from the API, also after failed writes and restarts
\* (upsertRunsLocked publishes only what it has written).
THEOREM Durability == Spec => []PublishedIsDurable
  <1>1. Init => PublishedIsDurable
    BY DEF Init, PublishedIsDurable
  <1>2. TypeOK /\ PublishedIsDurable /\ [Next]_vars => PublishedIsDurable'
    <2> SUFFICES ASSUME TypeOK, PublishedIsDurable, [Next]_vars
                 PROVE  PublishedIsDurable'
      OBVIOUS
    <2>1. CASE RegistryWrite
      BY <2>1 DEF RegistryWrite, PublishedIsDurable
    <2>2. ASSUME NEW c \in RunIds \cup {NoRun}, NEW ok \in BOOLEAN, Restart(c, ok)
          PROVE  PublishedIsDurable'
      <3>1. Reconciled(c) \in [RunIds -> RunState]
        BY RunStateMembers DEF Reconciled, TypeOK
      <3>2. \A r \in RunIds :
               /\ Reconciled(c)[r] \in InFlight => Trim(Reconciled(c))[r] = Reconciled(c)[r]
               /\ Trim(Reconciled(c))[r] \in {Reconciled(c)[r], "absent"}
        BY <3>1, TrimKeepsInFlight DEF InFlight, IsTerminal, Terminal
      <3>3. \/ runs' = history'
            \/ runs' = Reconciled(c) /\ history' = Trim(Reconciled(c))
        BY <2>2 DEF Restart
      <3> QED
        BY <3>2, <3>3 DEF PublishedIsDurable
    <2>3. CASE UNCHANGED vars
      BY <2>3 DEF vars, registry, PublishedIsDurable
    <2> QED
      BY <2>1, <2>2, <2>3, StepsWriteRegistry
  <1> QED
    BY <1>1, <1>2, TypeCorrect, PTL DEF Spec

\* A terminal record never goes back to a run in flight while it is kept, whoever
\* writes it (a late progress callback, a guard, a restart).
THEOREM Finality == Spec => TerminalIsFinal
  <1> DEFINE Step == \A r \in RunIds :
                        IsTerminal(runs[r]) => IsTerminal(runs'[r]) \/ runs'[r] = "absent"
  <1>1. TypeOK /\ PublishedIsDurable /\ [Next]_vars => [Step]_vars
    <2> SUFFICES ASSUME TypeOK, PublishedIsDurable, Next
                 PROVE  Step
      OBVIOUS
    <2>1. CASE RegistryWrite
      <3>1. CASE runs' = runs
        BY <3>1
      <3>2. ASSUME NEW f \in [RunIds -> RunState], runs' = Trim(f),
                   \A r \in RunIds : IsTerminal(runs[r]) => IsTerminal(f[r])
            PROVE  Step
        BY <3>2, TrimKeepsInFlight
      <3> QED
        BY <2>1, <3>1, <3>2 DEF RegistryWrite
    <2>2. ASSUME NEW c \in RunIds \cup {NoRun}, NEW ok \in BOOLEAN, Restart(c, ok)
          PROVE  Step
      <3>1. \A r \in RunIds : IsTerminal(runs[r]) =>
               history[r] = "absent" \/ IsTerminal(history[r])
        BY DEF PublishedIsDurable
      <3>2. \A r \in RunIds : history[r] \notin InFlight => Reconciled(c)[r] = history[r]
        BY DEF Reconciled
      <3>3. runs' = history \/ runs' = Reconciled(c)
        BY <2>2 DEF Restart
      <3> QED
        BY <3>1, <3>2, <3>3 DEF InFlight, IsTerminal, Terminal
    <2> QED
      BY <2>1, <2>2, StepsWriteRegistry
  <1> QED
    BY <1>1, TypeCorrect, Durability, PTL DEF Spec, TerminalIsFinal

-----------------------------------------------------------------------------
(***************************************************************************)
(* Cancellation, shutdown, the slot and the order of the states of a run.  *)
(***************************************************************************)

\* A nonempty set of runs has a newest one.
LEMMA NewestRun ==
    ASSUME NEW D \in SUBSET RunIds, D # {}
    PROVE  \E x \in D : \A y \in D : y <= x
  <1> DEFINE E == {MaxRuns - x : x \in D}
  <1>1. MaxRuns \in Nat /\ \A x \in D : x \in Nat /\ x <= MaxRuns
    BY RunServiceConstants DEF RunIds
  <1>2. E \subseteq Nat /\ E # {}
    BY <1>1
  <1> HIDE DEF E
  <1>3. PICK m \in E : \A k \in E : ~ (<<k, m>> \in OpToRel(<, Nat))
    BY <1>2, WFMin, NatLessThanWellFounded, Zenon
  <1>4. \A k \in E : ~ (k < m)
    BY <1>2, <1>3, Zenon DEF OpToRel
  <1>5. PICK x \in D : m = MaxRuns - x
    BY DEF E
  <1>6. \A y \in D : ~ (MaxRuns - y < m)
    BY <1>4 DEF E
  <1> QED
    BY <1>1, <1>5, <1>6

\* Retention terminal records, the number the registry keeps of them.
Full(f) == Cardinality({s \in RunIds : IsTerminal(f[s])}) >= Retention

\* Only what Retention newer terminal runs outlive is dropped, so whoever finds a record
\* dropped finds the registry full.
LEMMA DroppedMeansFull ==
    ASSUME NEW f \in [RunIds -> RunState], NEW r \in RunIds,
           Trim(f)[r] # f[r]
    PROVE  Full(Trim(f))
  <1> DEFINE D == {x \in RunIds : ~Retained(f, x)}
             Newer(x) == {s \in RunIds : IsTerminal(f[s]) /\ s > x}
             Kept == {s \in RunIds : IsTerminal(Trim(f)[s])}
  <1>1. r \in D
    BY DEF Trim
  <1>2. PICK x \in D : \A y \in D : y <= x
    BY <1>1, NewestRun
  <1>3. ~ (Cardinality(Newer(x)) < Retention)
    BY <1>2 DEF Retained
  <1>4. Newer(x) \subseteq Kept
    <2> SUFFICES ASSUME NEW s \in RunIds, IsTerminal(f[s]), s > x
                 PROVE  IsTerminal(Trim(f)[s])
      OBVIOUS
    <2>1. s \notin D
      BY <1>2 DEF RunIds
    <2> QED
      BY <2>1 DEF Trim
  <1>5. IsFiniteSet(RunIds)
    BY FS_Interval, RunServiceConstants DEF RunIds
  <1>6. IsFiniteSet(Kept) /\ IsFiniteSet(Newer(x))
    BY <1>5, FS_Subset
  <1>7. /\ Cardinality(Newer(x)) <= Cardinality(Kept)
        /\ Cardinality(Newer(x)) \in Nat /\ Cardinality(Kept) \in Nat
    BY <1>4, <1>6, FS_Subset, FS_CardinalityType
  <1> HIDE DEF D, Newer, Kept
  <1>8. Cardinality(Kept) >= Retention
    BY <1>3, <1>7, RunServiceConstants
  <1> QED
    BY <1>8 DEF Full, Kept

\* A full registry in which terminal records stay terminal stays full when it is trimmed.
LEMMA TrimStaysFull ==
    ASSUME NEW f \in [RunIds -> RunState], NEW g \in [RunIds -> RunState],
           Full(g), \A r \in RunIds : IsTerminal(g[r]) => IsTerminal(f[r])
    PROVE  Full(Trim(f))
  <1>1. CASE \E r \in RunIds : Trim(f)[r] # f[r]
    BY <1>1, DroppedMeansFull
  <1>2. CASE \A r \in RunIds : Trim(f)[r] = f[r]
    <2> DEFINE Old == {s \in RunIds : IsTerminal(g[s])}
               New == {s \in RunIds : IsTerminal(Trim(f)[s])}
    <2>1. Old \subseteq New
      BY <1>2
    <2>2. IsFiniteSet(RunIds)
      BY FS_Interval, RunServiceConstants DEF RunIds
    <2>3. IsFiniteSet(New) /\ IsFiniteSet(Old)
      BY <2>2, FS_Subset
    <2>4. /\ Cardinality(Old) <= Cardinality(New)
          /\ Cardinality(Old) \in Nat /\ Cardinality(New) \in Nat
      BY <2>1, <2>3, FS_Subset, FS_CardinalityType
    <2>5. Cardinality(Old) >= Retention
      BY DEF Full
    <2> HIDE DEF Old, New
    <2>6. Cardinality(New) >= Retention
      BY <2>4, <2>5, RunServiceConstants
    <2> QED
      BY <2>6 DEF Full, New
  <1> QED
    BY <1>1, <1>2

\* A run in flight that has a goroutine owns the slot, and so does one that
\* launchAsyncRun refuses because the service is closed.
InFlightOwnsSlot ==
    \A r \in RunIds :
        /\ runs[r] \in InFlight /\ pc[r] # "none" => active = r
        /\ pc[r] = "refused" => active = r /\ closed

\* Shutdown closes the service, and every run in flight or driving in a closed
\* service was in flight when the Shutdown began.
StopReaches ==
    /\ closed <=> shut # "open"
    /\ closed => \A r \in RunIds :
          runs[r] \in InFlight \/ pc[r] \in Driving \cup {"refused"} => r \in stopAsked

\* A Shutdown that still hopes to succeed has emptied the pending slot and waits
\* for the run it captured; one that succeeded left nothing driving.
StopQuiets ==
    /\ shut \in {"waiting", "ok"} => pending = NoRun
    /\ shut = "waiting" => active \in {shutRun, NoRun}
    /\ CleanShutdown

\* Whatever makes classifyRunFailure answer canceled was asked for: the request
\* itself, the canceled context while the service is open, the planned status.
AskedInv ==
    /\ CanceledOnlyIfAsked
    /\ cancelReq \subseteq userCancel
    /\ ~closed => ctxDone \subseteq userCancel
    /\ \A r \in RunIds : plan[r] = "canceled" => r \in userCancel \/ closed

\* The goroutines that launchAsyncRun has given a cancel function.
Called == {"boot", "exec", "doomed", "fail", "guard", "outer"}

\* A launched run has a cancel function; a pending run and an id not admitted yet
\* were not canceled; before a restart an accepted cancel is remembered until the
\* launch looks at it and is in the context afterwards.
ReachInv ==
    /\ \A r \in RunIds : pc[r] \in Called => r \in cancels
    /\ pending \notin userCancel
    /\ \A r \in userCancel : r <= seq /\ \A q \in requests : q.id # r
    /\ restarts = 0 => \A r \in userCancel :
          /\ pc[r] = "launch" => r \in cancelReq
          /\ pc[r] \in Called => r \in ctxDone

\* The slot names a run that was launched; a goroutine reaches finishAsyncRun with
\* its run still in flight only after a failed write, and finds no record of its run
\* only in a full registry.
LeakInv ==
    /\ active # NoRun => pc[active] # "none"
    /\ \A r \in RunIds : pc[r] = "finish" /\ runs[r] \in InFlight => faults > 0
    /\ \A r \in RunIds : pc[r] # "none" /\ runs[r] = "absent" => Full(runs)
    /\ SlotHeldByLiveRun

\* A driving run is in flight, except after a deadline of Shutdown.
DrivingInFlight ==
    \A r \in RunIds : pc[r] \in Driving => runs[r] \in InFlight \/ shut = "error"

\* What is inductive for the cancellation, the shutdown and the slot.
LifeInv ==
    /\ InFlightOwnsSlot /\ StopReaches /\ StopQuiets /\ AskedInv
    /\ ReachInv /\ LeakInv /\ DrivingInFlight

\* The step that LifecycleOrder allows.
Lifecycle ==
    \A r \in RunIds :
        runs'[r] # runs[r] =>
            /\ runs'[r] = "queued" => runs[r] = "absent"
            /\ runs'[r] = "running" =>
                  runs[r] = "queued" \/ (runs[r] = "absent" /\ shut = "error")

\* The runs outside S keep their record or lose it to retention, which fills the registry.
Upserted(S) ==
    /\ \A x \in RunIds \ S :
          /\ runs'[x] \in {runs[x], "absent"}
          /\ runs[x] \in InFlight => runs'[x] = runs[x]
    /\ \A x \in RunIds : runs'[x] = "absent" => runs[x] = "absent" \/ Full(runs')
    /\ Full(runs) => Full(runs')
    /\ faults' \in Nat /\ faults' >= faults

\* What upsertRunsLocked does to the runs outside S and to the ones it writes.
LEMMA PublishUpserts ==
    ASSUME TypeOK, NEW f \in [RunIds -> RunState], NEW ok \in BOOLEAN, Publish(f, ok),
           \A x \in RunIds : IsTerminal(runs[x]) => IsTerminal(f[x]),
           \A x \in RunIds : f[x] = "absent" => runs[x] = "absent",
           NEW S, \A x \in RunIds \ S : f[x] = runs[x]
    PROVE  /\ Upserted(S)
           /\ ok => \A x \in RunIds : runs'[x] \in {f[x], "absent"}
           /\ ok => \A x \in RunIds : f[x] \in InFlight => runs'[x] = f[x]
           /\ ~ok => runs' = runs /\ faults' > 0
  <1>1. runs \in [RunIds -> RunState] /\ faults \in Nat /\ MaxFaults \in Nat
    BY RunServiceConstants DEF TypeOK
  <1>2. CASE ok
    <2>1. runs' = Trim(f) /\ faults' = faults
      BY <1>2 DEF Publish
    <2>2. \A x \in RunIds : Trim(f)[x] \in {f[x], "absent"}
                            /\ (f[x] \in InFlight => Trim(f)[x] = f[x])
      BY TrimKeepsInFlight DEF InFlight, IsTerminal, Terminal
    <2>3. \A x \in RunIds : Trim(f)[x] # f[x] => Full(Trim(f))
      BY DroppedMeansFull
    <2>4. Full(runs) => Full(Trim(f))
      BY <1>1, TrimStaysFull
    <2> QED
      BY <1>1, <1>2, <2>1, <2>2, <2>3, <2>4 DEF Upserted
  <1>3. CASE ~ok
    BY <1>1, <1>3 DEF Publish, Upserted
  <1> QED
    BY <1>2, <1>3

\* upsertRunsLocked of one record.
LEMMA UpsertsOne ==
    ASSUME TypeOK, NEW r \in RunIds, NEW status \in RunState \ {"absent"}, NEW ok \in BOOLEAN,
           Publish(Put(runs, r, status), ok)
    PROVE  /\ Upserted({r})
           /\ ok => runs'[r] \in {status, runs[r], "absent"}
           /\ ok /\ (~IsTerminal(runs[r]) \/ IsTerminal(status)) => runs'[r] \in {status, "absent"}
           /\ ok /\ status \in InFlight /\ ~IsTerminal(runs[r]) => runs'[r] = status
           /\ IsTerminal(runs[r]) => runs'[r] \notin InFlight
           /\ ~ok => runs' = runs /\ faults' > 0
  <1> DEFINE f == Put(runs, r, status)
  <1>1. runs \in [RunIds -> RunState]
    BY DEF TypeOK
  <1>2. /\ f \in [RunIds -> RunState]
        /\ \A x \in RunIds \ {r} : f[x] = runs[x]
        /\ f[r] = IF IsTerminal(runs[r]) /\ ~IsTerminal(status) THEN runs[r] ELSE status
    BY <1>1 DEF Put
  <1>3. Publish(f, ok)
    OBVIOUS
  <1> HIDE DEF f
  <1>4. /\ \A x \in RunIds : IsTerminal(runs[x]) => IsTerminal(f[x])
        /\ \A x \in RunIds : f[x] = "absent" => runs[x] = "absent"
    BY <1>2
  <1>5. /\ Upserted({r})
        /\ ok => \A x \in RunIds : runs'[x] \in {f[x], "absent"}
        /\ ok => \A x \in RunIds : f[x] \in InFlight => runs'[x] = f[x]
        /\ ~ok => runs' = runs /\ faults' > 0
    BY <1>2, <1>3, <1>4, PublishUpserts
  <1> QED
    BY <1>2, <1>5 DEF InFlight, IsTerminal, Terminal

\* upsertRunsLocked of a new record and of the pending one it supersedes.
LEMMA UpsertsTwo ==
    ASSUME TypeOK, NEW r \in RunIds, NEW p \in RunIds, r # p, runs[r] = "absent",
           NEW ok \in BOOLEAN,
           Publish(Put(Put(runs, r, "queued"), p, "superseded"), ok)
    PROVE  /\ Upserted({r, p})
           /\ ok => runs'[r] = "queued" /\ runs'[p] \in {"superseded", "absent"}
           /\ ~ok => runs' = runs
  <1> DEFINE f == Put(Put(runs, r, "queued"), p, "superseded")
  <1>1. runs \in [RunIds -> RunState]
    BY DEF TypeOK
  <1>2. /\ f \in [RunIds -> RunState]
        /\ \A x \in RunIds \ {r, p} : f[x] = runs[x]
        /\ f[r] = "queued" /\ f[p] = "superseded"
    BY <1>1, RunStateMembers DEF Put, IsTerminal, Terminal
  <1>3. Publish(f, ok)
    OBVIOUS
  <1> HIDE DEF f
  <1>4. /\ \A x \in RunIds : IsTerminal(runs[x]) => IsTerminal(f[x])
        /\ \A x \in RunIds : f[x] = "absent" => runs[x] = "absent"
    BY <1>2 DEF IsTerminal, Terminal
  <1>5. /\ Upserted({r, p})
        /\ ok => \A x \in RunIds : runs'[x] \in {f[x], "absent"}
        /\ ok => \A x \in RunIds : f[x] \in InFlight => runs'[x] = f[x]
        /\ ~ok => runs' = runs /\ faults' > 0
    BY <1>2, <1>3, <1>4, PublishUpserts
  <1> QED
    BY <1>2, <1>5 DEF InFlight

\* A step that stores nothing.
LEMMA UpsertsNone ==
    ASSUME TypeOK, UNCHANGED <<runs, faults>>
    PROVE  \A S : Upserted(S)
  BY DEF TypeOK, Upserted

\* A critical section of the goroutine of r moves it to label, stores at most the
\* record of r, and gives r a cancel function when it launches it.
LEMMA GoroutineKeeps ==
    ASSUME TypeOK, SlotInv, LifeInv, NEW r \in RunIds, Upserted({r}),
           pc[r] \in PC \ {"none", "done"}, NEW label \in PC \ {"none", "launch", "done"},
           pc' = [pc EXCEPT ![r] = label],
           UNCHANGED <<active, pending, closed, shut, shutRun, requests, seq, restarts,
                       userCancel, stopAsked, cancelReq>>,
           label \in Driving => pc[r] \in Driving /\ (runs'[r] \in InFlight \/ shut = "error"),
           label = "refused" => closed /\ pc[r] \in Driving,
           label = "finish" /\ runs'[r] \in InFlight => faults' > 0,
           label \in Called =>
               \/ pc[r] \in Called /\ UNCHANGED <<cancels, ctxDone>>
               \/ pc[r] = "launch" /\ r \in cancels' /\ (r \in cancelReq => r \in ctxDone'),
           cancels \subseteq cancels',
           ctxDone \subseteq ctxDone', ctxDone' \subseteq ctxDone \cup cancelReq,
           runs'[r] \in InFlight => runs[r] \in InFlight \/ pc[r] \in Driving,
           runs'[r] = "canceled" => runs[r] = "canceled" \/ r \in userCancel \cup stopAsked,
           \A x \in RunIds :
               plan'[x] = "canceled" => plan[x] = "canceled" \/ x \in userCancel \/ closed
    PROVE  LifeInv'
  <1>0. /\ pc \in [RunIds -> PC] /\ runs \in [RunIds -> RunState] /\ pc'[r] = label
        /\ active \in RunIds \cup {NoRun} /\ userCancel \subseteq RunIds /\ faults \in Nat
        /\ \A x \in RunIds \ {r} : pc'[x] = pc[x]
        /\ pc[r] \in Driving => active = r
    BY DEF TypeOK, SlotInv, DrivingOwnsSlot
  <1>x. \A x \in RunIds \ {r} :
          /\ runs'[x] \in {runs[x], "absent"}
          /\ runs[x] \in InFlight => runs'[x] = runs[x]
          /\ runs'[x] \in InFlight => runs[x] \in InFlight
    BY DEF Upserted, InFlight
  <1>1. InFlightOwnsSlot'
    <2>1. ASSUME NEW x \in RunIds \ {r}
          PROVE  /\ runs'[x] \in InFlight /\ pc'[x] # "none" => active' = x
                 /\ pc'[x] = "refused" => active' = x /\ closed'
      BY <1>0, <1>x DEF LifeInv, InFlightOwnsSlot
    <2>2. /\ runs'[r] \in InFlight => active' = r
          /\ pc'[r] = "refused" => active' = r /\ closed'
      BY <1>0 DEF LifeInv, InFlightOwnsSlot
    <2> QED
      BY <2>1, <2>2 DEF InFlightOwnsSlot
  <1>2. StopReaches'
    BY <1>0, <1>x DEF LifeInv, StopReaches
  <1>3. StopQuiets'
    <2>1. shut = "ok" => \A x \in RunIds :
              /\ pc'[x] \notin Driving \cup {"refused"}
              /\ pc'[x] # "none" => runs'[x] \notin InFlight
      BY <1>0, <1>x DEF LifeInv, StopQuiets, CleanShutdown
    <2> QED
      BY <2>1 DEF LifeInv, StopQuiets, CleanShutdown
  <1>4. AskedInv'
    BY <1>0, <1>x DEF LifeInv, AskedInv, CanceledOnlyIfAsked
  <1>5. ReachInv'
    BY <1>0 DEF LifeInv, ReachInv, Called
  <1>6. LeakInv'
    <2>1. \A x \in RunIds : pc'[x] # "none" /\ runs'[x] = "absent" => Full(runs')
      BY <1>0 DEF LifeInv, LeakInv, Upserted
    <2>2. SlotHeldByLiveRun'
      <3> SUFFICES ASSUME ~closed, active # NoRun, pc'[active] \in {"none", "done"}
                   PROVE  \/ faults' > 0 /\ runs'[active] \in InFlight
                          \/ runs'[active] = "absent" /\ Full(runs')
        BY DEF SlotHeldByLiveRun, Full
      <3>1. active \in RunIds \ {r} /\ pc'[active] = pc[active]
        BY <1>0
      <3>2. \/ faults > 0 /\ runs[active] \in InFlight
            \/ runs[active] = "absent" /\ Full(runs)
        BY <3>1 DEF LifeInv, LeakInv, SlotHeldByLiveRun, Full
      <3> QED
        BY <1>0, <1>x, <3>1, <3>2 DEF Upserted
    <2>3. \A x \in RunIds : pc'[x] = "finish" /\ runs'[x] \in InFlight => faults' > 0
      BY <1>0, <1>x DEF LifeInv, LeakInv, Upserted
    <2>4. active # NoRun => pc'[active] # "none"
      BY <1>0 DEF LifeInv, LeakInv
    <2> QED
      BY <2>1, <2>2, <2>3, <2>4 DEF LeakInv
  <1>7. DrivingInFlight'
    BY <1>0, <1>x DEF LifeInv, DrivingInFlight
  <1> QED
    BY <1>1, <1>2, <1>3, <1>4, <1>5, <1>6, <1>7 DEF LifeInv

\* Every critical section of the goroutine of r before finishAsyncRun keeps LifeInv.
LEMMA LifeGoroutine ==
    ASSUME TypeOK, SlotInv, LifeInv, NEW r \in RunIds,
           RunStep(r) \/ \E ok \in BOOLEAN : Progress(r, ok), ~Finish(r)
    PROVE  LifeInv' /\ Lifecycle
  <1> USE RunStateMembers
  <1>0. /\ pc \in [RunIds -> PC] /\ runs \in [RunIds -> RunState]
        /\ plan \in [RunIds -> {"none", "failed", "canceled"}]
        /\ \A s \in InFlight : s # "absent" /\ s # "canceled" /\ ~IsTerminal(s)
        /\ "running" \in InFlight /\ "queued" \in InFlight
        /\ \A s \in {"succeeded", "failed", "canceled"} : IsTerminal(s) /\ s \notin InFlight
    BY DEF TypeOK, InFlight, IsTerminal, Terminal
  <1>a. /\ pc[r] \in Driving \cup {"refused"} /\ closed => r \in stopAsked
        /\ runs[r] \in InFlight /\ closed => r \in stopAsked
        /\ pc[r] \in Driving => runs[r] \in InFlight \/ shut = "error"
        /\ pc[r] = "refused" => closed
        /\ shut = "error" => closed
        /\ pc[r] \in Called => r \in cancels
        /\ plan[r] = "canceled" => r \in userCancel \/ closed
        /\ cancelReq \subseteq userCancel
        /\ ~closed => ctxDone \subseteq userCancel
    BY DEF LifeInv, StopReaches, DrivingInFlight, InFlightOwnsSlot, ReachInv, AskedInv
  <1>b. (\A x \in RunIds \ {r} : runs'[x] \in {runs[x], "absent"})
           /\ (runs'[r] = runs[r] \/ runs'[r] \notin InFlight
               \/ /\ runs'[r] = "running"
                  /\ runs[r] = "queued" \/ (runs[r] = "absent" /\ shut = "error"))
        => Lifecycle
    BY <1>0 DEF Lifecycle, InFlight
  <1>1. ASSUME Launch(r) PROVE LifeInv' /\ Lifecycle
    <2>1. Upserted({r}) /\ runs' = runs
      BY <1>1, UpsertsNone DEF Launch, registry
    <2>2. Lifecycle
      BY <2>1 DEF Lifecycle
    <2>3. CASE closed /\ Goto(r, "refused") /\ UNCHANGED cancellation
      BY <1>0, <1>a, <1>1, <2>1, <2>2, <2>3, GoroutineKeeps
         DEF Launch, Goto, PC, Driving, Called, slots, cancellation, shutdown, arrivals, asked
    <2>4. CASE ~closed /\ Goto(r, "boot") /\ cancels' = cancels \cup {r}
               /\ ctxDone' = (IF r \in cancelReq THEN ctxDone \cup {r} ELSE ctxDone)
               /\ UNCHANGED cancelReq
      BY <1>0, <1>a, <1>1, <2>1, <2>2, <2>4, GoroutineKeeps
         DEF Launch, Goto, PC, Driving, Called, slots, shutdown, arrivals, asked
    <2> QED
      BY <1>1, <2>3, <2>4 DEF Launch
  <1>2. ASSUME NEW ok \in BOOLEAN, Refuse(r, ok) PROVE LifeInv' /\ Lifecycle
    <2>1. /\ Upserted({r})
          /\ runs'[r] \in {runs[r], "canceled", "absent"}
          /\ runs'[r] \in InFlight => faults' > 0
      BY <1>0, <1>2, UpsertsOne, UpsertsNone DEF Refuse
    <2>2. Lifecycle
      BY <1>0, <1>b, <2>1 DEF Upserted
    <2> QED
      BY <1>0, <1>a, <1>2, <2>1, <2>2, GoroutineKeeps
         DEF Refuse, Goto, PC, Driving, Called, slots, cancellation, shutdown, arrivals, asked
  <1>3. ASSUME NEW ok \in BOOLEAN, Boot(r, ok) PROVE LifeInv' /\ Lifecycle
    <2>1. /\ Upserted({r})
          /\ runs'[r] \in {runs[r], "running", "absent"}
          /\ IsTerminal(runs[r]) => runs'[r] \notin InFlight
          /\ ok /\ runs[r] \in InFlight => runs'[r] = "running"
          /\ ~ok => runs' = runs
      BY <1>0, <1>3, UpsertsOne DEF Boot
    <2>2. pc[r] = "boot" /\ pc[r] \in Driving /\ pc[r] \in Called
      BY <1>3 DEF Boot, Driving, Called
    <2>3. Lifecycle
      BY <1>0, <1>a, <1>b, <2>1, <2>2 DEF Upserted, RunState, InFlight, IsTerminal
    <2>4. CASE ok
      BY <1>0, <1>a, <1>3, <2>1, <2>2, <2>3, <2>4, GoroutineKeeps
         DEF Boot, Goto, PC, Driving, Called, slots, cancellation, shutdown, arrivals, asked
    <2>5. CASE ~ok
      BY <1>0, <1>a, <1>3, <2>1, <2>2, <2>3, <2>5, GoroutineKeeps
         DEF Boot, Goto, PC, Driving, Called, slots, cancellation, shutdown, arrivals, asked
    <2> QED
      BY <2>4, <2>5
  <1>4. ASSUME NEW ok \in BOOLEAN, Progress(r, ok) PROVE LifeInv' /\ Lifecycle
    <2>1. /\ Upserted({r})
          /\ runs'[r] \in {runs[r], "running", "absent"}
          /\ IsTerminal(runs[r]) => runs'[r] \notin InFlight
          /\ ok /\ runs[r] \in InFlight => runs'[r] = "running"
          /\ ~ok => runs' = runs
      BY <1>0, <1>4, UpsertsOne DEF Progress
    <2>2. pc[r] \in {"exec", "doomed"} /\ pc[r] \in Driving /\ pc[r] \in Called
      BY <1>4 DEF Progress, Driving, Called
    <2>3. Lifecycle
      BY <1>0, <1>a, <1>b, <2>1, <2>2 DEF Upserted, RunState, InFlight, IsTerminal
    <2>4. CASE ok
      BY <1>0, <1>a, <1>4, <2>1, <2>2, <2>3, <2>4, GoroutineKeeps
         DEF Progress, Goto, PC, Driving, Called, slots, cancellation, shutdown, arrivals, asked
    <2>5. CASE ~ok
      BY <1>0, <1>a, <1>4, <2>1, <2>2, <2>3, <2>5, GoroutineKeeps
         DEF Progress, Goto, PC, Driving, Called, slots, cancellation, shutdown, arrivals, asked
    <2> QED
      BY <2>4, <2>5
  <1>5. ASSUME NEW ok \in BOOLEAN, Succeed(r, ok) PROVE LifeInv' /\ Lifecycle
    <2>1. /\ Upserted({r})
          /\ runs'[r] \in {runs[r], "succeeded", "absent"}
          /\ ok => runs'[r] \in {"succeeded", "absent"}
      BY <1>0, <1>5, UpsertsOne DEF Succeed
    <2>2. pc[r] = "exec" /\ pc[r] \in Driving /\ pc[r] \in Called
      BY <1>5 DEF Succeed, Driving, Called
    <2>3. Lifecycle
      BY <1>0, <1>b, <2>1 DEF Upserted
    <2>4. CASE ok
      BY <1>0, <1>a, <1>5, <2>1, <2>2, <2>3, <2>4, GoroutineKeeps
         DEF Succeed, Goto, PC, Driving, Called, slots, cancellation, shutdown, arrivals, asked
    <2>5. CASE ~ok
      BY <1>0, <1>a, <1>5, <2>1, <2>2, <2>3, <2>5, GoroutineKeeps
         DEF Succeed, Goto, PC, Driving, Called, slots, cancellation, shutdown, arrivals, asked
    <2> QED
      BY <2>4, <2>5
  <1>6. ASSUME NEW ok \in BOOLEAN, PartialFail(r, ok) PROVE LifeInv' /\ Lifecycle
    <2>1. /\ Upserted({r})
          /\ runs'[r] \in {runs[r], "failed", "absent"}
      BY <1>0, <1>6, UpsertsOne DEF PartialFail
    <2>2. pc[r] = "exec" /\ pc[r] \in Driving /\ pc[r] \in Called
      BY <1>6 DEF PartialFail, Driving, Called
    <2>3. Lifecycle
      BY <1>0, <1>b, <2>1 DEF Upserted
    <2> QED
      BY <1>0, <1>a, <1>6, <2>1, <2>2, <2>3, GoroutineKeeps
         DEF PartialFail, Goto, PC, Driving, Called, slots, cancellation, shutdown, arrivals, asked
  <1>7. ASSUME NEW label \in {"fail", "guard"}, ExecutionError(r, label)
        PROVE  LifeInv' /\ Lifecycle
    <2>1. Upserted({r}) /\ runs' = runs
      BY <1>7, UpsertsNone DEF ExecutionError, registry
    <2>2. pc[r] \in {"exec", "doomed"} /\ pc[r] \in Driving /\ pc[r] \in Called
      BY <1>7 DEF ExecutionError, Driving, Called
    <2>3. Lifecycle
      BY <2>1 DEF Lifecycle
    <2> QED
      BY <1>0, <1>a, <1>7, <2>1, <2>2, <2>3, GoroutineKeeps
         DEF ExecutionError, Goto, PC, Driving, Called, slots, cancellation, shutdown, arrivals, asked
  <1>8. ASSUME NEW code \in {"failed", "canceled"}, Classify(r, code)
        PROVE  LifeInv' /\ Lifecycle
    <2>1. Upserted({r}) /\ runs' = runs
      BY <1>8, UpsertsNone DEF Classify, registry
    <2>2. pc[r] \in {"fail", "guard", "outer"} /\ pc[r] \in Called
      BY <1>8 DEF Classify, Called
    <2>3. Lifecycle
      BY <2>1 DEF Lifecycle
    <2>4. code = "canceled" => r \in userCancel \/ closed
      BY <1>a, <1>8 DEF Classify
    <2>5. pc' = [pc EXCEPT ![r] = pc[r]]
      BY <1>0, <1>8 DEF Classify
    <2>6. pc[r] \in PC \ {"none", "launch", "done"} /\ pc[r] \notin {"none", "done"}
      BY <2>2 DEF PC
    <2>7. /\ UNCHANGED <<active, pending, closed, shut, shutRun, requests, seq, restarts,
                        userCancel, stopAsked, cancelReq, cancels, ctxDone, faults>>
          /\ pc[r] \notin {"refused", "finish"}
          /\ plan' = [plan EXCEPT ![r] = code]
      BY <1>8, <2>2 DEF Classify, slots, cancellation, shutdown, arrivals, asked
    <2>8. \A x \in RunIds : plan'[x] = "canceled" =>
             plan[x] = "canceled" \/ x \in userCancel \/ closed
      BY <1>0, <2>4, <2>7
    <2>9. ctxDone' \subseteq ctxDone \cup cancelReq /\ cancels \subseteq cancels'
      BY <2>7
    <2> QED
      BY <1>0, <1>a, <2>1, <2>2, <2>3, <2>5, <2>6, <2>7, <2>8, <2>9, GoroutineKeeps
  <1>9. ASSUME NEW ok \in BOOLEAN, StoreFailure(r, ok) PROVE LifeInv' /\ Lifecycle
    <2>1. plan[r] \in {"failed", "canceled"} /\ pc[r] \in {"fail", "guard", "outer"} /\ pc[r] \in Called
      BY <1>0, <1>9 DEF StoreFailure, Called
    <2> DEFINE label == AfterFailure[pc[r]]
    <2>4. /\ label \in {"guard", "outer", "finish"} /\ label \notin Driving
          /\ label \in Called => pc[r] \in Called
          /\ label \in PC \ {"none", "launch", "done"} /\ pc[r] \in PC \ {"none", "done"}
      BY <2>1 DEF AfterFailure, Driving, Called, PC
    <2>5. /\ pc' = [pc EXCEPT ![r] = label] /\ plan' = [plan EXCEPT ![r] = "none"]
          /\ UNCHANGED <<active, pending, closed, shut, shutRun, requests, seq, restarts,
                         userCancel, stopAsked, cancels, cancelReq, ctxDone>>
      BY <1>9 DEF StoreFailure, Goto, slots, cancellation, shutdown, arrivals, asked
    <2> HIDE DEF label
    <2>2. CASE (pc[r] = "fail" \/ runs[r] \in InFlight) /\ Publish(Put(runs, r, plan[r]), ok)
      <3>1. /\ Upserted({r})
            /\ runs'[r] \in {runs[r], plan[r], "absent"}
            /\ runs'[r] \in InFlight => faults' > 0
        BY <1>0, <2>1, <2>2, UpsertsOne
      <3>2. runs'[r] = "canceled" => runs[r] = "canceled" \/ r \in userCancel \cup stopAsked
        BY <1>0, <1>a, <2>1, <2>2, <3>1 DEF Driving
      <3>3. Lifecycle
        BY <1>0, <1>b, <2>1, <3>1 DEF Upserted
      <3> QED
        BY <1>0, <2>1, <2>4, <2>5, <3>1, <3>2, <3>3, GoroutineKeeps
    <2>3. CASE pc[r] # "fail" /\ runs[r] \notin InFlight /\ UNCHANGED <<runs, history, faults>>
      <3>1. Upserted({r}) /\ runs' = runs
        BY <2>3, UpsertsNone
      <3>2. Lifecycle
        BY <3>1 DEF Lifecycle
      <3> QED
        BY <1>0, <2>1, <2>3, <2>4, <2>5, <3>1, <3>2, GoroutineKeeps
    <2> QED
      BY <1>9, <2>2, <2>3 DEF StoreFailure
  <1> QED
    BY <1>1, <1>2, <1>3, <1>4, <1>5, <1>6, <1>7, <1>8, <1>9 DEF RunStep

\* finishAsyncRun keeps LifeInv: the slot it gives up or hands over is not leaked.
LEMMA LifeFinish ==
    ASSUME TypeOK, SlotInv, LifeInv, NEW r \in RunIds, Finish(r)
    PROVE  LifeInv' /\ Lifecycle
  <1> USE RunStateMembers
  <1>0. /\ UNCHANGED <<runs, closed, shut, shutRun, plan, requests, seq, faults, restarts,
                       userCancel, stopAsked>>
        /\ cancels' = cancels \ {r} /\ cancelReq' = cancelReq \ {r} /\ ctxDone' = ctxDone \ {r}
        /\ pc[r] = "finish" /\ pc \in [RunIds -> PC]
        /\ active \in RunIds \cup {NoRun} /\ pending \in RunIds \cup {NoRun}
        /\ userCancel \subseteq RunIds /\ pending # r
    BY DEF Finish, registry, shutdown, arrivals, asked, TypeOK, SlotInv, PendingIsParked
  <1>1. Lifecycle
    BY <1>0 DEF Lifecycle
  <1>2. /\ SlotAfter(r) \in {active, NoRun}
        /\ SlotAfter(r) = NoRun => active = NoRun \/ (active = r /\ runs[r] \notin InFlight)
        /\ active = r /\ SlotAfter(r) = r => ~IsTerminal(runs[r])
    BY <1>0 DEF SlotAfter, InFlight, IsTerminal, Terminal
  <1>3. AskedInv'
    BY <1>0 DEF LifeInv, AskedInv, CanceledOnlyIfAsked
  <1>4. CASE ~closed /\ SlotAfter(r) = NoRun /\ pending # NoRun
    <2>1. /\ active' = pending /\ pending' = NoRun /\ pending \in RunIds
          /\ pc' = [pc EXCEPT ![r] = "done", ![pending] = "launch"]
      BY <1>0, <1>4 DEF Finish
    <2>2. /\ pc'[r] = "done" /\ pc'[pending] = "launch"
          /\ \A x \in RunIds \ {r, pending} : pc'[x] = pc[x]
          /\ runs[pending] = "queued" /\ "queued" \in InFlight
      BY <1>0, <1>4, <2>1 DEF SlotInv, PendingIsParked, InFlight
    <2>3. \A x \in RunIds : runs[x] \in InFlight => pc[x] = "none"
      BY <1>0, <1>2, <1>4 DEF LifeInv, InFlightOwnsSlot
    <2>4. InFlightOwnsSlot'
      <3>1. \A x \in RunIds : pc[x] # "refused"
        BY <1>4 DEF LifeInv, InFlightOwnsSlot
      <3> QED
        BY <1>0, <2>1, <2>2, <2>3, <3>1 DEF InFlightOwnsSlot
    <2>5. StopReaches' /\ StopQuiets'
      BY <1>0, <1>4, <2>1 DEF LifeInv, StopReaches, StopQuiets, CleanShutdown
    <2>6. ReachInv'
      BY <1>0, <2>1, <2>2 DEF LifeInv, ReachInv, Called
    <2>7. LeakInv'
      BY <1>0, <2>1, <2>2, <2>3 DEF LifeInv, LeakInv, SlotHeldByLiveRun
    <2>8. DrivingInFlight'
      BY <1>0, <2>1, <2>2 DEF LifeInv, DrivingInFlight, Driving
    <2> QED
      BY <1>1, <1>3, <2>4, <2>5, <2>6, <2>7, <2>8 DEF LifeInv
  <1>5. CASE closed \/ SlotAfter(r) # NoRun \/ pending = NoRun
    <2>1. /\ active' = SlotAfter(r) /\ pending' = pending /\ pc' = [pc EXCEPT ![r] = "done"]
          /\ pc'[r] = "done" /\ \A x \in RunIds \ {r} : pc'[x] = pc[x]
      BY <1>0, <1>5 DEF Finish, Goto
    <2>2. InFlightOwnsSlot'
      BY <1>0, <1>2, <2>1 DEF LifeInv, InFlightOwnsSlot
    <2>3. StopReaches'
      BY <1>0, <2>1 DEF LifeInv, StopReaches, Driving
    <2>4. StopQuiets'
      BY <1>0, <1>2, <2>1 DEF LifeInv, StopQuiets, CleanShutdown, Driving
    <2>5. ReachInv'
      BY <1>0, <2>1 DEF LifeInv, ReachInv, Called
    <2>6. LeakInv'
      <3>1. SlotHeldByLiveRun'
        <4> SUFFICES ASSUME ~closed, active' # NoRun, pc'[active'] \in {"none", "done"}
                     PROVE  \/ faults > 0 /\ runs[active'] \in InFlight
                            \/ runs[active'] = "absent" /\ Full(runs)
          BY <1>0 DEF SlotHeldByLiveRun, Full
        <4>1. active' = active /\ active \in RunIds
          BY <1>0, <1>2, <2>1
        <4>2. CASE active = r
          <5>1. runs[r] \in InFlight \/ runs[r] = "absent"
            BY <1>2, <2>1, <4>1, <4>2 DEF TypeOK, RunState, IsTerminal
          <5> QED
            BY <1>0, <4>1, <4>2, <5>1 DEF LifeInv, LeakInv
        <4>3. CASE active # r
          BY <1>0, <2>1, <4>1, <4>3 DEF LifeInv, LeakInv, SlotHeldByLiveRun, Full
        <4> QED
          BY <4>2, <4>3
      <3> QED
        BY <1>0, <1>2, <2>1, <3>1 DEF LifeInv, LeakInv
    <2>7. DrivingInFlight'
      BY <1>0, <2>1 DEF LifeInv, DrivingInFlight, Driving
    <2> QED
      BY <1>1, <1>3, <2>2, <2>3, <2>4, <2>5, <2>6, <2>7 DEF LifeInv
  <1> QED
    BY <1>4, <1>5 DEF Finish

\* The admission of a run that has no record stores it as queued.
LEMMA AdmitUpserts ==
    ASSUME TypeOK, NEW r \in RunIds, runs[r] = "absent", NEW ok \in BOOLEAN,
           Publish(Put(runs, r, "queued"), ok)
    PROVE  /\ Upserted({r})
           /\ ok => runs'[r] = "queued"
           /\ ~ok => runs' = runs
  <1>1. "queued" \in RunState \ {"absent"} /\ "queued" \in InFlight /\ ~IsTerminal(runs[r])
    BY RunStateMembers DEF InFlight, IsTerminal, Terminal
  <1> QED
    BY <1>1, UpsertsOne

\* StartAsyncRun and CancelRun keep LifeInv.
LEMMA LifeRequest ==
    ASSUME TypeOK, SlotInv, LifeInv, Request
    PROVE  LifeInv' /\ Lifecycle
  <1> USE RunStateMembers
  <1>0. /\ pc \in [RunIds -> PC] /\ runs \in [RunIds -> RunState]
        /\ active \in RunIds \cup {NoRun} /\ pending \in RunIds \cup {NoRun}
        /\ userCancel \subseteq RunIds /\ faults \in Nat /\ seq \in Nat
        /\ "queued" \in InFlight /\ "queued" # "canceled"
        /\ \A s \in InFlight : s # "absent" /\ s # "canceled" /\ ~IsTerminal(s)
    BY DEF TypeOK, InFlight, IsTerminal, Terminal
  <1>1. ASSUME NEW intent \in Intents, Arrive(intent) PROVE LifeInv' /\ Lifecycle
    <2>1. /\ UNCHANGED <<runs, active, pending, cancels, cancelReq, ctxDone, closed, shut, shutRun,
                         pc, plan, faults, restarts, userCancel, stopAsked>>
          /\ seq' = seq + 1 /\ requests' = requests \cup {[id |-> seq + 1, intent |-> intent]}
      BY <1>1 DEF Arrive, registry, slots, cancellation, shutdown, goroutines, asked
    <2>2. \A r \in userCancel : r <= seq' /\ \A q \in requests' : q.id # r
      BY <1>0, <2>1 DEF LifeInv, ReachInv
    <2>3. ReachInv'
      BY <2>1, <2>2 DEF LifeInv, ReachInv
    <2> QED
      BY <2>1, <2>3 DEF LifeInv, InFlightOwnsSlot, StopReaches, StopQuiets, CleanShutdown,
         AskedInv, CanceledOnlyIfAsked, LeakInv, SlotHeldByLiveRun, DrivingInFlight, Lifecycle
  <1>2. ASSUME NEW q \in requests, RejectStart(q) PROVE LifeInv' /\ Lifecycle
    <2>1. /\ UNCHANGED <<runs, active, pending, cancels, cancelReq, ctxDone, closed, shut, shutRun,
                         pc, plan, faults, restarts, userCancel, stopAsked, seq>>
          /\ requests' \subseteq requests
      BY <1>2 DEF RejectStart, registry, slots, cancellation, shutdown, goroutines, asked
    <2> QED
      BY <2>1 DEF LifeInv, InFlightOwnsSlot, StopReaches, StopQuiets, CleanShutdown,
         AskedInv, CanceledOnlyIfAsked, ReachInv, LeakInv, SlotHeldByLiveRun,
           DrivingInFlight, Lifecycle
  <1>3. ASSUME NEW q \in requests, NEW ok \in BOOLEAN, StartNow(q, ok)
        PROVE  LifeInv' /\ Lifecycle
    <2>1. /\ q.id \in RunIds /\ runs[q.id] = "absent" /\ ~closed /\ pc[q.id] = "none"
          /\ active # q.id /\ pending # q.id /\ q.id \notin userCancel
      BY <1>3 DEF TypeOK, SlotInv, IdsFresh, LifeInv, ReachInv, StartNow
    <2>2. /\ Upserted({q.id})
          /\ ok => runs'[q.id] = "queued"
          /\ ~ok => runs' = runs
      <3>1. Publish(Put(runs, q.id, "queued"), ok)
        BY <1>3 DEF StartNow
      <3> QED
        BY <2>1, <3>1, AdmitUpserts
    <2>3. /\ UNCHANGED <<pending, cancels, cancelReq, ctxDone, closed, shut, shutRun, plan, seq,
                         restarts, userCancel, stopAsked>>
          /\ requests' \subseteq requests
          /\ active' = IF ok THEN q.id ELSE active
          /\ pc' = IF ok THEN [pc EXCEPT ![q.id] = "launch"] ELSE pc
      BY <1>3 DEF StartNow, cancellation, shutdown, asked
    <2>4. \A x \in RunIds : runs[x] \in InFlight => pc[x] = "none"
      BY <1>3 DEF LifeInv, InFlightOwnsSlot, StartNow, IsActiveRun
    <2>5. /\ \A x \in RunIds \ {q.id} : runs'[x] \in {runs[x], "absent"} /\ pc'[x] = pc[x]
          /\ \A x \in RunIds \ {q.id} : runs[x] \in InFlight => runs'[x] = runs[x]
      BY <1>0, <2>2, <2>3 DEF Upserted
    <2>6. pc'[q.id] = IF ok THEN "launch" ELSE "none"
      BY <1>0, <2>1, <2>3
    <2>7. InFlightOwnsSlot'
      <3>1. \A x \in RunIds : pc[x] # "refused"
        BY <2>1 DEF LifeInv, InFlightOwnsSlot
      <3> QED
        BY <1>0, <2>1, <2>2, <2>3, <2>4, <2>5, <2>6, <3>1 DEF InFlightOwnsSlot
    <2>8. StopReaches' /\ StopQuiets'
      BY <2>1, <2>3 DEF LifeInv, StopReaches, StopQuiets, CleanShutdown
    <2>9. AskedInv'
      BY <1>0, <2>1, <2>2, <2>3, <2>5 DEF LifeInv, AskedInv, CanceledOnlyIfAsked
    <2>10. ReachInv'
      BY <1>0, <2>1, <2>3, <2>5, <2>6 DEF LifeInv, ReachInv, Called
    <2>11. LeakInv'
      <3>1. \A x \in RunIds : pc'[x] # "none" /\ runs'[x] = "absent" => Full(runs')
        BY <1>0, <2>1, <2>2, <2>5, <2>6 DEF LifeInv, LeakInv, Upserted
      <3>2. \A x \in RunIds : ~(pc'[x] = "finish" /\ runs'[x] \in InFlight)
        BY <1>0, <2>1, <2>2, <2>4, <2>5, <2>6
      <3>3. active' # NoRun => pc'[active'] # "none"
        BY <1>0, <2>1, <2>3, <2>5, <2>6 DEF LifeInv, LeakInv
      <3>4. SlotHeldByLiveRun'
        <4>1. CASE ok
          BY <2>3, <2>6, <4>1 DEF SlotHeldByLiveRun
        <4>2. CASE ~ok
          BY <1>0, <2>2, <2>3, <4>2 DEF LifeInv, LeakInv, SlotHeldByLiveRun, Upserted
        <4> QED
          BY <4>1, <4>2
      <3> QED
        BY <3>1, <3>2, <3>3, <3>4 DEF LeakInv
    <2>12. DrivingInFlight'
      BY <1>0, <2>1, <2>2, <2>3, <2>5, <2>6 DEF LifeInv, DrivingInFlight, Driving
    <2>13. Lifecycle
      BY <1>0, <2>1, <2>2, <2>5 DEF Lifecycle
    <2> QED
      BY <2>7, <2>8, <2>9, <2>10, <2>11, <2>12, <2>13 DEF LifeInv
  <1>4. ASSUME NEW q \in requests, NEW ok \in BOOLEAN,
               QueueFirst(q, ok) \/ QueueSupersede(q, ok)
        PROVE  LifeInv' /\ Lifecycle
    <2>1. /\ q.id \in RunIds /\ runs[q.id] = "absent" /\ ~closed /\ pc[q.id] = "none"
          /\ active # q.id /\ pending # q.id /\ q.id \notin userCancel /\ q.id # NoRun
          /\ pending # NoRun => pending \in RunIds /\ pc[pending] = "none" /\ pending # active
      BY <1>0, <1>4 DEF TypeOK, SlotInv, IdsFresh, PendingIsParked, LifeInv, ReachInv, QueueFirst,
         QueueSupersede
    <2>2. /\ Upserted({q.id, pending})
          /\ ok => runs'[q.id] = "queued"
          /\ ok /\ pending \in RunIds => runs'[pending] \in {"superseded", "absent"}
          /\ ~ok => runs' = runs
      <3>1. CASE QueueSupersede(q, ok)
        BY <1>0, <2>1, <3>1, UpsertsTwo DEF QueueSupersede
      <3>2. CASE QueueFirst(q, ok)
        <4>1. Publish(Put(runs, q.id, "queued"), ok) /\ pending = NoRun
          BY <3>2 DEF QueueFirst
        <4>2. Upserted({q.id}) /\ (ok => runs'[q.id] = "queued") /\ (~ok => runs' = runs)
          BY <2>1, <4>1, AdmitUpserts
        <4> QED
          BY <4>1, <4>2 DEF Upserted
      <3> QED
        BY <1>4, <3>1, <3>2
    <2>3. /\ UNCHANGED <<active, cancels, cancelReq, ctxDone, closed, shut, shutRun, pc, plan, seq,
                         restarts, userCancel, stopAsked>>
          /\ requests' \subseteq requests
          /\ pending' = IF ok THEN q.id ELSE pending
      BY <1>4 DEF QueueFirst, QueueSupersede, cancellation, shutdown, goroutines, asked
    <2>4. /\ \A x \in RunIds : pc[x] # "none" => runs'[x] \in {runs[x], "absent"}
          /\ \A x \in RunIds : pc[x] # "none" /\ runs[x] \in InFlight => runs'[x] = runs[x]
          /\ \A x \in RunIds : runs'[x] = "canceled" => runs[x] = "canceled"
      BY <1>0, <2>1, <2>2 DEF Upserted
    <2>5. InFlightOwnsSlot'
      BY <1>0, <2>3, <2>4 DEF LifeInv, InFlightOwnsSlot
    <2>6. StopReaches' /\ StopQuiets'
      BY <2>1, <2>3 DEF LifeInv, StopReaches, StopQuiets, CleanShutdown
    <2>7. AskedInv'
      BY <2>3, <2>4 DEF LifeInv, AskedInv, CanceledOnlyIfAsked
    <2>8. ReachInv'
      BY <2>1, <2>3 DEF LifeInv, ReachInv
    <2>9. LeakInv'
      <3>1. \A x \in RunIds : pc[x] # "none" /\ runs'[x] = "absent" => Full(runs')
        BY <2>2, <2>4 DEF LifeInv, LeakInv, Upserted
      <3>2. \A x \in RunIds : pc[x] = "finish" /\ runs'[x] \in InFlight => faults' > 0
        BY <1>0, <2>2, <2>4 DEF LifeInv, LeakInv, Upserted
      <3>3. SlotHeldByLiveRun'
        <4> SUFFICES ASSUME ~closed, active # NoRun, pc[active] = "done"
                     PROVE  \/ faults' > 0 /\ runs'[active] \in InFlight
                            \/ runs'[active] = "absent" /\ Full(runs')
          BY <2>3 DEF LifeInv, LeakInv, SlotHeldByLiveRun, Full
        <4>1. \/ faults > 0 /\ runs[active] \in InFlight
              \/ runs[active] = "absent" /\ Full(runs)
          BY DEF LifeInv, LeakInv, SlotHeldByLiveRun, Full
        <4> QED
          BY <1>0, <2>2, <2>4, <4>1 DEF Upserted
      <3> QED
        BY <2>3, <3>1, <3>2, <3>3 DEF LifeInv, LeakInv
    <2>10. DrivingInFlight'
      BY <1>0, <2>3, <2>4 DEF LifeInv, DrivingInFlight, Driving
    <2>11. Lifecycle
      BY <1>0, <2>1, <2>2 DEF Lifecycle, Upserted
    <2> QED
      BY <2>5, <2>6, <2>7, <2>8, <2>9, <2>10, <2>11 DEF LifeInv
  <1>5. ASSUME NEW r \in RunIds, NEW ok \in BOOLEAN, CancelPending(r, ok)
        PROVE  LifeInv' /\ Lifecycle
    <2>1. /\ pending = r /\ r # NoRun /\ runs[r] = "queued" /\ pc[r] = "none" /\ r # active
          /\ r <= seq /\ \A q \in requests : q.id # r
      BY <1>0, <1>5 DEF CancelPending, SlotInv, PendingIsParked, IdsFresh, RunIds
    <2>2. /\ Upserted({r})
          /\ ok => runs'[r] \in {"canceled", "absent"}
          /\ ~ok => runs' = runs
      <3>1. "canceled" \in RunState \ {"absent"} /\ Publish(Put(runs, r, "canceled"), ok)
            /\ ~IsTerminal(runs[r])
        BY <2>1, <1>5 DEF CancelPending, IsTerminal, Terminal
      <3> QED
        BY <3>1, UpsertsOne
    <2>3. /\ UNCHANGED <<active, cancels, ctxDone, closed, shut, shutRun, pc, plan, requests, seq,
                         restarts, stopAsked>>
          /\ pending' = IF ok THEN NoRun ELSE pending
          /\ cancelReq' = IF ok THEN cancelReq \ {r} ELSE cancelReq
          /\ userCancel' = IF ok THEN userCancel \cup {r} ELSE userCancel
      BY <1>5 DEF CancelPending, shutdown, goroutines, arrivals
    <2>4. /\ \A x \in RunIds : pc[x] # "none" => runs'[x] \in {runs[x], "absent"}
          /\ \A x \in RunIds : pc[x] # "none" /\ runs[x] \in InFlight => runs'[x] = runs[x]
          /\ \A x \in RunIds : runs'[x] = "canceled" => runs[x] = "canceled" \/ x \in userCancel'
          /\ \A x \in RunIds : runs'[x] \in InFlight => runs[x] \in InFlight
      BY <1>0, <2>1, <2>2, <2>3 DEF Upserted, InFlight
    <2>5. InFlightOwnsSlot'
      BY <1>0, <2>3, <2>4 DEF LifeInv, InFlightOwnsSlot
    <2>6. StopReaches'
      BY <2>3, <2>4 DEF LifeInv, StopReaches
    <2>7. StopQuiets'
      BY <1>0, <2>1, <2>3, <2>4 DEF LifeInv, StopQuiets, CleanShutdown
    <2>8. AskedInv'
      BY <2>3, <2>4 DEF LifeInv, AskedInv, CanceledOnlyIfAsked
    <2>9. ReachInv'
      BY <1>0, <2>1, <2>3 DEF LifeInv, ReachInv, Called
    <2>10. LeakInv'
      <3>1. \A x \in RunIds : pc[x] # "none" /\ runs'[x] = "absent" => Full(runs')
        BY <2>2, <2>4 DEF LifeInv, LeakInv, Upserted
      <3>2. \A x \in RunIds : pc[x] = "finish" /\ runs'[x] \in InFlight => faults' > 0
        BY <1>0, <2>2, <2>4 DEF LifeInv, LeakInv, Upserted
      <3>3. SlotHeldByLiveRun'
        <4> SUFFICES ASSUME ~closed, active # NoRun, pc[active] = "done"
                     PROVE  \/ faults' > 0 /\ runs'[active] \in InFlight
                            \/ runs'[active] = "absent" /\ Full(runs')
          BY <2>3 DEF LifeInv, LeakInv, SlotHeldByLiveRun, Full
        <4>1. \/ faults > 0 /\ runs[active] \in InFlight
              \/ runs[active] = "absent" /\ Full(runs)
          BY DEF LifeInv, LeakInv, SlotHeldByLiveRun, Full
        <4> QED
          BY <1>0, <2>2, <2>4, <4>1 DEF Upserted
      <3> QED
        BY <2>3, <3>1, <3>2, <3>3 DEF LifeInv, LeakInv
    <2>11. DrivingInFlight'
      BY <1>0, <2>3, <2>4 DEF LifeInv, DrivingInFlight, Driving
    <2>12. Lifecycle
      BY <1>0, <2>1, <2>2 DEF Lifecycle, Upserted
    <2> QED
      BY <2>5, <2>6, <2>7, <2>8, <2>9, <2>10, <2>11, <2>12 DEF LifeInv
  <1>6. ASSUME NEW r \in RunIds, CancelActive(r) PROVE LifeInv' /\ Lifecycle
    <2>1. /\ pending # r /\ active = r /\ r # NoRun /\ r <= seq /\ \A q \in requests : q.id # r
      BY <1>0, <1>6 DEF CancelActive, SlotInv, IdsFresh, RunIds
    <2>2. /\ UNCHANGED <<runs, active, pending, cancels, closed, shut, shutRun, pc, plan, requests,
                         seq, faults, restarts, stopAsked>>
          /\ cancelReq' = cancelReq \cup {r} /\ userCancel' = userCancel \cup {r}
          /\ ctxDone' = IF r \in cancels THEN ctxDone \cup {r} ELSE ctxDone
      BY <1>6 DEF CancelActive, registry, slots, shutdown, goroutines, arrivals
    <2>3. ReachInv'
      BY <2>1, <2>2 DEF LifeInv, ReachInv
    <2>4. AskedInv'
      BY <2>2 DEF LifeInv, AskedInv, CanceledOnlyIfAsked
    <2> QED
      BY <2>2, <2>3, <2>4 DEF LifeInv, InFlightOwnsSlot, StopReaches, StopQuiets, CleanShutdown,
         LeakInv, SlotHeldByLiveRun, DrivingInFlight, Lifecycle
  <1> QED
    BY <1>1, <1>2, <1>3, <1>4, <1>5, <1>6 DEF Request

\* Shutdown, the end of its waits and its deadline keep LifeInv.
LEMMA LifeShutdown ==
    ASSUME TypeOK, SlotInv, LifeInv,
           \/ \E ok \in BOOLEAN : Shutdown(ok)
           \/ ShutdownDone
           \/ \E ok \in BOOLEAN : ShutdownTimeout(ok)
    PROVE  LifeInv' /\ Lifecycle
  <1> USE RunStateMembers
  <1>0. /\ pc \in [RunIds -> PC] /\ runs \in [RunIds -> RunState]
        /\ active \in RunIds \cup {NoRun} /\ pending \in RunIds \cup {NoRun}
        /\ userCancel \subseteq RunIds /\ faults \in Nat /\ seq \in Nat /\ cancels \subseteq RunIds
        /\ "canceled" \in RunState \ {"absent"}
        /\ IsTerminal("canceled") /\ "canceled" \notin InFlight
        /\ \A s \in InFlight : s # "absent" /\ s # "canceled" /\ ~IsTerminal(s)
    BY DEF TypeOK, InFlight, IsTerminal, Terminal
  <1>1. ASSUME NEW ok \in BOOLEAN, Shutdown(ok) PROVE LifeInv' /\ Lifecycle
    <2>1. /\ closed' = TRUE /\ shutRun' = active /\ ctxDone' = ctxDone \cup cancels
          /\ UNCHANGED <<active, cancels, cancelReq, pc, plan, requests, seq, restarts, userCancel>>
          /\ stopAsked' = stopAsked \cup InFlightRuns
          /\ shut' = IF active = NoRun THEN (IF ok THEN "ok" ELSE "error")
                     ELSE IF ok THEN "waiting" ELSE "waitingErr"
          /\ ~closed /\ shut = "open"
      BY <1>1 DEF Shutdown, goroutines, arrivals, LifeInv, StopReaches
    <2>2. /\ Upserted({pending})
          /\ \A x \in RunIds : runs'[x] = "canceled" => runs[x] = "canceled" \/ x \in stopAsked'
          /\ pending \in RunIds /\ ok => runs'[pending] \in {"canceled", "absent"}
          /\ pending \notin RunIds \/ ~ok => runs' = runs
          /\ pending' = IF ok THEN NoRun ELSE pending
      <3>1. CASE pending # NoRun
        <4>1. pending \in RunIds /\ Publish(Put(runs, pending, "canceled"), ok)
              /\ pending' = (IF ok THEN NoRun ELSE pending)
          BY <1>0, <1>1, <3>1 DEF Shutdown
        <4>2. runs[pending] \in InFlight /\ ~IsTerminal(runs[pending]) /\ pending \in stopAsked'
          BY <1>0, <2>1, <3>1, <4>1 DEF SlotInv, PendingIsParked, InFlightRuns, InFlight
        <4>3. /\ Upserted({pending})
              /\ ok => runs'[pending] \in {"canceled", "absent"}
              /\ ~ok => runs' = runs
          BY <1>0, <4>1, <4>2, UpsertsOne
        <4> QED
          BY <1>0, <4>1, <4>2, <4>3 DEF Upserted
      <3>2. CASE pending = NoRun
        BY <1>1, <3>2, UpsertsNone DEF Shutdown
      <3> QED
        BY <3>1, <3>2
    <2>3. pending \in RunIds => pc[pending] = "none"
      BY DEF SlotInv, PendingIsParked
    <2>4. /\ \A x \in RunIds : pc[x] # "none" => runs'[x] \in {runs[x], "absent"}
          /\ \A x \in RunIds : pc[x] # "none" /\ runs[x] \in InFlight => runs'[x] = runs[x]
          /\ \A x \in RunIds : runs'[x] \in InFlight => runs[x] \in InFlight /\ runs'[x] = runs[x]
          /\ \A x \in RunIds : runs'[x] \in {runs[x], "absent", "canceled"}
      BY <1>0, <2>2, <2>3 DEF Upserted
    <2>5. InFlightOwnsSlot'
      BY <2>1, <2>4 DEF LifeInv, InFlightOwnsSlot
    <2>6. StopReaches'
      <3>1. \A x \in RunIds : pc[x] # "refused"
        BY <2>1 DEF LifeInv, InFlightOwnsSlot
      <3>2. \A x \in RunIds : pc[x] \in Driving => runs[x] \in InFlight
        BY <2>1 DEF SlotInv, DrivingOwnsSlot
      <3>3. \A x \in RunIds : runs[x] \in InFlight => x \in stopAsked'
        BY <2>1 DEF InFlightRuns
      <3>4. closed' /\ shut' # "open"
        BY <2>1
      <3> QED
        BY <2>1, <2>4, <3>1, <3>2, <3>3, <3>4 DEF StopReaches
    <2>7. StopQuiets'
      <3>1. shut' = "ok" => \A x \in RunIds :
               pc[x] \notin Driving \cup {"refused"} /\ (pc[x] # "none" => runs'[x] \notin InFlight)
        BY <2>1, <2>4 DEF LifeInv, InFlightOwnsSlot, SlotInv, DrivingOwnsSlot
      <3> QED
        BY <2>1, <2>2, <3>1 DEF StopQuiets, CleanShutdown
    <2>8. AskedInv'
      BY <2>1, <2>2 DEF LifeInv, AskedInv, CanceledOnlyIfAsked
    <2>9. ReachInv'
      BY <1>0, <2>1, <2>2 DEF LifeInv, ReachInv
    <2>10. LeakInv'
      <3>1. \A x \in RunIds : pc[x] # "none" /\ runs'[x] = "absent" => Full(runs')
        BY <2>2, <2>4 DEF LifeInv, LeakInv, Upserted
      <3>2. \A x \in RunIds : pc[x] = "finish" /\ runs'[x] \in InFlight => faults' > 0
        BY <1>0, <2>2, <2>4 DEF LifeInv, LeakInv, Upserted
      <3>3. SlotHeldByLiveRun'
        BY <2>1 DEF SlotHeldByLiveRun
      <3> QED
        BY <2>1, <3>1, <3>2, <3>3 DEF LifeInv, LeakInv
    <2>11. DrivingInFlight'
      BY <2>1, <2>4 DEF SlotInv, DrivingOwnsSlot, DrivingInFlight, Driving
    <2>12. Lifecycle
      BY <1>0, <2>4 DEF Lifecycle
    <2> QED
      BY <2>5, <2>6, <2>7, <2>8, <2>9, <2>10, <2>11, <2>12 DEF LifeInv
  <1>2. ASSUME ShutdownDone PROVE LifeInv' /\ Lifecycle
    <2>1. /\ UNCHANGED <<runs, active, pending, cancels, cancelReq, ctxDone, closed, shutRun,
                         pc, plan, requests, seq, faults, restarts, userCancel, stopAsked>>
          /\ shut \in {"waiting", "waitingErr"}
          /\ shut' = IF shut = "waiting" THEN "ok" ELSE "error"
          /\ SlotQuiet /\ Live = {}
      BY <1>2 DEF ShutdownDone, registry, slots, cancellation, goroutines, arrivals, asked
    <2>2. CASE shut = "waiting"
      <3>1. pending = NoRun /\ active = NoRun
        BY <2>1, <2>2 DEF LifeInv, StopQuiets, SlotQuiet
      <3>2. \A x \in RunIds :
               /\ pc[x] \notin Driving \cup {"refused"}
               /\ pc[x] # "none" => runs[x] \notin InFlight
        <4> SUFFICES ASSUME NEW x \in RunIds
                     PROVE  /\ pc[x] \notin Driving \cup {"refused"}
                            /\ pc[x] # "none" => runs[x] \notin InFlight
          OBVIOUS
        <4>1. active # x
          BY <3>1
        <4> QED
          BY <4>1 DEF LifeInv, InFlightOwnsSlot, SlotInv, DrivingOwnsSlot
      <3>3. CleanShutdown'
        BY <2>1, <3>1, <3>2 DEF CleanShutdown
      <3>4. StopQuiets'
        BY <2>1, <2>2, <3>1, <3>3 DEF StopQuiets
      <3>5. StopReaches'
        BY <2>1, <2>2 DEF LifeInv, StopReaches
      <3>6. InFlightOwnsSlot' /\ AskedInv' /\ ReachInv' /\ Lifecycle
        BY <2>1 DEF LifeInv, InFlightOwnsSlot, AskedInv, CanceledOnlyIfAsked, ReachInv, Lifecycle
      <3>7. LeakInv' /\ DrivingInFlight'
        BY <2>1, <2>2 DEF LifeInv, LeakInv, SlotHeldByLiveRun, DrivingInFlight
      <3> QED
        BY <3>3, <3>4, <3>5, <3>6, <3>7 DEF LifeInv
    <2>3. CASE shut = "waitingErr"
      BY <2>1, <2>3 DEF LifeInv, InFlightOwnsSlot, StopReaches, StopQuiets, CleanShutdown,
           AskedInv, CanceledOnlyIfAsked, ReachInv, LeakInv, SlotHeldByLiveRun,
           DrivingInFlight, Lifecycle
    <2> QED
      BY <2>1, <2>2, <2>3
  <1>3. ASSUME NEW ok \in BOOLEAN, ShutdownTimeout(ok) PROVE LifeInv' /\ Lifecycle
    <2>1. /\ UNCHANGED <<active, pending, cancels, cancelReq, ctxDone, closed, shutRun,
                         pc, plan, requests, seq, restarts, userCancel, stopAsked>>
          /\ shut' = "error" /\ shutRun \in RunIds /\ closed
      BY <1>3 DEF ShutdownTimeout, slots, cancellation, goroutines, arrivals, asked, TypeOK,
         SlotInv, ShutdownTarget
    <2>2. /\ Upserted({shutRun})
          /\ \/ runs' = runs
             \/ runs[shutRun] \in InFlight /\ runs'[shutRun] \in {"canceled", "absent"}
      <3>1. CASE runs[shutRun] \in InFlight /\ Publish(Put(runs, shutRun, "canceled"), ok)
        <4>1. /\ Upserted({shutRun})
              /\ ok => runs'[shutRun] \in {"canceled", "absent"}
              /\ ~ok => runs' = runs
          BY <1>0, <2>1, <3>1, UpsertsOne
        <4> QED
          BY <3>1, <4>1
      <3>2. CASE UNCHANGED <<runs, history, faults>>
        BY <3>2, UpsertsNone
      <3> QED
        BY <1>3, <3>1, <3>2 DEF ShutdownTimeout
    <2>3. /\ \A x \in RunIds : runs'[x] \in InFlight => runs[x] \in InFlight /\ runs'[x] = runs[x]
          /\ \A x \in RunIds : runs'[x] \in {runs[x], "absent", "canceled"}
          /\ \A x \in RunIds : runs'[x] = "canceled" => runs[x] = "canceled" \/ runs[x] \in InFlight
      BY <1>0, <2>1, <2>2 DEF Upserted
    <2>4. InFlightOwnsSlot' /\ DrivingInFlight'
      BY <2>1, <2>3 DEF LifeInv, InFlightOwnsSlot, DrivingInFlight
    <2>5. StopReaches' /\ StopQuiets'
      BY <2>1, <2>3 DEF LifeInv, StopReaches, StopQuiets, CleanShutdown
    <2>6. AskedInv'
      BY <2>1, <2>3 DEF LifeInv, StopReaches, AskedInv, CanceledOnlyIfAsked
    <2>7. ReachInv'
      BY <2>1 DEF LifeInv, ReachInv
    <2>8. LeakInv'
      <3>1. \A x \in RunIds : pc[x] # "none" /\ runs'[x] = "absent" => Full(runs')
        BY <2>2 DEF LifeInv, LeakInv, Upserted
      <3>2. \A x \in RunIds : pc[x] = "finish" /\ runs'[x] \in InFlight => faults' > 0
        BY <1>0, <2>2, <2>3 DEF LifeInv, LeakInv, Upserted
      <3>3. SlotHeldByLiveRun'
        BY <2>1 DEF SlotHeldByLiveRun
      <3> QED
        BY <2>1, <3>1, <3>2, <3>3 DEF LifeInv, LeakInv
    <2>9. Lifecycle
      BY <1>0, <2>3 DEF Lifecycle
    <2> QED
      BY <2>4, <2>5, <2>6, <2>7, <2>8, <2>9 DEF LifeInv
  <1> QED
    BY <1>1, <1>2, <1>3

\* A restart keeps LifeInv: it resumes at most one run and forgets every request.
LEMMA LifeRestart ==
    ASSUME TypeOK, SlotInv, PublishedIsDurable, LifeInv,
           NEW c \in RunIds \cup {NoRun}, NEW ok \in BOOLEAN, Restart(c, ok)
    PROVE  LifeInv' /\ Lifecycle
  <1> USE RunStateMembers
  <1>1. /\ active' = c /\ pending' = NoRun /\ closed' = FALSE /\ shut' = "open" /\ shutRun' = NoRun
        /\ cancels' = {} /\ cancelReq' = {} /\ ctxDone' = {} /\ requests' = {}
        /\ plan' = [r \in RunIds |-> "none"] /\ restarts' = restarts + 1
        /\ UNCHANGED <<seq, userCancel, stopAsked>>
        /\ pc' = [r \in RunIds |-> IF r = c THEN "launch" ELSE "none"]
        /\ restarts \in Nat /\ userCancel \subseteq RunIds
    BY DEF Restart, asked, TypeOK
  <1>2. c \in RunIds => history[c] = "running" /\ runs[c] = "running" /\ runs'[c] = "running"
    BY DEF Restart, ResumeChoices, Reconciled, PublishedIsDurable
  <1>3. \A x \in RunIds : runs'[x] \in {history[x], "reconciled"}
    BY DEF Restart, Reconciled
  <1>4. \A x \in RunIds : history[x] \in {runs[x], "absent"}
    BY DEF PublishedIsDurable
  <1>5. \A x \in RunIds :
          pc'[x] # "none" => x = c /\ pc'[x] = "launch" /\ runs'[x] = "running" /\ active' = x
    BY <1>1, <1>2
  <1>6. "running" \in InFlight /\ "running" # "absent"
    BY DEF InFlight
  <1>7. InFlightOwnsSlot' /\ DrivingInFlight'
    BY <1>1, <1>5, <1>6 DEF InFlightOwnsSlot, DrivingInFlight, Driving
  <1>8. StopReaches' /\ StopQuiets'
    BY <1>1 DEF StopReaches, StopQuiets, CleanShutdown
  <1>9. AskedInv'
    BY <1>1, <1>3, <1>4 DEF LifeInv, AskedInv, CanceledOnlyIfAsked
  <1>10. ReachInv'
    <2>1. \A x \in RunIds : pc'[x] \notin Called
      BY <1>1 DEF Called
    <2>2. restarts' # 0
      BY <1>1 DEF TypeOK
    <2>4. pending' \notin userCancel'
      <3>1. NoRun \notin RunIds /\ userCancel' = userCancel /\ userCancel \subseteq RunIds
        BY <1>1
      <3> QED
        BY <1>1, <3>1
    <2>3. \A x \in userCancel' : x <= seq' /\ \A q \in requests' : q.id # x
      BY <1>1 DEF LifeInv, ReachInv
    <2> QED
      BY <2>1, <2>2, <2>3, <2>4 DEF ReachInv
  <1>11. LeakInv'
    <2>1. active' # NoRun => pc'[active'] = "launch"
      BY <1>1
    <2> QED
      BY <1>5, <1>6, <2>1 DEF LeakInv, SlotHeldByLiveRun
  <1>12. Lifecycle
    BY <1>3, <1>4 DEF Lifecycle
  <1> QED
    BY <1>7, <1>8, <1>9, <1>10, <1>11, <1>12 DEF LifeInv

\* LifeInv is an invariant, on top of the types, the slot and the history file.
LEMMA LifeAlways == Spec => [](TypeOK /\ SlotInv /\ PublishedIsDurable /\ LifeInv)
  <1>1. Init => LifeInv
    <2> SUFFICES ASSUME Init PROVE LifeInv
      OBVIOUS
    <2>1. \A r \in RunIds : pc[r] = "none" /\ runs[r] = "absent" /\ plan[r] = "none"
      BY DEF Init
    <2>2. InFlightOwnsSlot /\ StopReaches /\ DrivingInFlight
      BY <2>1 DEF Init, InFlightOwnsSlot, StopReaches, DrivingInFlight, Driving
    <2>3. StopQuiets /\ AskedInv
      BY <2>1 DEF Init, StopQuiets, CleanShutdown, AskedInv, CanceledOnlyIfAsked
    <2>4. ReachInv /\ LeakInv
      BY <2>1 DEF Init, ReachInv, Called, LeakInv, SlotHeldByLiveRun
    <2> QED
      BY <2>2, <2>3, <2>4 DEF LifeInv
  <1>2. TypeOK /\ SlotInv /\ PublishedIsDurable /\ LifeInv /\ [Next]_vars => LifeInv'
    <2> SUFFICES ASSUME TypeOK, SlotInv, PublishedIsDurable, LifeInv, [Next]_vars
                 PROVE  LifeInv'
      OBVIOUS
    <2>1. CASE Next
      BY <2>1, LifeGoroutine, LifeFinish, LifeRequest, LifeShutdown, LifeRestart DEF Next
    <2>2. CASE UNCHANGED vars
      BY <2>2 DEF vars, registry, slots, cancellation, shutdown, goroutines, arrivals, asked,
         LifeInv, InFlightOwnsSlot, StopReaches, StopQuiets, CleanShutdown, AskedInv,
         CanceledOnlyIfAsked, ReachInv, LeakInv, SlotHeldByLiveRun, DrivingInFlight
    <2> QED
      BY <2>1, <2>2
  <1> QED
    BY <1>1, <1>2, TypeCorrect, SlotSafety, Durability, PTL DEF Spec

\* A run is recorded as canceled only if CancelRun answered a cancel of it with
\* success or a Shutdown found it in flight (classifyRunFailure, CancelRun, Shutdown).
THEOREM CancelsAreAsked == Spec => []CanceledOnlyIfAsked
  <1>1. LifeInv => CanceledOnlyIfAsked
    BY DEF LifeInv, AskedInv
  <1> QED
    BY <1>1, LifeAlways, PTL

\* A cancel answered with success is in the context of the run whatever critical
\* section it hit, the one between admission and launch included (CancelRun,
\* launchAsyncRun).
THEOREM CancelsReach == Spec => []CancelReachesRun
  <1>1. LifeInv => CancelReachesRun
    <2> SUFFICES ASSUME LifeInv, NEW r \in userCancel, restarts = 0, pc[r] \in Called
                 PROVE  r \in ctxDone
      BY DEF CancelReachesRun, Called
    <2> QED
      BY DEF LifeInv, ReachInv
  <1> QED
    BY <1>1, LifeAlways, PTL

\* When Shutdown reports success nothing is pending, driving or in flight
\* (Shutdown, waitForRunTerminal, waitForAsyncRuns).
THEOREM ShutdownIsClean == Spec => []CleanShutdown
  <1>1. LifeInv => CleanShutdown
    BY DEF LifeInv, StopQuiets
  <1> QED
    BY <1>1, LifeAlways, PTL

\* In an open service the slot is held by a goroutine that goes on, unless a history
\* write failed or retention dropped the record finishAsyncRun looks for.
THEOREM SlotIsNotLeaked == Spec => []SlotHeldByLiveRun
  <1>1. LifeInv => SlotHeldByLiveRun
    BY DEF LifeInv, LeakInv
  <1> QED
    BY <1>1, LifeAlways, PTL

\* A run enters the registry as queued and runs only from queued, except from a
\* goroutine that outlives the deadline of Shutdown (upsertRunsLocked, Shutdown).
THEOREM RunsKeepOrder == Spec => LifecycleOrder
  <1>1. TypeOK /\ SlotInv /\ PublishedIsDurable /\ LifeInv /\ [Next]_vars
          => [\A r \in RunIds :
                runs'[r] # runs[r] =>
                  /\ runs'[r] = "queued" => runs[r] = "absent"
                  /\ runs'[r] = "running" =>
                        runs[r] = "queued" \/ (runs[r] = "absent" /\ shut = "error")]_vars
    <2> SUFFICES ASSUME TypeOK, SlotInv, PublishedIsDurable, LifeInv, Next PROVE Lifecycle
      BY DEF Lifecycle
    <2> QED
      BY LifeGoroutine, LifeFinish, LifeRequest, LifeShutdown, LifeRestart DEF Next
  <1> QED
    BY <1>1, LifeAlways, PTL DEF Spec, LifecycleOrder

-----------------------------------------------------------------------------
(***************************************************************************)
(* The contract: each critical section is one step of RunContract.         *)
(***************************************************************************)

\* What the contract allows the records outside S.
Kept(S) ==
    \A x \in RunIds \ S :
        \/ Shown(runs'[x]) = Shown(runs[x])
        \/ Shown(runs[x]) = "ended" /\ Shown(runs'[x]) = "absent"

\* The contract sees whether a record is absent, queued, running or terminal.
LEMMA ShownCases ==
    ASSUME NEW s \in RunState
    PROVE  /\ Shown(s) = "ended" <=> IsTerminal(s)
           /\ \A t \in {"absent", "queued", "running"} : Shown(s) = t <=> s = t
           /\ Shown(s) \in InFlight <=> s \in InFlight
           /\ s \in InFlight \/ IsTerminal(s) \/ s = "absent"
  BY DEF RunState, Shown, IsTerminal, InFlight, Terminal

\* The abbreviations of the contract over the state of the service.
LEMMA ContractView ==
    ASSUME TypeOK
    PROVE  /\ \A S : Contract!Others(S) <=> Kept(S)
           /\ \A x \in RunIds : Contract!Over(x) <=> Shown(runs'[x]) \in {"ended", "absent"}
           /\ Contract!Busy <=> IsActiveRun
  <1>1. \A S : Contract!Others(S) <=> Kept(S)
    BY DEF Contract!Others, Kept
  <1>2. \A x \in RunIds : Contract!Over(x) <=> Shown(runs'[x]) \in {"ended", "absent"}
    BY DEF Contract!Over
  <1>3. active # NoRun => active \in RunIds /\ runs[active] \in RunState
    BY DEF TypeOK
  <1>4. Contract!Busy <=> IsActiveRun
    BY <1>3, ShownCases DEF Contract!Busy, Contract!InFlight, IsActiveRun, InFlight
  <1> QED
    BY <1>1, <1>2, <1>4

\* What an upsert leaves alone and what it trims keeps the contract.
LEMMA UpsertedIsKept ==
    ASSUME TypeOK, TypeOK', NEW S, Upserted(S)
    PROVE  Kept(S)
  <1> SUFFICES ASSUME NEW x \in RunIds \ S
               PROVE  \/ Shown(runs'[x]) = Shown(runs[x])
                      \/ Shown(runs[x]) = "ended" /\ Shown(runs'[x]) = "absent"
    BY DEF Kept
  <1>1. runs[x] \in RunState /\ runs'[x] \in RunState
    BY DEF TypeOK
  <1>2. runs'[x] \in {runs[x], "absent"} /\ (runs[x] \in InFlight => runs'[x] = runs[x])
    BY DEF Upserted
  <1> QED
    BY <1>1, <1>2, ShownCases

\* A step that moves no record, slot or gate of the contract drops ended records or nothing.
LEMMA Idles ==
    ASSUME TypeOK, UNCHANGED <<active, pending, closed>>, Kept({}) \/ runs' = runs
    PROVE  Contract!Next
  <1>1. Kept({})
    BY DEF Kept
  <1> QED
    BY <1>1, ContractView DEF Contract!Next, Contract!Drop

\* A Shutdown that waits has captured a run that was launched.
WaitsForLaunched == shut \in {"waiting", "waitingErr"} => pc[shutRun] # "none"

LEMMA WaitsForLaunchedStep ==
    ASSUME TypeOK, LifeInv, WaitsForLaunched, [Next]_vars
    PROVE  WaitsForLaunched'
  <1>0. /\ pc \in [RunIds -> PC] /\ active \in RunIds \cup {NoRun} /\ requests \subseteq [id : RunIds, intent : Intents]
        /\ shut \in {"waiting", "waitingErr"} => shutRun \in RunIds
        /\ active # NoRun => pc[active] # "none"
    BY DEF TypeOK, LifeInv, LeakInv
  <1>1. CASE UNCHANGED <<shut, shutRun>> /\ \A x \in RunIds : pc[x] # "none" => pc'[x] # "none"
    BY <1>0, <1>1 DEF WaitsForLaunched
  <1>2. CASE Request
    <2>1. UNCHANGED <<shut, shutRun>>
      BY <1>2 DEF Request, Arrive, RejectStart, StartNow, QueueFirst, QueueSupersede,
         CancelPending, CancelActive, shutdown
    <2>2. \A x \in RunIds : pc[x] # "none" => pc'[x] # "none"
      BY <1>0, <1>2 DEF Request, Arrive, RejectStart, StartNow, QueueFirst, QueueSupersede,
         CancelPending, CancelActive, goroutines
    <2> QED
      BY <1>1, <2>1, <2>2
  <1>3. CASE \E r \in RunIds : RunStep(r) \/ \E ok \in BOOLEAN : Progress(r, ok)
    <2>1. PICK r \in RunIds : RunStep(r) \/ \E ok \in BOOLEAN : Progress(r, ok)
      BY <1>3
    <2>2. UNCHANGED <<shut, shutRun>>
      BY <2>1 DEF RunStep, Launch, Refuse, Boot, Progress, Succeed, PartialFail, ExecutionError,
         Classify, StoreFailure, Finish, shutdown
    <2>3. \A x \in RunIds : pc[x] # "none" => pc'[x] # "none"
      BY <1>0, <2>1 DEF RunStep, Launch, Refuse, Boot, Progress, Succeed, PartialFail,
         ExecutionError, Classify, StoreFailure, Finish, Goto, AfterFailure
    <2> QED
      BY <1>1, <2>2, <2>3
  <1>4. CASE \E ok \in BOOLEAN : Shutdown(ok)
    BY <1>0, <1>4 DEF Shutdown, WaitsForLaunched, goroutines
  <1>5. CASE ShutdownDone \/ \E ok \in BOOLEAN : ShutdownTimeout(ok)
    BY <1>5 DEF ShutdownDone, ShutdownTimeout, WaitsForLaunched
  <1>6. CASE \E c \in RunIds \cup {NoRun}, ok \in BOOLEAN : Restart(c, ok)
    BY <1>6 DEF Restart, WaitsForLaunched
  <1>7. CASE UNCHANGED vars
    BY <1>1, <1>7 DEF vars, shutdown, goroutines
  <1> QED
    BY <1>2, <1>3, <1>4, <1>5, <1>6, <1>7 DEF Next

\* A store of the record of r by a goroutine or a Shutdown that r has the slot for.
LEMMA ContractWrite ==
    ASSUME TypeOK, TypeOK', SlotInv, LifeInv, NEW r \in RunIds, Upserted({r}),
           pc[r] # "none", UNCHANGED <<active, pending, closed>>,
           NEW s \in {"running", "succeeded", "failed", "canceled"},
           runs'[r] \in {runs[r], s, "absent"},
           IsTerminal(runs[r]) => runs'[r] \notin InFlight,
           runs[r] = "absent" => runs'[r] = "absent" \/ pc[r] \in Driving
    PROVE  Contract!Next
  <1>0. /\ runs[r] \in RunState /\ runs'[r] \in RunState /\ r # NoRun
        /\ Kept({r})
        /\ runs[r] \in InFlight \/ pc[r] \in Driving => active = r
        /\ pc[r] \in Driving => runs[r] \in InFlight \/ closed
    BY UpsertedIsKept, RunStateMembers
       DEF TypeOK, SlotInv, DrivingOwnsSlot, LifeInv, InFlightOwnsSlot
  <1>1. CASE Shown(runs'[r]) = Shown(runs[r]) \/ (Shown(runs[r]) = "ended" /\ Shown(runs'[r]) = "absent")
    <2>1. Kept({})
      BY <1>0, <1>1 DEF Kept
    <2> QED
      BY <2>1, Idles
  <1>2. CASE ~(Shown(runs'[r]) = Shown(runs[r]) \/ (Shown(runs[r]) = "ended" /\ Shown(runs'[r]) = "absent"))
    <2>1. runs[r] \in InFlight \/ runs[r] = "absent"
      BY <1>0, <1>2, ShownCases
    <2>2. active = r /\ (runs[r] = "absent" => closed)
      BY <1>0, <1>2, <2>1 DEF InFlight
    <2>3. CASE runs'[r] = "running"
      <3>1. Shown(runs[r]) = "queued" \/ (closed /\ Shown(runs[r]) = "absent")
        BY <1>0, <1>2, <2>1, <2>2, <2>3, ShownCases DEF InFlight
      <3>2. Contract!Run
        BY <1>0, <2>2, <2>3, <3>1, ShownCases, ContractView DEF Contract!Run
      <3> QED
        BY <3>2 DEF Contract!Next
    <2>4. CASE runs'[r] # "running"
      <3>1. Shown(runs'[r]) \in {"ended", "absent"}
        BY <1>0, <1>2, <2>1, <2>4, ShownCases DEF InFlight, IsTerminal, Terminal
      <3>2. IsActiveRun \/ (closed /\ Shown(runs[r]) = "absent")
        BY <1>0, <2>1, <2>2, ShownCases DEF IsActiveRun
      <3>3. Contract!End
        BY <1>0, <2>2, <3>1, <3>2, ContractView DEF Contract!End
      <3> QED
        BY <3>3 DEF Contract!Next
    <2> QED
      BY <2>3, <2>4
  <1> QED
    BY <1>1, <1>2

\* Every critical section of the goroutine of r before finishAsyncRun.
LEMMA ContractGoroutine ==
    ASSUME TypeOK, TypeOK', SlotInv, LifeInv, NEW r \in RunIds,
           RunStep(r) \/ \E ok \in BOOLEAN : Progress(r, ok), ~Finish(r)
    PROVE  Contract!Next
  <1> USE RunStateMembers
  <1>0. /\ runs \in [RunIds -> RunState] /\ plan \in [RunIds -> {"none", "failed", "canceled"}]
        /\ \A s \in {"succeeded", "failed", "canceled"} : s \notin InFlight
        /\ \A s \in {"running", "succeeded", "failed", "canceled"} : s \in RunState \ {"absent"}
        /\ "absent" \notin InFlight
    BY DEF TypeOK, InFlight
  <1>1. ASSUME Launch(r) \/ (\E label \in {"fail", "guard"} : ExecutionError(r, label))
                 \/ (\E code \in {"failed", "canceled"} : Classify(r, code))
        PROVE  Contract!Next
    <2>1. runs' = runs /\ UNCHANGED <<active, pending, closed>>
      BY <1>1 DEF Launch, ExecutionError, Classify, registry, slots, shutdown
    <2> QED
      BY <2>1, Idles
  <1>2. ASSUME NEW ok \in BOOLEAN, NEW s \in {"running", "succeeded", "failed", "canceled"},
               pc[r] \in Driving \/ runs[r] \in InFlight, pc[r] # "none",
               Publish(Put(runs, r, s), ok), UNCHANGED <<active, pending, closed>>
        PROVE  Contract!Next
    <2>1. /\ Upserted({r})
          /\ runs'[r] \in {runs[r], s, "absent"}
          /\ IsTerminal(runs[r]) => runs'[r] \notin InFlight
      BY <1>0, <1>2, UpsertsOne DEF InFlight, IsTerminal, Terminal
    <2> QED
      BY <1>0, <1>2, <2>1, ContractWrite
  <1>3. ASSUME NEW ok \in BOOLEAN, Boot(r, ok) \/ Progress(r, ok) PROVE Contract!Next
    <2>1. /\ pc[r] \in Driving /\ pc[r] # "none" /\ Publish(Put(runs, r, "running"), ok)
          /\ UNCHANGED <<active, pending, closed>>
      BY <1>3 DEF Boot, Progress, Driving, slots, shutdown
    <2> QED
      BY <1>2, <2>1
  <1>4. ASSUME NEW ok \in BOOLEAN, Succeed(r, ok) PROVE Contract!Next
    <2>1. /\ pc[r] \in Driving /\ pc[r] # "none" /\ Publish(Put(runs, r, "succeeded"), ok)
          /\ UNCHANGED <<active, pending, closed>>
      BY <1>4 DEF Succeed, Driving, slots, shutdown
    <2> QED
      BY <1>2, <2>1
  <1>5. ASSUME NEW ok \in BOOLEAN, PartialFail(r, ok) PROVE Contract!Next
    <2>1. /\ pc[r] \in Driving /\ pc[r] # "none" /\ Publish(Put(runs, r, "failed"), ok)
          /\ UNCHANGED <<active, pending, closed>>
      BY <1>5 DEF PartialFail, Driving, slots, shutdown
    <2> QED
      BY <1>2, <2>1
  <1>6. ASSUME NEW ok \in BOOLEAN, Refuse(r, ok) PROVE Contract!Next
    <2>1. pc[r] # "none" /\ UNCHANGED <<active, pending, closed>>
      BY <1>6 DEF Refuse, slots, shutdown
    <2>2. CASE runs[r] \in InFlight /\ Publish(Put(runs, r, "canceled"), ok)
      BY <1>2, <2>1, <2>2
    <2>3. CASE runs' = runs
      BY <2>1, <2>3, Idles
    <2> QED
      BY <1>6, <2>2, <2>3 DEF Refuse
  <1>7. ASSUME NEW ok \in BOOLEAN, StoreFailure(r, ok) PROVE Contract!Next
    <2>1. /\ pc[r] # "none" /\ plan[r] \in {"failed", "canceled"}
          /\ UNCHANGED <<active, pending, closed>>
      BY <1>0, <1>7 DEF StoreFailure, slots, shutdown
    <2>2. CASE (pc[r] = "fail" \/ runs[r] \in InFlight) /\ Publish(Put(runs, r, plan[r]), ok)
      <3>1. pc[r] \in Driving \/ runs[r] \in InFlight
        BY <2>2 DEF Driving
      <3> QED
        BY <1>2, <2>1, <2>2, <3>1
    <2>3. CASE runs' = runs
      BY <2>1, <2>3, Idles
    <2> QED
      BY <1>7, <2>2, <2>3 DEF StoreFailure
  <1> QED
    BY <1>1, <1>3, <1>4, <1>5, <1>6, <1>7 DEF RunStep

\* finishAsyncRun hands the slot over, empties it, or finds that it is not its own.
LEMMA ContractFinish ==
    ASSUME TypeOK, NEW r \in RunIds, Finish(r)
    PROVE  Contract!Next
  <1>1. runs' = runs /\ UNCHANGED closed
    BY DEF Finish, registry, shutdown
  <1>2. SlotAfter(r) = NoRun => active = NoRun \/ (active \in RunIds /\ Shown(runs[active]) = "ended")
    BY DEF SlotAfter, Shown
  <1>3. CASE SlotAfter(r) = NoRun
    <2>1. \/ ~closed /\ pending # NoRun /\ active' = pending /\ pending' = NoRun
          \/ (closed \/ pending = NoRun) /\ active' = NoRun /\ pending' = pending
      BY <1>3 DEF Finish
    <2>2. Contract!HandOver
      BY <1>1, <1>2, <1>3, <2>1 DEF Contract!HandOver
    <2> QED
      BY <2>2 DEF Contract!Next
  <1>4. CASE SlotAfter(r) # NoRun
    <2>1. UNCHANGED <<active, pending>>
      BY <1>4 DEF Finish, SlotAfter
    <2> QED
      BY <1>1, <2>1, Idles
  <1> QED
    BY <1>3, <1>4

\* StartAsyncRun and CancelRun.
LEMMA ContractRequest ==
    ASSUME TypeOK, TypeOK', SlotInv, Request
    PROVE  Contract!Next
  <1> USE RunStateMembers
  <1>0. /\ runs \in [RunIds -> RunState] /\ runs' \in [RunIds -> RunState]
        /\ pending \in RunIds \cup {NoRun}
    BY DEF TypeOK
  <1>1. ASSUME runs' = runs, UNCHANGED <<active, pending, closed>> PROVE Contract!Next
    BY <1>1, Idles
  <1>2. CASE \/ \E intent \in Intents : Arrive(intent)
             \/ \E q \in requests : RejectStart(q)
             \/ \E r \in RunIds : CancelActive(r)
    BY <1>1, <1>2 DEF Arrive, RejectStart, CancelActive, registry, slots, shutdown
  <1>3. ASSUME NEW q \in requests, NEW ok \in BOOLEAN, StartNow(q, ok) PROVE Contract!Next
    <2>1. /\ q.id \in RunIds /\ runs[q.id] = "absent" /\ ~closed /\ ~IsActiveRun
          /\ UNCHANGED <<pending, closed>> /\ active' = (IF ok THEN q.id ELSE active)
          /\ Publish(Put(runs, q.id, "queued"), ok)
      BY <1>3 DEF StartNow, TypeOK, shutdown
    <2>2. Upserted({q.id}) /\ (ok => runs'[q.id] = "queued") /\ (~ok => runs' = runs)
      BY <2>1, AdmitUpserts
    <2>3. CASE ok
      <3>1. Kept({q.id}) /\ Shown(runs[q.id]) = "absent" /\ Shown(runs'[q.id]) = "queued"
        BY <1>0, <2>1, <2>2, <2>3, UpsertedIsKept, ShownCases
      <3>2. Contract!Start(q.id)
        BY <2>1, <2>3, <3>1, ContractView DEF Contract!Start, Contract!Admit
      <3> QED
        BY <2>1, <3>2 DEF Contract!Next
    <2>4. CASE ~ok
      BY <1>1, <2>1, <2>2, <2>4
    <2> QED
      BY <2>3, <2>4
  <1>4. ASSUME NEW q \in requests, NEW ok \in BOOLEAN,
               QueueFirst(q, ok) \/ QueueSupersede(q, ok)
        PROVE  Contract!Next
    <2>1. /\ q.id \in RunIds /\ runs[q.id] = "absent" /\ ~closed /\ IsActiveRun
          /\ UNCHANGED <<active, closed>> /\ pending' = (IF ok THEN q.id ELSE pending)
      BY <1>4 DEF QueueFirst, QueueSupersede, TypeOK, shutdown
    <2>2. /\ Upserted({q.id, pending})
          /\ ok => runs'[q.id] = "queued"
          /\ ok /\ pending # NoRun => pending \in RunIds /\ runs'[pending] \in {"superseded", "absent"}
          /\ ~ok => runs' = runs
      <3>1. CASE QueueSupersede(q, ok)
        <4>1. /\ pending \in RunIds /\ q.id # pending
              /\ Publish(Put(Put(runs, q.id, "queued"), pending, "superseded"), ok)
          BY <1>0, <2>1, <3>1 DEF QueueSupersede
        <4>2. /\ Upserted({q.id, pending})
              /\ ok => runs'[q.id] = "queued" /\ runs'[pending] \in {"superseded", "absent"}
              /\ ~ok => runs' = runs
          BY <2>1, <4>1, UpsertsTwo
        <4> QED
          BY <4>1, <4>2
      <3>2. CASE QueueFirst(q, ok)
        <4>1. Publish(Put(runs, q.id, "queued"), ok) /\ pending = NoRun
          BY <3>2 DEF QueueFirst
        <4>2. Upserted({q.id}) /\ (ok => runs'[q.id] = "queued") /\ (~ok => runs' = runs)
          BY <2>1, <4>1, AdmitUpserts
        <4> QED
          BY <4>1, <4>2 DEF Upserted
      <3> QED
        BY <1>4, <3>1, <3>2
    <2>3. CASE ok
      <3>1. Kept({q.id, pending}) /\ Shown(runs[q.id]) = "absent" /\ Shown(runs'[q.id]) = "queued"
        BY <1>0, <2>1, <2>2, <2>3, UpsertedIsKept, ShownCases
      <3>2. pending # NoRun => pending \in RunIds /\ Shown(runs'[pending]) \in {"ended", "absent"}
        BY <1>0, <2>2, <2>3, ShownCases DEF IsTerminal, Terminal
      <3>3. pending # NoRun => Contract!Over(pending)
        BY <3>2, ContractView
      <3>4. Contract!Queue(q.id)
        BY <2>1, <2>3, <3>1, <3>3, ContractView DEF Contract!Queue, Contract!Admit
      <3> QED
        BY <2>1, <3>4 DEF Contract!Next
    <2>4. CASE ~ok
      BY <1>1, <2>1, <2>2, <2>4
    <2> QED
      BY <2>3, <2>4
  <1>5. ASSUME NEW r \in RunIds, NEW ok \in BOOLEAN, CancelPending(r, ok) PROVE Contract!Next
    <2>1. /\ pending = r /\ r # NoRun /\ runs[r] = "queued" /\ UNCHANGED <<active, closed>>
          /\ pending' = (IF ok THEN NoRun ELSE pending)
          /\ Publish(Put(runs, r, "canceled"), ok)
          /\ "canceled" \in RunState \ {"absent"} /\ ~IsTerminal(runs[r])
      BY <1>5 DEF CancelPending, shutdown, IsTerminal, Terminal
    <2>2. Upserted({r}) /\ (ok => runs'[r] \in {"canceled", "absent"}) /\ (~ok => runs' = runs)
      BY <2>1, UpsertsOne
    <2>3. CASE ok
      <3>1. Kept({r}) /\ Shown(runs'[r]) \in {"ended", "absent"}
        BY <1>0, <2>2, <2>3, UpsertedIsKept, ShownCases DEF IsTerminal, Terminal
      <3>2. Contract!CancelNext
        BY <2>1, <2>3, <3>1, ContractView DEF Contract!CancelNext
      <3> QED
        BY <3>2 DEF Contract!Next
    <2>4. CASE ~ok
      BY <1>1, <2>1, <2>2, <2>4
    <2> QED
      BY <2>3, <2>4
  <1> QED
    BY <1>2, <1>3, <1>4, <1>5 DEF Request

\* Shutdown closes the service and may cancel the pending run; its deadline ends the run it
\* waits for.
LEMMA ContractShutdown ==
    ASSUME TypeOK, TypeOK', SlotInv, LifeInv, WaitsForLaunched,
           \/ \E ok \in BOOLEAN : Shutdown(ok)
           \/ ShutdownDone
           \/ \E ok \in BOOLEAN : ShutdownTimeout(ok)
    PROVE  Contract!Next
  <1> USE RunStateMembers
  <1>0. /\ runs \in [RunIds -> RunState] /\ runs' \in [RunIds -> RunState]
        /\ pending \in RunIds \cup {NoRun}
        /\ "canceled" \in RunState \ {"absent"} /\ IsTerminal("canceled") /\ ~IsTerminal("queued")
        /\ ~IsTerminal("running") /\ InFlight = {"queued", "running"}
    BY DEF TypeOK, IsTerminal, Terminal, InFlight
  <1>1. ASSUME NEW ok \in BOOLEAN, Shutdown(ok) PROVE Contract!Next
    <2>1. ~closed /\ closed' = TRUE /\ UNCHANGED active
      BY <1>1 DEF Shutdown, LifeInv, StopReaches
    <2>2. CASE pending # NoRun /\ ok
      <3>1. /\ pending \in RunIds /\ runs[pending] = "queued" /\ pending' = NoRun
            /\ Publish(Put(runs, pending, "canceled"), ok)
        BY <1>0, <1>1, <2>2 DEF Shutdown, SlotInv, PendingIsParked
      <3>2. Upserted({pending}) /\ runs'[pending] \in {"canceled", "absent"}
        BY <1>0, <2>2, <3>1, UpsertsOne
      <3>3. Kept({pending}) /\ Shown(runs'[pending]) \in {"ended", "absent"}
        BY <1>0, <3>1, <3>2, UpsertedIsKept, ShownCases
      <3>4. Contract!CancelNext
        BY <2>1, <2>2, <3>1, <3>3, ContractView DEF Contract!CancelNext
      <3> QED
        BY <3>4 DEF Contract!Next
    <2>3. CASE ~(pending # NoRun /\ ok)
      <3>1. runs' = runs /\ pending' = pending
        BY <1>1, <2>3 DEF Shutdown, Publish
      <3>2. Contract!Close
        BY <2>1, <3>1 DEF Contract!Close
      <3> QED
        BY <3>2 DEF Contract!Next
    <2> QED
      BY <2>2, <2>3
  <1>2. ASSUME ShutdownDone PROVE Contract!Next
    <2>1. runs' = runs /\ UNCHANGED <<active, pending, closed>>
      BY <1>2 DEF ShutdownDone, registry, slots
    <2> QED
      BY <2>1, Idles
  <1>3. ASSUME NEW ok \in BOOLEAN, ShutdownTimeout(ok) PROVE Contract!Next
    <2>1. shutRun \in RunIds /\ pc[shutRun] # "none" /\ UNCHANGED <<active, pending, closed>>
      BY <1>3 DEF ShutdownTimeout, TypeOK, WaitsForLaunched, slots
    <2>2. CASE runs[shutRun] \in InFlight /\ Publish(Put(runs, shutRun, "canceled"), ok)
      <3>1. /\ Upserted({shutRun}) /\ ~IsTerminal(runs[shutRun]) /\ runs[shutRun] # "absent"
            /\ runs'[shutRun] \in {runs[shutRun], "canceled", "absent"}
        BY <1>0, <2>1, <2>2, UpsertsOne
      <3> QED
        BY <2>1, <3>1, ContractWrite
    <2>3. CASE runs' = runs
      BY <2>1, <2>3, Idles
    <2> QED
      BY <1>3, <2>2, <2>3 DEF ShutdownTimeout
  <1> QED
    BY <1>1, <1>2, <1>3

\* NewService resumes at most one running run, ends the others in flight or, when it cannot
\* write, leaves them, and finds the terminal records that the file has.
LEMMA ContractRestart ==
    ASSUME TypeOK, TypeOK', PublishedIsDurable, NEW c \in RunIds \cup {NoRun},
           NEW ok \in BOOLEAN, Restart(c, ok)
    PROVE  Contract!Next
  <1> USE RunStateMembers
  <1>0. /\ runs \in [RunIds -> RunState] /\ runs' \in [RunIds -> RunState]
        /\ history \in [RunIds -> RunState]
        /\ IsTerminal("reconciled") /\ "absent" \notin InFlight /\ "running" \in InFlight
        /\ \A s \in InFlight : ~IsTerminal(s)
    BY DEF TypeOK, IsTerminal, Terminal, InFlight
  <1>1. /\ active' = c /\ pending' = NoRun /\ closed' = FALSE
        /\ runs' = history \/ runs' = Reconciled(c)
        /\ c # NoRun => c \in RunIds /\ history[c] = "running"
    BY DEF Restart, ResumeChoices
  <1>2. \A x \in RunIds :
          /\ runs[x] \in InFlight => history[x] = runs[x]
          /\ history[x] \in {runs[x], "absent"}
    BY DEF PublishedIsDurable
  <1>3. \A x \in RunIds :
          Reconciled(c)[x] = IF history[x] \in InFlight /\ x # c THEN "reconciled" ELSE history[x]
    BY DEF Reconciled
  <1>4. c # NoRun => Shown(runs[c]) = "running" /\ Shown(runs'[c]) = "running"
    BY <1>0, <1>1, <1>2, <1>3, ShownCases
  <1>5. \A x \in RunIds : runs[x] \notin InFlight => runs'[x] = history[x]
    BY <1>0, <1>1, <1>2, <1>3
  <1>6. Kept({x \in RunIds : Shown(runs[x]) \in InFlight})
    <2> SUFFICES ASSUME NEW x \in RunIds, Shown(runs[x]) \notin InFlight
                 PROVE  \/ Shown(runs'[x]) = Shown(runs[x])
                        \/ Shown(runs[x]) = "ended" /\ Shown(runs'[x]) = "absent"
      BY DEF Kept
    <2>1. runs[x] \notin InFlight /\ runs'[x] \in {runs[x], "absent"}
      BY <1>0, <1>2, <1>5, ShownCases
    <2> QED
      BY <1>0, <2>1, ShownCases
  <1>7. CASE runs' = Reconciled(c)
    <2>1. \A x \in RunIds \ {c} : Shown(runs[x]) \in InFlight => Shown(runs'[x]) = "ended"
      BY <1>0, <1>2, <1>3, <1>7, ShownCases
    <2>2. Contract!Restart(c)
      BY <1>1, <1>4, <1>6, <2>1, ContractView DEF Contract!Restart, Contract!InFlight, InFlight
    <2> QED
      BY <2>2 DEF Contract!Next
  <1>8. CASE runs' = history
    <2>1. \A x \in RunIds : Shown(runs[x]) \in InFlight => Shown(runs'[x]) = Shown(runs[x])
      BY <1>0, <1>2, <1>8, ShownCases
    <2>2. Contract!Restart(c)
      BY <1>1, <1>4, <1>6, <2>1, ContractView DEF Contract!Restart, Contract!InFlight, InFlight
    <2> QED
      BY <2>2 DEF Contract!Next
  <1> QED
    BY <1>1, <1>7, <1>8

\* The service implements its contract: whatever goroutines, cancels, failed writes,
\* deadlines and restarts do, only the records of the slot and of the pending run move, in
\* order, and the slot passes on only from a run that is over (StartAsyncRun, CancelRun,
\* runWithID, finishAsyncRun, Shutdown, NewService).
THEOREM ServiceKeepsContract == Spec => ServesContract
  <1>1. Init => Contract!Init /\ WaitsForLaunched
    <2> SUFFICES ASSUME Init PROVE Contract!Init /\ WaitsForLaunched
      OBVIOUS
    <2>1. \A r \in RunIds : Shown(runs[r]) = "absent"
      BY DEF Init, Shown, IsTerminal, Terminal
    <2> QED
      BY <2>1 DEF Init, Contract!Init, WaitsForLaunched
  <1>2. TypeOK /\ LifeInv /\ WaitsForLaunched /\ [Next]_vars => WaitsForLaunched'
    BY WaitsForLaunchedStep
  <1>3. TypeOK /\ TypeOK' /\ SlotInv /\ PublishedIsDurable /\ LifeInv /\ WaitsForLaunched
          /\ [Next]_vars => [Contract!Next]_(Contract!vars)
    <2> SUFFICES ASSUME TypeOK, TypeOK', SlotInv, PublishedIsDurable, LifeInv, WaitsForLaunched,
                        [Next]_vars
                 PROVE  [Contract!Next]_(Contract!vars)
      OBVIOUS
    <2>1. CASE Next
      BY <2>1, ContractGoroutine, ContractFinish, ContractRequest, ContractShutdown,
         ContractRestart DEF Next
    <2>2. CASE UNCHANGED vars
      BY <2>2 DEF vars, registry, slots, shutdown, Contract!vars
    <2> QED
      BY <2>1, <2>2
  <1> QED
    BY <1>1, <1>2, <1>3, LifeAlways, PTL DEF Spec, ServesContract, Contract!Spec
=============================================================================
