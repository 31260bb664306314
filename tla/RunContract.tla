---------------------------- MODULE RunContract ----------------------------
(***************************************************************************)
(* What the run service promises its callers, the task layer and the HTTP  *)
(* handlers, whatever its goroutines, cancels and failed writes do behind  *)
(* it (internal/orchestrator/service_runs.go): one run has the slot, one   *)
(* may be next, and no other record moves, except that ended records may   *)
(* be dropped by retention at any time.                                    *)
(***************************************************************************)
CONSTANTS
  Runs,   \* run ids
  NoRun   \* no run

VARIABLES
  status,   \* run -> "absent", "queued", "running" or "ended"
  slot,     \* the run that has the workspace
  next,     \* the run that waits for the slot
  closed    \* no run is admitted any more

vars == <<status, slot, next, closed>>

InFlight == {"queued", "running"}

Busy == slot # NoRun /\ status[slot] \in InFlight

\* The runs outside S keep their status or, once ended, are dropped.
Others(S) ==
  \A r \in Runs \ S : status'[r] = status[r] \/ (status[r] = "ended" /\ status'[r] = "absent")

\* A run that ends may be dropped at once, if Retention newer ones have ended.
Over(r) == status'[r] \in {"ended", "absent"}

Init ==
  /\ status = [r \in Runs |-> "absent"]
  /\ slot = NoRun /\ next = NoRun /\ closed = FALSE

Admit(r) == ~closed /\ status[r] = "absent" /\ status'[r] = "queued" /\ UNCHANGED closed

\* A slot whose run has ended may be taken before the run that is next gets it.
Start(r) == Admit(r) /\ ~Busy /\ slot' = r /\ Others({r}) /\ UNCHANGED next

\* A run that waited already is ended in the same step.
Queue(r) ==
  /\ Admit(r) /\ Busy
  /\ next # NoRun => Over(next)
  /\ next' = r /\ Others({r, next}) /\ UNCHANGED slot

\* In a closed service a record that was dropped may come back.
Run ==
  /\ slot # NoRun
  /\ status[slot] = "queued" \/ (closed /\ status[slot] = "absent")
  /\ status'[slot] = "running"
  /\ Others({slot}) /\ UNCHANGED <<slot, next, closed>>

End ==
  /\ slot # NoRun
  /\ Busy \/ (closed /\ status[slot] = "absent")
  /\ Over(slot) /\ Others({slot}) /\ UNCHANGED <<slot, next, closed>>

\* The run that is next is canceled, before or while the service closes.
CancelNext ==
  /\ next # NoRun
  /\ Over(next) /\ next' = NoRun /\ Others({next})
  /\ closed' \in {closed, TRUE} /\ UNCHANGED slot

Close == ~closed /\ closed' = TRUE /\ UNCHANGED <<status, slot, next>>

\* The slot of a run that has ended goes to the next one, unless the service is closed.
HandOver ==
  /\ slot = NoRun \/ status[slot] = "ended"
  /\ \/ ~closed /\ next # NoRun /\ slot' = next /\ next' = NoRun
     \/ (closed \/ next = NoRun) /\ slot' = NoRun /\ UNCHANGED next
  /\ UNCHANGED <<status, closed>>

Drop == Others({}) /\ UNCHANGED <<slot, next, closed>>

\* The process is started again: it goes on with at most one running run, and ends the
\* others that were in flight unless it cannot write.
Restart(r) ==
  /\ r # NoRun => status[r] = "running" /\ status'[r] = "running"
  /\ Others({s \in Runs : status[s] \in InFlight})
  /\ \/ \A s \in Runs \ {r} : status[s] \in InFlight => status'[s] = "ended"
     \/ \A s \in Runs : status[s] \in InFlight => status'[s] = status[s]
  /\ slot' = r /\ next' = NoRun /\ closed' = FALSE

Next ==
  \/ \E r \in Runs : Start(r) \/ Queue(r)
  \/ Run \/ End \/ CancelNext \/ Close \/ HandOver \/ Drop
  \/ \E r \in Runs \cup {NoRun} : Restart(r)

Spec == Init /\ [][Next]_vars
=============================================================================
