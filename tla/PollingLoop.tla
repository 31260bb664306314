----------------------------- MODULE PollingLoop -----------------------------
(***************************************************************************)
(* The polling loop of the web console (ui/src/hooks/usePollingLoop.ts):   *)
(* a timer, at most one request, exponential back-off, and the browser's   *)
(* visibility and connection events.  An effect instance of the hook is an *)
(* epoch; the request of a disposed epoch may settle after the next epoch  *)
(* has begun.  One action is one turn of the event loop.                   *)
(***************************************************************************)
EXTENDS Integers, FiniteSets

CONSTANTS
  MaxInterval,   \* maxIntervalMs in multiples of intervalMs
  MaxFailures,   \* the cap on the failure count
  MaxEpochs,     \* bound: times the page enables the loop
  MaxPauses,     \* bound: offline events
  Off            \* no timer

ASSUME PollingConstants ==
  /\ MaxInterval \in Nat \ {0}
  /\ MaxFailures \in Nat \ {0}
  /\ MaxEpochs \in Nat
  /\ MaxPauses \in Nat
  /\ Off \notin Int

VARIABLES
  enabled,   \* the hook's option
  hidden,    \* document.visibilityState = "hidden"
  online,    \* navigator.onLine
  epoch,     \* number of effect instances so far
  timer,     \* delay of the armed timer, or Off
  failures,  \* consecutive failed polls
  inFlight,  \* this epoch awaits pollRef.current
  gen,       \* pauseGeneration
  calls      \* polls not settled: [epoch, gen, aborted]

vars == <<enabled, hidden, online, epoch, timer, failures, inFlight, gen, calls>>

isPaused == hidden \/ ~online

Least(a, b) == IF a <= b THEN a ELSE b

\* The delay after a poll: the interval after success, a back-off after failure.
Delay(n) == Least(MaxInterval, 2 ^ n)

\* schedule(delay), evaluated after the event that may have paused the loop.
Scheduled(delay, paused) == IF paused THEN Off ELSE delay

Abort(cs) == {[c EXCEPT !.aborted = @ \/ c.epoch = epoch] : c \in cs}

Init ==
  /\ enabled = FALSE /\ hidden = FALSE /\ online = TRUE
  /\ epoch = 0 /\ timer = Off /\ failures = 0
  /\ inFlight = FALSE /\ gen = 0 /\ calls = {}

\* The effect runs: fresh locals and a first timer.
Enable ==
  /\ ~enabled
  /\ epoch < MaxEpochs
  /\ enabled' = TRUE
  /\ epoch' = epoch + 1
  /\ timer' = Scheduled(1, isPaused)
  /\ failures' = 0 /\ inFlight' = FALSE /\ gen' = 0
  /\ UNCHANGED <<hidden, online, calls>>

\* The effect's cleanup: dispose, clear the timer, abort the request.
Disable ==
  /\ enabled
  /\ enabled' = FALSE
  /\ timer' = Off
  /\ calls' = Abort(calls)
  /\ inFlight' = FALSE
  /\ UNCHANGED <<hidden, online, epoch, failures, gen>>

\* Mutant of Resume: waking up waits for the next tick, which nothing has armed.
ResumeOnlyArmed(h, o) ==
  timer' = IF enabled /\ ~h /\ o /\ ~inFlight /\ timer # Off THEN 0 ELSE timer

\* What resume does once the browser's state is h, o.
Resume(h, o) ==
  timer' = IF enabled /\ ~h /\ o /\ ~inFlight THEN 0 ELSE timer

VisibilityChange ==
  /\ hidden' = ~hidden
  /\ Resume(hidden', online)
  /\ UNCHANGED <<enabled, online, epoch, failures, inFlight, gen, calls>>

GoOnline ==
  /\ ~online
  /\ online' = TRUE
  /\ Resume(hidden, TRUE)
  /\ UNCHANGED <<enabled, hidden, epoch, failures, inFlight, gen, calls>>

GoOffline ==
  /\ online
  /\ gen < MaxPauses
  /\ online' = FALSE
  /\ gen' = IF enabled THEN gen + 1 ELSE gen
  /\ timer' = Off
  /\ calls' = IF enabled THEN Abort(calls) ELSE calls
  /\ UNCHANGED <<enabled, hidden, epoch, failures, inFlight>>

\* The timer's callback: forget the timer and run.
TimerFires ==
  /\ timer # Off
  /\ timer' = Off
  /\ IF inFlight \/ isPaused
       THEN UNCHANGED <<inFlight, calls>>
       ELSE /\ inFlight' = TRUE
            /\ calls' = calls \cup {[epoch |-> epoch, gen |-> gen, aborted |-> FALSE]}
  /\ UNCHANGED <<enabled, hidden, online, epoch, failures, gen>>

\* Mutant of AfterPoll: an answer that crossed a pause is dropped and nothing is scheduled.
AfterPollDropped(c, ok) ==
  /\ inFlight' = FALSE
  /\ IF c.gen # gen \/ isPaused
       THEN UNCHANGED <<timer, failures>>
       ELSE /\ failures' = IF ok THEN 0 ELSE Least(failures + 1, MaxFailures)
            /\ timer' = Delay(failures')

\* The rest of run after the await, for a poll of the epoch that is live.
AfterPoll(c, ok) ==
  /\ inFlight' = FALSE
  /\ IF c.gen # gen
       THEN timer' = Scheduled(0, isPaused) /\ UNCHANGED failures
       ELSE IF isPaused
         THEN UNCHANGED <<timer, failures>>
         ELSE /\ failures' = IF ok THEN 0 ELSE Least(failures + 1, MaxFailures)
              /\ timer' = Delay(failures')

PollSettles(c, ok) ==
  /\ c \in calls
  /\ calls' = calls \ {c}
  /\ IF enabled /\ c.epoch = epoch
       THEN AfterPoll(c, ok)
       ELSE UNCHANGED <<inFlight, timer, failures>>
  /\ UNCHANGED <<enabled, hidden, online, epoch, gen>>

Settle == \E c \in calls, ok \in BOOLEAN : PollSettles(c, ok)

Next ==
  \/ Enable \/ Disable
  \/ VisibilityChange \/ GoOnline \/ GoOffline
  \/ TimerFires \/ Settle

\* The browser fires every timer and every fetch settles, by answer or error.
Fairness ==
  /\ WF_vars(TimerFires)
  /\ \A c \in [epoch : 1..MaxEpochs, gen : 0..MaxPauses, aborted : BOOLEAN] :
       WF_vars(\E ok \in BOOLEAN : PollSettles(c, ok))

Spec == Init /\ [][Next]_vars /\ Fairness

-----------------------------------------------------------------------------
(* The locals of the effect keep their types; failureCount stays under its cap. *)
TypeOK ==
  /\ enabled \in BOOLEAN /\ hidden \in BOOLEAN /\ online \in BOOLEAN
  /\ epoch \in Nat /\ gen \in Nat
  /\ timer \in Int \cup {Off}
  /\ failures \in 0..MaxFailures
  /\ inFlight \in BOOLEAN
  /\ calls \subseteq [epoch : Nat, gen : Nat, aborted : BOOLEAN]

(* The loop never dies: a page that wants updates in a tab that can ask has a  *)
(* timer armed or a request under way, whichever way pauses, late answers and  *)
(* timers interleaved.                                                         *)
NeverStalls == enabled /\ ~isPaused => timer # Off \/ inFlight

(* No request churn: at most one request is not aborted, even right after the  *)
(* page disabled and enabled the loop while a request was under way.           *)
OneLiveRequest ==
  \A c, d \in calls : ~c.aborted /\ ~d.aborted => c = d

(* Offline means quiet: no timer is armed and no request is left running.      *)
OfflineIsQuiet ==
  ~online => timer = Off /\ \A c \in calls : c.aborted

(* The loop awaits exactly the request it started: inFlight is never left set  *)
(* after the request settled, nor cleared by the request of an older epoch.    *)
InFlightIsReal ==
  /\ inFlight <=> \E c \in calls : enabled /\ c.epoch = epoch
  /\ inFlight => timer = Off
  /\ timer # Off => enabled
  /\ \A c, d \in calls : c.epoch = d.epoch => c = d
  /\ \A c \in calls : c.epoch <= epoch /\ (c.epoch < epoch => c.aborted)
                      /\ (~enabled => c.aborted) /\ (c.epoch = epoch => c.gen <= gen)
                      /\ (c.epoch = epoch /\ c.gen < gen => c.aborted)

(* The invariant of usePollingLoop: the four parts together are inductive.     *)
PollingInv == TypeOK /\ NeverStalls /\ OfflineIsQuiet /\ InFlightIsReal

Phase == IF inFlight THEN "asking" ELSE IF timer # Off THEN "waiting" ELSE "off"

Contract == INSTANCE PollingContract
  WITH on <- enabled, awake <- ~isPaused, phase <- Phase

(* The hook keeps the promise of PollingContract, liveness included: with the  *)
(* tab awake for good, requests follow one another for ever.                   *)
KeepsContract == Contract!Spec
=============================================================================
