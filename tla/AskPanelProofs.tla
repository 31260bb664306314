--------------------------- MODULE AskPanelProofs ---------------------------
(***************************************************************************)
(* Proofs about the polling loop and the Ask drawer that runs it.          *)
(*                                                                         *)
(* The loop (PollingLoop, which AskPanel EXTENDS), for every interval, cap *)
(* and number of pauses: its invariant, and that each of its steps is one  *)
(* its contract allows.  The liveness half of the contract is left to TLC. *)
(*                                                                         *)
(* The drawer, for any number of Q&A runs and any history limit: the run   *)
(* the user chose stays on screen, the history is a set, the composer is   *)
(* busy only while something of startQARun is under way, and the drawer    *)
(* drives its polling loop only through the loop's own steps, so that what *)
(* is proved of the loop holds in the drawer.                              *)
(***************************************************************************)
EXTENDS AskPanel, TLAPS

-----------------------------------------------------------------------------
(* The loop *)

\* The delay after a poll is a number, never the absence of a timer.
LEMMA DelayIsInt == \A n \in Nat : Delay(n) \in Int
  <1>1. \A n \in Nat : 2 ^ n \in Int
    BY SMT
  <1> QED BY <1>1, PollingConstants DEF Delay, Least

\* The fresh page satisfies the invariant.
LEMMA PollingInit == Init => PollingInv
  <1> SUFFICES ASSUME Init PROVE PollingInv
    OBVIOUS
  <1> USE PollingConstants DEF Init
  <1>0. 0 \in 0..MaxFailures
    OBVIOUS
  <1>1. TypeOK BY <1>0, Zenon DEF TypeOK
  <1>2. NeverStalls BY DEF NeverStalls
  <1>3. OfflineIsQuiet BY DEF OfflineIsQuiet
  <1>4. InFlightIsReal BY DEF InFlightIsReal
  <1> QED BY <1>1, <1>2, <1>3, <1>4 DEF PollingInv

LEMMA EnableInv == PollingInv /\ Enable => PollingInv'
  <1> SUFFICES ASSUME PollingInv, Enable PROVE PollingInv'
    OBVIOUS
  <1> USE PollingConstants DEF PollingInv, TypeOK, NeverStalls, OfflineIsQuiet, InFlightIsReal,
                               Enable, Scheduled, isPaused
  <1>1. TypeOK' OBVIOUS
  <1>2. NeverStalls' OBVIOUS
  <1>3. OfflineIsQuiet' OBVIOUS
  <1>4. InFlightIsReal' OBVIOUS
  <1> QED BY <1>1, <1>2, <1>3, <1>4

Aborted(c) == [c EXCEPT !.aborted = @ \/ c.epoch = epoch]

\* What aborting the epoch's requests does to each of them.
LEMMA AbortedCall ==
  ASSUME TypeOK, NEW c \in calls
  PROVE  /\ Aborted(c) \in [epoch : Nat, gen : Nat, aborted : BOOLEAN]
         /\ Aborted(c).epoch = c.epoch /\ Aborted(c).gen = c.gen
         /\ Aborted(c).aborted <=> (c.aborted \/ c.epoch = epoch)
  <1> DEFINE e == c.aborted \/ c.epoch = epoch
  <1>1. c \in [epoch : Nat, gen : Nat, aborted : BOOLEAN] /\ e \in BOOLEAN
    BY DEF TypeOK
  <1>2. Aborted(c) = [c EXCEPT !.aborted = e]
    BY Zenon DEF Aborted
  <1> HIDE DEF e
  <1>3. /\ Aborted(c) \in [epoch : Nat, gen : Nat, aborted : BOOLEAN]
        /\ Aborted(c).epoch = c.epoch /\ Aborted(c).gen = c.gen
        /\ Aborted(c).aborted = e
    BY <1>1, <1>2
  <1> QED BY <1>3 DEF e

\* Aborting keeps the requests and their epochs.
LEMMA AbortedCalls ==
  ASSUME TypeOK
  PROVE  /\ Abort(calls) \subseteq [epoch : Nat, gen : Nat, aborted : BOOLEAN]
         /\ \A d \in Abort(calls) : \E c \in calls :
              /\ d = Aborted(c) /\ d.epoch = c.epoch /\ d.gen = c.gen
              /\ d.aborted <=> (c.aborted \/ c.epoch = epoch)
         /\ \A c \in calls : \E d \in Abort(calls) : d.epoch = c.epoch
  <1>1. Abort(calls) = {Aborted(c) : c \in calls}
    BY DEF Abort, Aborted
  <1> QED BY <1>1, AbortedCall

LEMMA DisableInv == PollingInv /\ Disable => PollingInv'
  <1> SUFFICES ASSUME PollingInv, Disable PROVE PollingInv'
    OBVIOUS
  <1>1. TypeOK' BY AbortedCalls DEF PollingInv, TypeOK, Disable
  <1>2. NeverStalls' BY DEF NeverStalls, Disable
  <1>3. \A d \in calls' : d.aborted
    BY AbortedCalls DEF PollingInv, TypeOK, InFlightIsReal, Disable
  <1>4. OfflineIsQuiet' BY <1>3 DEF OfflineIsQuiet, Disable
  <1>5. \A d, e \in calls' : d.epoch = e.epoch => d = e
    BY AbortedCalls DEF PollingInv, InFlightIsReal, Disable
  <1>6. InFlightIsReal'
    BY <1>3, <1>5, AbortedCalls DEF PollingInv, InFlightIsReal, Disable
  <1> QED BY <1>1, <1>2, <1>4, <1>6 DEF PollingInv

\* Waking up arms a timer unless a request is under way.
LEMMA ResumeArms ==
  ASSUME PollingInv, NEW h \in BOOLEAN, NEW o \in BOOLEAN, Resume(h, o)
  PROVE  /\ timer' \in Int \cup {Off}
         /\ timer' # Off => enabled /\ (timer # Off \/ (~h /\ o))
         /\ enabled /\ ~h /\ o /\ ~inFlight => timer' # Off
         /\ inFlight => timer' = Off
  BY PollingConstants DEF PollingInv, TypeOK, InFlightIsReal, Resume

LEMMA BrowserInv ==
  PollingInv /\ (VisibilityChange \/ GoOnline) => PollingInv'
  <1> SUFFICES ASSUME PollingInv, VisibilityChange \/ GoOnline PROVE PollingInv'
    OBVIOUS
  <1>1. /\ hidden' \in BOOLEAN /\ online' \in BOOLEAN
        /\ Resume(hidden', online')
        /\ ~online' => ~online
        /\ UNCHANGED <<enabled, epoch, failures, inFlight, gen, calls>>
    BY DEF PollingInv, TypeOK, VisibilityChange, GoOnline
  <1>2. /\ timer' \in Int \cup {Off}
        /\ timer' # Off => enabled /\ (timer # Off \/ (~hidden' /\ online'))
        /\ enabled /\ ~hidden' /\ online' /\ ~inFlight => timer' # Off
        /\ inFlight => timer' = Off
    BY <1>1, ResumeArms
  <1>3. TypeOK' BY <1>1, <1>2 DEF PollingInv, TypeOK
  <1>4. NeverStalls' BY <1>1, <1>2 DEF PollingInv, NeverStalls, isPaused
  <1>5. OfflineIsQuiet' BY <1>1, <1>2 DEF PollingInv, OfflineIsQuiet
  <1>6. InFlightIsReal' BY <1>1, <1>2 DEF PollingInv, InFlightIsReal
  <1> QED BY <1>3, <1>4, <1>5, <1>6 DEF PollingInv

LEMMA GoOfflineInv == PollingInv /\ GoOffline => PollingInv'
  <1> SUFFICES ASSUME PollingInv, GoOffline PROVE PollingInv'
    OBVIOUS
  <1>1. CASE enabled
    <2>1. /\ calls' = Abort(calls) /\ gen' = gen + 1 /\ timer' = Off /\ online' = FALSE
          /\ UNCHANGED <<enabled, hidden, epoch, failures, inFlight>>
      BY <1>1 DEF GoOffline
    <2>2. TypeOK'
      <3>1. calls' \subseteq [epoch : Nat, gen : Nat, aborted : BOOLEAN]
        BY <2>1, AbortedCalls DEF PollingInv
      <3>2. gen' \in Nat
        BY <2>1 DEF PollingInv, TypeOK
      <3> QED BY <2>1, <3>1, <3>2 DEF PollingInv, TypeOK
    <2>3. NeverStalls' BY <2>1 DEF NeverStalls, isPaused
    <2>4. \A d \in calls' : d.aborted
      BY <2>1, AbortedCalls DEF PollingInv, TypeOK, InFlightIsReal
    <2>5. OfflineIsQuiet' BY <2>1, <2>4 DEF OfflineIsQuiet
    <2>6. \A d, e \in calls' : d.epoch = e.epoch => d = e
      BY <2>1, AbortedCalls DEF PollingInv, InFlightIsReal
    <2>7. \A d \in calls' : d.epoch <= epoch' /\ (d.epoch = epoch' => d.gen <= gen')
      <3> SUFFICES ASSUME NEW d \in calls'
                   PROVE  d.epoch <= epoch' /\ (d.epoch = epoch' => d.gen <= gen')
        OBVIOUS
      <3>1. PICK c \in calls : d.epoch = c.epoch /\ d.gen = c.gen
        BY <2>1, AbortedCalls DEF PollingInv
      <3>2. c.gen \in Nat /\ gen \in Nat
        BY DEF PollingInv, TypeOK
      <3> QED BY <2>1, <3>1, <3>2 DEF PollingInv, InFlightIsReal
    <2>8. inFlight' <=> \E d \in calls' : enabled' /\ d.epoch = epoch'
      BY <1>1, <2>1, AbortedCalls DEF PollingInv, InFlightIsReal
    <2>9. InFlightIsReal'
      BY <2>1, <2>4, <2>6, <2>7, <2>8 DEF InFlightIsReal
    <2> QED BY <2>2, <2>3, <2>5, <2>9 DEF PollingInv
  <1>2. CASE ~enabled
    <2>1. /\ timer' = Off /\ online' = FALSE
          /\ UNCHANGED <<enabled, hidden, epoch, failures, inFlight, gen, calls>>
      BY <1>2 DEF GoOffline
    <2>2. TypeOK' BY <2>1 DEF PollingInv, TypeOK
    <2>3. NeverStalls' BY <2>1 DEF NeverStalls, isPaused
    <2>4. OfflineIsQuiet' BY <1>2, <2>1 DEF PollingInv, OfflineIsQuiet, InFlightIsReal
    <2>5. InFlightIsReal' BY <2>1 DEF PollingInv, InFlightIsReal
    <2> QED BY <2>2, <2>3, <2>4, <2>5 DEF PollingInv
  <1> QED BY <1>1, <1>2

LEMMA TimerInv == PollingInv /\ TimerFires => PollingInv'
  <1> SUFFICES ASSUME PollingInv, TimerFires PROVE PollingInv'
    OBVIOUS
  <1> DEFINE new == [epoch |-> epoch, gen |-> gen, aborted |-> FALSE]
  <1>1. /\ timer' = Off /\ enabled /\ ~inFlight
        /\ UNCHANGED <<enabled, hidden, online, epoch, failures, gen>>
    BY DEF PollingInv, InFlightIsReal, TimerFires
  <1>2. CASE isPaused
    <2>1. UNCHANGED <<inFlight, calls>> BY <1>2 DEF TimerFires
    <2>2. TypeOK' BY <1>1, <2>1 DEF PollingInv, TypeOK
    <2>3. NeverStalls' BY <1>1, <1>2, <2>1 DEF NeverStalls, isPaused
    <2>4. OfflineIsQuiet' BY <1>1, <2>1 DEF PollingInv, OfflineIsQuiet
    <2>5. InFlightIsReal' BY <1>1, <2>1 DEF PollingInv, InFlightIsReal
    <2> QED BY <2>2, <2>3, <2>4, <2>5 DEF PollingInv
  <1>3. CASE ~isPaused
    <2>1. inFlight' = TRUE /\ calls' = calls \cup {new}
      BY <1>1, <1>3 DEF TimerFires
    <2>2. new \in [epoch : Nat, gen : Nat, aborted : BOOLEAN]
      BY DEF PollingInv, TypeOK
    <2>3. TypeOK' BY <1>1, <2>1, <2>2 DEF PollingInv, TypeOK
    <2>4. NeverStalls' BY <2>1 DEF NeverStalls
    <2>5. OfflineIsQuiet' BY <1>1, <1>3 DEF OfflineIsQuiet, isPaused
    <2>6. \A c \in calls : c.epoch # epoch
      BY <1>1 DEF PollingInv, InFlightIsReal
    <2>7. new.epoch = epoch /\ new.gen = gen /\ epoch \in Nat /\ gen \in Nat
      BY DEF PollingInv, TypeOK
    <2> HIDE DEF new
    <2>8. InFlightIsReal'
      BY <1>1, <2>1, <2>6, <2>7 DEF PollingInv, InFlightIsReal
    <2> QED BY <2>3, <2>4, <2>5, <2>8 DEF PollingInv
  <1> QED BY <1>2, <1>3

LEMMA SettleInv ==
  ASSUME PollingInv, NEW c, NEW ok \in BOOLEAN, PollSettles(c, ok)
  PROVE  PollingInv'
  <1> USE PollingConstants DEF PollingInv, TypeOK, NeverStalls, OfflineIsQuiet, InFlightIsReal,
                               PollSettles, isPaused
  <1>1. CASE enabled /\ c.epoch = epoch
    <2>1. failures' \in 0..MaxFailures
      BY <1>1 DEF AfterPoll, Least
    <2>2. Delay(failures') \in Int
      BY <2>1, DelayIsInt
    <2>3. /\ timer' \in Int \cup {Off}
          /\ isPaused => timer' = Off
          /\ ~isPaused => timer' # Off
      <3>1. CASE c.gen # gen
        BY <1>1, <3>1 DEF AfterPoll, Scheduled
      <3>2. CASE c.gen = gen
        BY <1>1, <2>2, <3>2 DEF AfterPoll
      <3> QED BY <3>1, <3>2
    <2>4. inFlight' = FALSE
      BY <1>1 DEF AfterPoll
    <2>5. \A d \in calls' : d \in calls /\ d.epoch # epoch
      BY <1>1
    <2>6. TypeOK' BY <2>1, <2>3, <2>4
    <2>7. NeverStalls' BY <2>3
    <2>8. OfflineIsQuiet' BY <2>3, <2>5
    <2>9. InFlightIsReal' BY <1>1, <2>4, <2>5
    <2> QED BY <2>6, <2>7, <2>8, <2>9
  <1>2. CASE ~(enabled /\ c.epoch = epoch)
    <2>1. TypeOK' BY <1>2
    <2>2. NeverStalls' BY <1>2
    <2>3. OfflineIsQuiet' BY <1>2
    <2>4. InFlightIsReal' BY <1>2
    <2> QED BY <2>1, <2>2, <2>3, <2>4
  <1> QED BY <1>1, <1>2

\* Every turn of the event loop, and every step that is not the loop's, keeps the invariant.
LEMMA PollingStep == PollingInv /\ [Next]_vars => PollingInv'
  <1> SUFFICES ASSUME PollingInv, [Next]_vars PROVE PollingInv'
    OBVIOUS
  <1>1. CASE Enable BY <1>1, EnableInv
  <1>2. CASE Disable BY <1>2, DisableInv
  <1>3. CASE VisibilityChange \/ GoOnline BY <1>3, BrowserInv
  <1>4. CASE GoOffline BY <1>4, GoOfflineInv
  <1>5. CASE TimerFires BY <1>5, TimerInv
  <1>6. CASE Settle BY <1>6, SettleInv DEF Settle
  <1>7. CASE UNCHANGED vars
    BY <1>7 DEF vars, PollingInv, TypeOK, NeverStalls, OfflineIsQuiet, InFlightIsReal, isPaused
  <1> QED BY <1>1, <1>2, <1>3, <1>4, <1>5, <1>6, <1>7 DEF Next

(* usePollingLoop never stalls while the page wants updates in a tab that can ask, *)
(* is quiet while offline, and awaits exactly the request it started.              *)
THEOREM LoopInvariant == Spec => []PollingInv
  BY PollingInit, PollingStep, PTL DEF Spec

LEMMA InvGivesOneLive == PollingInv => OneLiveRequest
  BY DEF PollingInv, TypeOK, InFlightIsReal, OneLiveRequest

(* At most one request of the loop is not aborted, across pauses and restarts.     *)
THEOREM NoRequestChurn == Spec => []OneLiveRequest
  BY LoopInvariant, InvGivesOneLive, PTL

-----------------------------------------------------------------------------
\* A turn of the event loop is one step of the contract, or none.
LEMMA ContractStep ==
  ASSUME PollingInv, PollingInv', [Next]_vars
  PROVE  [Contract!Next]_(Contract!vars)
  <1> USE DEF Contract!vars, Contract!Next, Phase, isPaused
  <1>0. /\ enabled \in BOOLEAN /\ hidden \in BOOLEAN /\ online \in BOOLEAN /\ inFlight \in BOOLEAN
        /\ inFlight => enabled /\ timer = Off
        /\ timer # Off => enabled
        /\ enabled /\ ~isPaused => timer # Off \/ inFlight
        /\ 0 # Off /\ 1 # Off
    BY PollingConstants DEF PollingInv, TypeOK, InFlightIsReal, NeverStalls
  <1>1. CASE Enable
    BY <1>0, <1>1 DEF Enable, Scheduled, Contract!SwitchOn
  <1>2. CASE Disable
    BY <1>0, <1>2 DEF Disable, Contract!SwitchOff
  <1>3. CASE VisibilityChange \/ GoOnline
    <2>1. CASE isPaused' = isPaused
      BY <1>0, <1>3, <2>1 DEF VisibilityChange, GoOnline, Resume
    <2>2. CASE ~isPaused /\ isPaused'
      BY <1>0, <1>3, <2>2 DEF VisibilityChange, GoOnline, Resume, Contract!Sleep
    <2>3. CASE isPaused /\ ~isPaused'
      BY <1>0, <1>3, <2>3 DEF VisibilityChange, GoOnline, Resume, Contract!Wake
    <2> QED BY <2>1, <2>2, <2>3
  <1>4. CASE GoOffline
    BY <1>0, <1>4 DEF GoOffline, Contract!Sleep, Contract!SleepDeeper
  <1>5. CASE TimerFires
    BY <1>0, <1>5 DEF TimerFires, Contract!Ask
  <1>6. CASE Settle
    <2>1. PICK c \in calls, ok \in BOOLEAN : PollSettles(c, ok)
      BY <1>6 DEF Settle
    <2>2. CASE enabled /\ c.epoch = epoch
      <3>1. inFlight
        BY <2>2 DEF PollingInv, InFlightIsReal
      <3>2. ~inFlight' /\ UNCHANGED <<enabled, hidden, online>>
        BY <2>1, <2>2 DEF PollSettles, AfterPoll
      <3>3. timer' # Off <=> ~isPaused
        <4>1. failures' \in 0..MaxFailures
          BY DEF PollingInv, TypeOK
        <4>2. Delay(failures') # Off
          BY <4>1, DelayIsInt, PollingConstants
        <4> QED BY <1>0, <2>1, <2>2, <3>1, <4>2 DEF PollSettles, AfterPoll, Scheduled
      <3> QED BY <1>0, <3>1, <3>2, <3>3 DEF Contract!Settle
    <2>3. CASE ~(enabled /\ c.epoch = epoch)
      BY <2>1, <2>3 DEF PollSettles
    <2> QED BY <2>2, <2>3
  <1>7. CASE UNCHANGED vars
    BY <1>7 DEF vars
  <1> QED BY <1>1, <1>2, <1>3, <1>4, <1>5, <1>6, <1>7 DEF Next

(* Every behaviour of usePollingLoop is one its contract allows: what a page may   *)
(* rely on holds whatever the timers, pauses and late answers behind it.           *)
THEOREM LoopKeepsContractSteps ==
  Spec => Contract!Init /\ [][Contract!Next]_(Contract!vars)
  <1>1. Init => Contract!Init
    BY DEF Init, Contract!Init, Phase, isPaused
  <1>2. PollingInv /\ PollingInv' /\ [Next]_vars => [Contract!Next]_(Contract!vars)
    BY ContractStep
  <1> QED BY <1>1, <1>2, LoopInvariant, PTL DEF Spec

-----------------------------------------------------------------------------
(* The drawer *)


ListRead == [why : {"initial", "manual"}, got : Seq(Row) \cup {None}]
DetailRead == [run : Runs, why : {"initial", "select", "start"}, low : Status]
PanType == [open : BOOLEAN, run : Row \cup {None}, hist : Seq(Row), busy : BOOLEAN,
            dialog : BOOLEAN, list : ListRead \cup {None}, detail : DetailRead \cup {None}]

\* A history that names no run twice and fits the limit.
Good(hist) ==
  /\ \A i, j \in 1..Len(hist) : hist[i].id = hist[j].id => i = j
  /\ Len(hist) <= Limit

\* What holds of a panel whose user chose run w last.
PanOK(p, w) ==
  /\ p \in PanType
  /\ Good(p.hist)
  /\ p.run # None => Listed(p.run.id, p.hist) \/ Len(p.hist) = Limit
  /\ p.list # None /\ p.list.got # None => Good(p.list.got)
  /\ p.detail # None => p.run # None /\ p.run.id = p.detail.run
  /\ w # None => p.run # None /\ p.run.id = w

\* The inductive invariant: the detail request under way is always for the shown run.
AskInv ==
  /\ svc \in [Runs -> Status]
  /\ post \in [run : Runs \cup {None}] \cup {None}
  /\ PanOK(pan, want)

-----------------------------------------------------------------------------
\* Cutting a history keeps its first rows.
LEMMA CutRows ==
  ASSUME NEW s \in Seq(Row)
  PROVE  /\ Cut(s) \in Seq(Row)
         /\ Len(Cut(s)) = Least(Len(s), Limit)
         /\ Len(Cut(s)) <= Limit /\ Len(Cut(s)) <= Len(s)
         /\ \A i \in 1..Len(Cut(s)) : Cut(s)[i] = s[i]
  <1>1. Limit \in Nat /\ Len(s) \in Nat
    BY AskConstants
  <1>2. Least(Len(s), Limit) \in Nat /\ Least(Len(s), Limit) <= Len(s)
        /\ Least(Len(s), Limit) <= Limit
    BY <1>1 DEF Least
  <1> QED BY <1>2 DEF Cut

\* A history without repetition, cut at the limit, is good.
LEMMA CutGood ==
  ASSUME NEW s \in Seq(Row), \A i, j \in 1..Len(s) : s[i].id = s[j].id => i = j
  PROVE  Good(Cut(s))
  <1>1. \A i \in 1..Len(Cut(s)) : i \in 1..Len(s) /\ Cut(s)[i] = s[i]
    BY CutRows
  <1> QED BY <1>1, CutRows DEF Good

\* mergeQARunHistory keeps a good history good, and the run in it unless it is full.
LEMMA MergeGood ==
  ASSUME NEW row \in Row, NEW hist \in Seq(Row), Good(hist), NEW mode
  PROVE  LET merged == mergeQARunHistory(row, hist, mode)
         IN /\ merged \in Seq(Row) /\ Good(merged)
            /\ Listed(row.id, merged) \/ Len(merged) = Limit
  <1> DEFINE merged == mergeQARunHistory(row, hist, mode)
  <1>0. Limit \in Nat \ {0} /\ Len(hist) \in Nat /\ DOMAIN hist = 1..Len(hist)
    BY AskConstants
  <1>1. CASE Listed(row.id, hist)
    <2> DEFINE s == [i \in DOMAIN hist |-> IF hist[i].id = row.id THEN row ELSE hist[i]]
    <2>1. s \in Seq(Row) /\ Len(s) = Len(hist)
      BY <1>0
    <2>2. \A i \in 1..Len(s) : s[i].id = hist[i].id
      BY <1>0, <2>1
    <2>3. merged = Cut(s)
      BY <1>1 DEF mergeQARunHistory
    <2> HIDE DEF s
    <2>4. \A i, j \in 1..Len(s) : s[i].id = s[j].id => i = j
      BY <2>1, <2>2 DEF Good
    <2>5. Len(Cut(s)) = Len(s)
      BY <1>0, <2>1, CutRows DEF Good, Least
    <2>6. PICK k \in 1..Len(hist) : hist[k].id = row.id
      BY <1>0, <1>1 DEF Listed
    <2>7. Cut(s)[k].id = row.id /\ k \in 1..Len(Cut(s))
      BY <2>1, <2>2, <2>5, <2>6, CutRows
    <2>8. Cut(s) \in Seq(Row)
      BY <2>1, CutRows
    <2>9. Listed(row.id, Cut(s))
      BY <2>7, <2>8 DEF Listed
    <2> QED BY <2>1, <2>3, <2>4, <2>8, <2>9, CutGood
  <1>2. CASE ~Listed(row.id, hist) /\ mode = "preserve"
    <2> DEFINE s == Append(hist, row)
    <2>1. s \in Seq(Row) /\ Len(s) = Len(hist) + 1 /\ s[Len(s)] = row
          /\ \A i \in 1..Len(hist) : s[i] = hist[i]
      BY <1>0
    <2>2. merged = Cut(s)
      BY <1>2 DEF mergeQARunHistory
    <2> HIDE DEF s
    <2>3. \A i \in 1..Len(hist) : hist[i].id # row.id
      BY <1>0, <1>2 DEF Listed
    <2>4. \A i, j \in 1..Len(s) : s[i].id = s[j].id => i = j
      <3> SUFFICES ASSUME NEW i \in 1..Len(s), NEW j \in 1..Len(s), s[i].id = s[j].id
                   PROVE  i = j
        OBVIOUS
      <3>1. CASE i \in 1..Len(hist) /\ j \in 1..Len(hist)
        BY <2>1, <3>1 DEF Good
      <3>2. CASE i = Len(s) \/ j = Len(s)
        BY <1>0, <2>1, <2>3, <3>2
      <3> QED BY <1>0, <2>1, <3>1, <3>2
    <2>5. Listed(row.id, Cut(s)) \/ Len(Cut(s)) = Limit
      <3>1. CASE Len(s) <= Limit
        <4>1. Len(Cut(s)) = Len(s) /\ Len(s) \in 1..Len(s)
          BY <1>0, <2>1, <3>1, CutRows DEF Least
        <4>2. Cut(s)[Len(s)] = row /\ DOMAIN Cut(s) = 1..Len(s)
          BY <2>1, <4>1, CutRows
        <4> QED BY <4>1, <4>2 DEF Listed
      <3>2. CASE ~(Len(s) <= Limit)
        BY <1>0, <2>1, <3>2, CutRows DEF Least
      <3> QED BY <3>1, <3>2
    <2> QED BY <2>1, <2>2, <2>4, <2>5, CutRows, CutGood
  <1>3. CASE ~Listed(row.id, hist) /\ mode # "preserve"
    <2> DEFINE s == <<row>> \o hist
    <2>1. s \in Seq(Row) /\ Len(s) = Len(hist) + 1 /\ s[1] = row
          /\ \A i \in 2..Len(s) : s[i] = hist[i - 1]
      BY <1>0
    <2>2. merged = Cut(s)
      BY <1>3 DEF mergeQARunHistory
    <2> HIDE DEF s
    <2>3. \A i \in 1..Len(hist) : hist[i].id # row.id
      BY <1>0, <1>3 DEF Listed
    <2>4. \A i, j \in 1..Len(s) : s[i].id = s[j].id => i = j
      <3> SUFFICES ASSUME NEW i \in 1..Len(s), NEW j \in 1..Len(s), s[i].id = s[j].id
                   PROVE  i = j
        OBVIOUS
      <3>1. CASE i = 1 \/ j = 1
        BY <1>0, <2>1, <2>3, <3>1
      <3>2. CASE i # 1 /\ j # 1
        <4>1. i - 1 \in 1..Len(hist) /\ j - 1 \in 1..Len(hist)
          BY <1>0, <2>1, <3>2
        <4>2. hist[i - 1].id = hist[j - 1].id
          BY <2>1, <3>2
        <4>3. i - 1 = j - 1
          BY <4>1, <4>2 DEF Good
        <4> QED BY <4>3
      <3> QED BY <3>1, <3>2
    <2>5. Listed(row.id, Cut(s))
      <3>1. 1 \in 1..Len(Cut(s)) /\ DOMAIN Cut(s) = 1..Len(Cut(s))
        BY <1>0, <2>1, CutRows DEF Least
      <3>2. Cut(s)[1] = row
        BY <2>1, <3>1, CutRows
      <3> QED BY <3>1, <3>2 DEF Listed
    <2> QED BY <2>1, <2>2, <2>4, <2>5, CutRows, CutGood
  <1> QED BY <1>1, <1>2, <1>3

-----------------------------------------------------------------------------
\* Showing an answer about the shown run, or about a run the user just started.
LEMMA ShowOK ==
  ASSUME NEW p \in PanType, Good(p.hist), NEW row \in Row, NEW mode
  PROVE  LET q == Show(p, row, mode)
         IN /\ q \in PanType /\ Good(q.hist)
            /\ q.run = row /\ q.list = p.list /\ q.detail = p.detail
            /\ Listed(row.id, q.hist) \/ Len(q.hist) = Limit
  <1> DEFINE merged == mergeQARunHistory(row, p.hist, mode)
  <1>1. merged \in Seq(Row) /\ Good(merged) /\ (Listed(row.id, merged) \/ Len(merged) = Limit)
    <2>1. p.hist \in Seq(Row) BY DEF PanType
    <2> QED BY <2>1, MergeGood
  <1>2. Show(p, row, mode) = [p EXCEPT !.run = row, !.hist = merged]
    BY DEF Show
  <1> HIDE DEF merged
  <1> QED BY <1>1, <1>2 DEF PanType

\* Claiming a run begins the detail request of that run.
LEMMA ClaimOK ==
  ASSUME NEW p \in PanType, NEW row \in Row, NEW why \in {"initial", "select", "start"},
         svc \in [Runs -> Status]
  PROVE  LET q == Claim(p, row, why)
         IN /\ q \in PanType /\ q.run = row /\ q.hist = p.hist /\ q.list = p.list
            /\ q.detail = [run |-> row.id, why |-> why, low |-> svc[row.id]]
            /\ q.detail.run = row.id
  <1> DEFINE b == p.busy /\ (why = "start" \/ p.detail = None \/ p.detail.why # "start")
             d == [run |-> row.id, why |-> why, low |-> svc[row.id]]
  <1>1. b \in BOOLEAN BY DEF PanType
  <1>2. d \in DetailRead /\ d.run = row.id BY DEF DetailRead, Row
  <1>3. Claim(p, row, why) = [p EXCEPT !.run = row, !.busy = b, !.detail = d]
    BY DEF Claim
  <1>4. d = [run |-> row.id, why |-> why, low |-> svc[row.id]] OBVIOUS
  <1> HIDE DEF b, d
  <1>5. LET q == [p EXCEPT !.run = row, !.busy = b, !.detail = d]
        IN q \in PanType /\ q.run = row /\ q.hist = p.hist /\ q.list = p.list /\ q.detail = d
    BY <1>1, <1>2 DEF PanType
  <1> QED BY <1>2, <1>3, <1>4, <1>5

\* The end of a detail request leaves the rest of the panel alone.
LEMMA DetailEndsOK ==
  ASSUME NEW p \in PanType
  PROVE  LET q == DetailEnds(p)
         IN /\ q \in PanType /\ q.run = p.run /\ q.hist = p.hist /\ q.list = p.list
            /\ q.detail = None
  <1> DEFINE b == p.busy /\ pan.detail.why # "start"
  <1>1. b \in BOOLEAN BY DEF PanType
  <1>2. DetailEnds(p) = [p EXCEPT !.detail = None, !.busy = b]
    BY DEF DetailEnds
  <1> HIDE DEF b
  <1> QED BY <1>1, <1>2 DEF PanType

LEMMA ClosedOK == PanOK(Closed, None)
  <1>1. Closed \in PanType BY DEF Closed, PanType
  <1>2. Good(<<>>) BY AskConstants DEF Good
  <1> QED BY <1>1, <1>2 DEF PanOK, Closed

\* The drawer before its first operation.
LEMMA AskInitInv == AskInit => AskInv
  BY ClosedOK DEF AskInit, AskInv

\* Changing only flags, or dropping the list, keeps the panel's invariant.
LEMMA SameRun ==
  ASSUME NEW p, NEW q \in PanType, NEW w, PanOK(p, w),
         q.run = p.run, q.hist = p.hist, q.detail = p.detail,
         q.list = p.list \/ q.list = None \/ q.list.got = None
  PROVE  PanOK(q, w)
  BY DEF PanOK

LEMMA OpenCloseStep ==
  ASSUME AskInv, OpenAsk \/ CloseAsk \/ DeliverProposal
  PROVE  AskInv'
  <1>1. CASE OpenAsk
    <2> DEFINE q == [Closed EXCEPT !.open = TRUE, !.list = [why |-> "initial", got |-> None]]
    <2>1. q \in PanType /\ q.run = Closed.run /\ q.hist = Closed.hist /\ q.detail = Closed.detail
          /\ q.list.got = None
      <3>1. Closed \in PanType BY ClosedOK DEF PanOK
      <3>2. [why |-> "initial", got |-> None] \in ListRead BY DEF ListRead
      <3> QED BY <3>1, <3>2 DEF PanType
    <2>2. PanOK(q, None)
      BY <2>1, ClosedOK, SameRun
    <2> QED BY <1>1, <2>2 DEF OpenAsk, AskInv
  <1>2. CASE CloseAsk \/ DeliverProposal
    BY <1>2, ClosedOK DEF CloseAsk, DeliverProposal, AskInv
  <1> QED BY <1>1, <1>2

LEMMA ListStep ==
  ASSUME AskInv, RefreshHistory \/ ServeList \/ DeliverList \/ ListFails
  PROVE  AskInv'
  <1>0. pan \in PanType BY DEF AskInv, PanOK
  <1>1. CASE RefreshHistory
    <2>1. pan' = [pan EXCEPT !.list = [why |-> "manual", got |-> None]]
          /\ UNCHANGED <<svc, post, want>>
      BY <1>1 DEF RefreshHistory
    <2>2. pan' \in PanType /\ pan'.run = pan.run /\ pan'.hist = pan.hist
          /\ pan'.detail = pan.detail /\ pan'.list.got = None
      BY <1>0, <2>1 DEF PanType, ListRead
    <2> QED BY <2>1, <2>2, SameRun DEF AskInv
  <1>2. CASE ListFails
    <2>1. pan' = [pan EXCEPT !.list = None] /\ UNCHANGED <<svc, post, want>>
      BY <1>2 DEF ListFails
    <2>2. pan' \in PanType /\ pan'.run = pan.run /\ pan'.hist = pan.hist
          /\ pan'.detail = pan.detail /\ pan'.list = None
      BY <1>0, <2>1 DEF PanType
    <2> QED BY <2>1, <2>2, SameRun DEF AskInv
  <1>3. CASE ServeList
    <2>1. PICK n \in 0..Limit : \E rows \in [1..n -> {RowOf(r, svc[r]) : r \in Known}] :
            NewestFirst(rows) /\ pan' = [pan EXCEPT !.list.got = rows]
      BY <1>3 DEF ServeList
    <2>2. PICK rows \in [1..n -> {RowOf(r, svc[r]) : r \in Known}] :
            NewestFirst(rows) /\ pan' = [pan EXCEPT !.list.got = rows]
      BY <2>1
    <2>3. {RowOf(r, svc[r]) : r \in Known} \subseteq Row
      BY DEF AskInv, RowOf, Row, Known
    <2>4. n \in Nat /\ n <= Limit BY AskConstants
    <2>5. rows \in Seq(Row) /\ Len(rows) = n
      BY <2>2, <2>3, <2>4
    <2>6. \A i \in 1..n : rows[i].id \in Nat
      <3>1. \A i \in 1..n : rows[i] \in Row BY <2>5
      <3>2. \A row \in Row : row.id \in Nat BY AskConstants DEF Row
      <3> QED BY <3>1, <3>2
    <2>7. Good(rows)
      BY <2>2, <2>4, <2>5, <2>6 DEF Good, NewestFirst
    <2>8. pan.list \in ListRead /\ pan.list # None
      BY <1>0, <1>3 DEF ServeList, PanType
    <2>9. /\ pan' \in PanType /\ pan'.run = pan.run /\ pan'.hist = pan.hist
          /\ pan'.detail = pan.detail /\ pan'.list.got = rows
      BY <1>0, <2>2, <2>5, <2>8 DEF PanType, ListRead
    <2>10. PanOK(pan', want)
      BY <2>7, <2>9 DEF AskInv, PanOK
    <2> QED BY <1>3, <2>10 DEF ServeList, AskInv
  <1>4. CASE DeliverList
    <2> DEFINE items == pan.list.got
               h == IF pan.run = None THEN items
                    ELSE mergeQARunHistory(pan.run, items, "preserve")
               p == [pan EXCEPT !.list = None, !.hist = h]
    <2>1. pan.list \in ListRead /\ items \in Seq(Row) /\ Good(items)
      BY <1>0, <1>4 DEF DeliverList, PanType, ListRead, AskInv, PanOK
    <2>2. /\ h \in Seq(Row) /\ Good(h)
          /\ pan.run # None => Listed(pan.run.id, h) \/ Len(h) = Limit
      <3>1. CASE pan.run = None BY <2>1, <3>1
      <3>2. CASE pan.run # None
        <4>1. pan.run \in Row BY <1>0, <3>2 DEF PanType
        <4> QED BY <2>1, <3>2, <4>1, MergeGood
      <3> QED BY <3>1, <3>2
    <2>3. p \in PanType /\ p.run = pan.run /\ p.hist = h /\ p.list = None /\ p.detail = pan.detail
      <3> HIDE DEF h
      <3> QED BY <1>0, <2>2 DEF PanType
    <2>4. pan' = (IF pan.list.why = "initial" /\ items # <<>> /\ pan.run = None
                    THEN Claim(p, items[1], "initial") ELSE p)
      BY <1>4 DEF DeliverList, Merged
    <2>5. UNCHANGED <<svc, post, want>> BY <1>4 DEF DeliverList
    <2>6. CASE pan.list.why = "initial" /\ items # <<>> /\ pan.run = None
      <3>1. items[1] \in Row /\ h = items /\ 1 \in DOMAIN items
        BY <2>1, <2>6
      <3>2. pan' = Claim(p, items[1], "initial") BY <2>4, <2>6
      <3>3. Listed(items[1].id, items) BY <3>1 DEF Listed
      <3>4. want = None BY <2>6 DEF AskInv, PanOK
      <3> HIDE DEF p, h, items
      <3>5. svc \in [Runs -> Status] BY DEF AskInv
      <3>6. /\ pan' \in PanType /\ pan'.run = items[1] /\ pan'.hist = h /\ pan'.list = None
            /\ pan'.detail.run = items[1].id
        BY <2>3, <3>1, <3>2, <3>5, ClaimOK
      <3>7. items[1] # None BY <3>1, AskConstants
      <3>8. PanOK(pan', want)
        BY <2>2, <3>1, <3>3, <3>4, <3>6, <3>7 DEF PanOK
      <3> QED BY <2>5, <3>8 DEF AskInv
    <2>7. CASE ~(pan.list.why = "initial" /\ items # <<>> /\ pan.run = None)
      <3>1. pan' = p BY <2>4, <2>7
      <3> HIDE DEF p, h, items
      <3>2. PanOK(p, want) BY <2>2, <2>3 DEF AskInv, PanOK
      <3> QED BY <2>5, <3>1, <3>2 DEF AskInv
    <2> QED BY <2>6, <2>7
  <1> QED BY <1>1, <1>2, <1>3, <1>4

LEMMA SelectStep ==
  ASSUME AskInv, SelectRun \/ reloadSelectedAnswer
  PROVE  AskInv'
  <1>0. pan \in PanType /\ svc \in [Runs -> Status] BY DEF AskInv, PanOK
  <1>1. PICK row \in Row : Select(row) /\ (Listed(row.id, pan.hist) \/ Len(pan.hist) = Limit)
    <2>1. CASE SelectRun
      <3>1. PICK i \in DOMAIN pan.hist : Select(pan.hist[i])
        BY <2>1 DEF SelectRun
      <3>2. pan.hist[i] \in Row BY <1>0, <3>1 DEF PanType
      <3> QED BY <3>1, <3>2 DEF Listed
    <2>2. CASE reloadSelectedAnswer
      <3>1. pan.run \in Row /\ Select(pan.run)
        BY <1>0, <2>2 DEF reloadSelectedAnswer, PanType
      <3> QED BY <2>2, <3>1 DEF AskInv, PanOK, reloadSelectedAnswer
    <2> QED BY <2>1, <2>2
  <1>2. /\ pan' = Claim(pan, row, "select") /\ want' = row.id /\ UNCHANGED <<svc, post>>
    BY <1>1 DEF Select
  <1>3. /\ pan' \in PanType /\ pan'.run = row /\ pan'.hist = pan.hist /\ pan'.list = pan.list
        /\ pan'.detail.run = row.id
    BY <1>0, <1>2, ClaimOK
  <1>4. row # None BY AskConstants
  <1>5. PanOK(pan', want')
    BY <1>1, <1>2, <1>3, <1>4 DEF AskInv, PanOK
  <1> QED BY <1>2, <1>5 DEF AskInv

LEMMA DetailStep ==
  ASSUME AskInv, DeliverDetail \/ DetailFails
  PROVE  AskInv'
  <1>0. pan \in PanType /\ svc \in [Runs -> Status] /\ pan.detail # None
    BY DEF AskInv, PanOK, DeliverDetail, DetailFails
  <1>1. CASE DeliverDetail
    <2>1. PICK st \in Answers(pan.detail.run, pan.detail.low) :
            pan' = DetailEnds(Show(pan, RowOf(pan.detail.run, st),
                                   IF pan.detail.why = "start" THEN "prepend" ELSE "preserve"))
      BY <1>1 DEF DeliverDetail
    <2> DEFINE row == RowOf(pan.detail.run, st)
               mode == IF pan.detail.why = "start" THEN "prepend" ELSE "preserve"
               q == Show(pan, row, mode)
    <2>2. pan.detail \in DetailRead BY <1>0 DEF PanType
    <2>3. row \in Row /\ row.id = pan.detail.run
      BY <1>0, <2>2 DEF Answers, RowOf, Row, DetailRead
    <2>4. pan' = DetailEnds(q) BY <2>1
    <2>5. pan.run # None /\ pan.run.id = row.id /\ Good(pan.hist)
      BY <1>0, <2>3 DEF AskInv, PanOK
    <2>6. UNCHANGED <<svc, post, want>> BY <1>1 DEF DeliverDetail
    <2> HIDE DEF row, mode
    <2>7. q \in PanType /\ Good(q.hist) /\ q.run = row /\ q.list = pan.list
          /\ (Listed(row.id, q.hist) \/ Len(q.hist) = Limit)
      BY <1>0, <2>3, <2>5, ShowOK
    <2> HIDE DEF q
    <2>8. pan' \in PanType /\ pan'.run = row /\ pan'.hist = q.hist /\ pan'.list = pan.list
          /\ pan'.detail = None
      BY <2>4, <2>7, DetailEndsOK
    <2>9. row # None BY <2>3, AskConstants
    <2>10. PanOK(pan', want)
      BY <2>5, <2>7, <2>8, <2>9 DEF AskInv, PanOK
    <2> QED BY <2>6, <2>10 DEF AskInv
  <1>2. CASE DetailFails
    <2>1. pan' = DetailEnds(pan) /\ UNCHANGED <<svc, post, want>>
      BY <1>2 DEF DetailFails
    <2>2. pan' \in PanType /\ pan'.run = pan.run /\ pan'.hist = pan.hist /\ pan'.list = pan.list
          /\ pan'.detail = None
      BY <1>0, <2>1, DetailEndsOK
    <2>3. PanOK(pan', want) BY <2>2 DEF AskInv, PanOK
    <2> QED BY <2>1, <2>3 DEF AskInv
  <1> QED BY <1>1, <1>2

\* Setting a flag of the panel.
LEMMA FlagOK ==
  ASSUME NEW q, PanOK(pan, want), NEW b \in BOOLEAN,
         q = [pan EXCEPT !.busy = b] \/ q = [pan EXCEPT !.dialog = b]
  PROVE  PanOK(q, want)
  <1>1. pan \in PanType BY DEF PanOK
  <1>2. q \in PanType /\ q.run = pan.run /\ q.hist = pan.hist /\ q.list = pan.list
        /\ q.detail = pan.detail
    BY <1>1 DEF PanType
  <1> QED BY <1>2, SameRun

LEMMA AskStep ==
  ASSUME AskInv, Ask \/ ServePost \/ DeliverPost \/ PostFails
  PROVE  AskInv'
  <1>0. pan \in PanType /\ svc \in [Runs -> Status] /\ PanOK(pan, want)
    BY DEF AskInv, PanOK
  <1>1. CASE Ask
    <2>1. PanOK(pan', want) BY <1>0, <1>1, FlagOK DEF Ask
    <2> QED BY <1>1, <2>1 DEF Ask, AskInv
  <1>2. CASE ServePost
    BY <1>2 DEF ServePost, AskInv, Status
  <1>3. CASE DeliverPost
    <2> DEFINE row == RowOf(post.run, "active")
               p == Show(pan, row, "prepend")
    <2>1. post.run \in Runs /\ row \in Row /\ row.id = post.run
      BY <1>3 DEF DeliverPost, AskInv, RowOf, Row, Status
    <2>2. pan' = Claim(p, row, "start") /\ want' = row.id /\ post' = None /\ svc' = svc
      BY <1>3, <2>1 DEF DeliverPost
    <2> HIDE DEF row
    <2>3. p \in PanType /\ Good(p.hist) /\ p.list = pan.list
          /\ (Listed(row.id, p.hist) \/ Len(p.hist) = Limit)
      BY <1>0, <2>1, ShowOK DEF PanOK
    <2> HIDE DEF p
    <2>4. /\ pan' \in PanType /\ pan'.run = row /\ pan'.hist = p.hist /\ pan'.list = p.list
          /\ pan'.detail.run = row.id
      BY <1>0, <2>1, <2>2, <2>3, ClaimOK
    <2>5. row # None BY <2>1, AskConstants
    <2>6. PanOK(pan', want')
      BY <1>0, <2>2, <2>3, <2>4, <2>5 DEF PanOK
    <2> QED BY <2>2, <2>6 DEF AskInv
  <1>4. CASE PostFails
    <2>1. PanOK(pan', want) BY <1>0, <1>4, FlagOK DEF PostFails
    <2> QED BY <1>4, <2>1 DEF PostFails, AskInv
  <1> QED BY <1>1, <1>2, <1>3, <1>4

LEMMA ProposalStep ==
  ASSUME AskInv,
         openProposalConfirmation \/ CancelProposal \/ handleCreateProposalDraft \/ ProposalFails
  PROVE  AskInv'
  <1>0. PanOK(pan, want) BY DEF AskInv
  <1>1. CASE openProposalConfirmation \/ CancelProposal
    <2>1. PanOK(pan', want)
      BY <1>0, <1>1, FlagOK DEF openProposalConfirmation, Proposable, CancelProposal
    <2> QED BY <1>1, <2>1 DEF openProposalConfirmation, Proposable, CancelProposal, AskInv
  <1>2. CASE handleCreateProposalDraft \/ ProposalFails
    BY <1>2 DEF handleCreateProposalDraft, ProposalFails, AskInv
  <1> QED BY <1>1, <1>2

LEMMA ServiceStep == ASSUME AskInv, RunStarts \/ RunEnds PROVE AskInv'
  BY DEF RunStarts, RunEnds, AskInv, Status

LEMMA PollStep ==
  ASSUME AskInv,
         EnablePolling \/ DisablePolling \/ BrowserEvent
           \/ PollTimer \/ refreshQARun \/ PollFails \/ PollAborted
  PROVE  AskInv'
  <1>0. pan \in PanType /\ PanOK(pan, want) BY DEF AskInv, PanOK
  <1>1. CASE EnablePolling \/ DisablePolling \/ BrowserEvent \/ PollTimer \/ PollFails \/ PollAborted
    BY <1>1 DEF EnablePolling, DisablePolling, BrowserEvent, PollTimer, PollFails, PollAborted,
                askVars, AskInv
  <1>2. CASE refreshQARun
    <2>1. UNCHANGED <<svc, post, want>> BY <1>2 DEF refreshQARun
    <2>2. CASE UNCHANGED pan BY <2>1, <2>2 DEF AskInv
    <2>3. ASSUME NEW st \in {"active", "ended"}, Refreshed(st),
                 pan' = Show(pan, RowOf(target.run, st), "preserve")
          PROVE  AskInv'
      <3> DEFINE row == RowOf(target.run, st)
      <3>1. pan.run \in Row /\ pan.run.id = target.run
        BY <1>0, <2>3 DEF Refreshed, PanType
      <3>2. row \in Row /\ row.id = pan.run.id
        BY <2>3, <3>1 DEF RowOf, Row, Status
      <3>3. pan' = Show(pan, row, "preserve") BY <2>3
      <3> HIDE DEF row
      <3>4. /\ pan' \in PanType /\ Good(pan'.hist) /\ pan'.run = row /\ pan'.list = pan.list
            /\ pan'.detail = pan.detail
            /\ Listed(row.id, pan'.hist) \/ Len(pan'.hist) = Limit
        BY <1>0, <3>2, <3>3, ShowOK DEF PanOK
      <3>5. row # None BY <3>2, AskConstants
      <3>6. PanOK(pan', want) BY <1>0, <3>2, <3>4, <3>5 DEF PanOK
      <3> QED BY <2>1, <3>6 DEF AskInv
    <2> QED BY <1>2, <2>2, <2>3 DEF refreshQARun
  <1> QED BY <1>1, <1>2

LEMMA AskInvStep == AskInv /\ [AskNext]_AskVars => AskInv'
  <1> SUFFICES ASSUME AskInv, [AskNext]_AskVars PROVE AskInv'
    OBVIOUS
  <1>1. CASE OpenAsk \/ CloseAsk \/ DeliverProposal BY <1>1, OpenCloseStep
  <1>2. CASE RefreshHistory \/ ServeList \/ DeliverList \/ ListFails BY <1>2, ListStep
  <1>3. CASE SelectRun \/ reloadSelectedAnswer BY <1>3, SelectStep
  <1>4. CASE DeliverDetail \/ DetailFails BY <1>4, DetailStep
  <1>5. CASE Ask \/ ServePost \/ DeliverPost \/ PostFails BY <1>5, AskStep
  <1>6. CASE openProposalConfirmation \/ CancelProposal \/ handleCreateProposalDraft \/ ProposalFails
    BY <1>6, ProposalStep
  <1>7. CASE RunStarts \/ RunEnds BY <1>7, ServiceStep
  <1>8. CASE EnablePolling \/ DisablePolling \/ BrowserEvent
               \/ PollTimer \/ refreshQARun \/ PollFails \/ PollAborted
    BY <1>8, PollStep
  <1>9. CASE UNCHANGED AskVars
    BY <1>9 DEF AskVars, askVars, AskInv
  <1> QED
    BY <1>1, <1>2, <1>3, <1>4, <1>5, <1>6, <1>7, <1>8, <1>9 DEF AskNext

LEMMA AskInvHolds == AskSpec => []AskInv
  BY AskInitInv, AskInvStep, PTL DEF AskSpec

(* A run the user selected or started stays on screen, whichever list, detail, poll *)
(* or POST answers late (AskStagePanel's selection claims and request gates).       *)
THEOREM ChosenRunStays == AskSpec => []ChosenStays
  <1>1. AskInv => ChosenStays BY DEF AskInv, PanOK, ChosenStays
  <1> QED BY <1>1, AskInvHolds, PTL

(* The merged history names every run once, keeps within the limit and holds the   *)
(* shown run unless it is full (mergeQARunHistory).                                *)
THEOREM HistoryStaysASet == AskSpec => []HistoryIsASet
  <1>1. AskInv => HistoryIsASet
    BY DEF AskInv, PanOK, PanType, Good, HistoryIsASet
  <1> QED BY <1>1, AskInvHolds, PTL

-----------------------------------------------------------------------------
\* Merging an answer touches neither the busy flag nor the detail request.
LEMMA ShowBusy ==
  ASSUME NEW p \in PanType, NEW row, NEW mode
  PROVE  LET q == Show(p, row, mode)
         IN q.busy = p.busy /\ q.detail = p.detail
  <1> DEFINE merged == mergeQARunHistory(row, p.hist, mode)
  <1>1. Show(p, row, mode) = [p EXCEPT !.run = row, !.hist = merged] BY DEF Show
  <1> HIDE DEF merged
  <1> QED BY <1>1 DEF PanType

\* A claim that supersedes the first detail of a started run ends startQARun.
LEMMA ClaimBusy ==
  ASSUME NEW p \in PanType, NEW row, NEW why,
         LET q == Claim(p, row, why) IN q.busy
  PROVE  p.busy /\ (why = "start" \/ p.detail = None \/ p.detail.why # "start")
  <1> DEFINE b == p.busy /\ (why = "start" \/ p.detail = None \/ p.detail.why # "start")
             d == [run |-> row.id, why |-> why, low |-> svc[row.id]]
  <1>1. Claim(p, row, why) = [p EXCEPT !.run = row, !.busy = b, !.detail = d]
    BY DEF Claim
  <1> HIDE DEF d
  <1>2. Claim(p, row, why).busy = b
    <2> HIDE DEF b
    <2> QED BY <1>1 DEF PanType
  <1> QED BY <1>2

\* The busy flag survives the end of a detail only if it was not the started run's.
LEMMA DetailEndsBusy ==
  ASSUME NEW p \in PanType, LET q == DetailEnds(p) IN q.busy
  PROVE  p.busy /\ pan.detail.why # "start"
  <1> DEFINE b == p.busy /\ pan.detail.why # "start"
  <1>1. DetailEnds(p) = [p EXCEPT !.detail = None, !.busy = b] BY DEF DetailEnds
  <1>2. DetailEnds(p).busy = b
    <2> HIDE DEF b
    <2> QED BY <1>1 DEF PanType
  <1> QED BY <1>2

\* Steps that leave the flag, the detail request and the POST alone.
LEMMA BusyKept ==
  ASSUME BusyIsReal, pan'.busy = pan.busy, pan'.detail = pan.detail, post # None => post' # None
  PROVE  BusyIsReal'
  BY DEF BusyIsReal

LEMMA BusyAskStep ==
  ASSUME AskInv, BusyIsReal, Ask \/ ServePost \/ DeliverPost \/ PostFails
  PROVE  BusyIsReal'
  <1>0. pan \in PanType /\ svc \in [Runs -> Status] /\ PanOK(pan, want)
    BY DEF AskInv, PanOK
  <1>1. CASE Ask
    <2>1. post' # None
      <3>1. post' = [run |-> None] BY <1>1 DEF Ask
      <3>2. [run |-> None] \in [run : Runs \cup {None}] OBVIOUS
      <3> QED BY <3>1, <3>2, AskConstants
    <2> QED BY <2>1 DEF BusyIsReal
  <1>2. CASE ServePost
    <2>1. PICK r \in Runs : post' = [run |-> r] BY <1>2 DEF ServePost
    <2>2. post' \in [run : Runs \cup {None}] BY <2>1
    <2>3. post' # None BY <2>2, AskConstants
    <2> QED BY <1>2, <2>3, BusyKept DEF ServePost
  <1>3. CASE DeliverPost
    <2> DEFINE row == RowOf(post.run, "active")
               p == Show(pan, row, "prepend")
    <2>1. row \in Row
      BY <1>3 DEF DeliverPost, AskInv, RowOf, Row, Status
    <2>2. pan' = Claim(p, row, "start") BY <1>3 DEF DeliverPost
    <2> HIDE DEF row
    <2>3. p \in PanType BY <1>0, <2>1, ShowOK DEF PanOK
    <2> HIDE DEF p
    <2>4. pan'.detail = [run |-> row.id, why |-> "start", low |-> svc[row.id]]
      BY <1>0, <2>1, <2>2, <2>3, ClaimOK
    <2>5. pan'.detail \in [run : Runs, why : {"initial", "select", "start"}, low : Status]
      BY <1>0, <2>1, <2>4 DEF Row
    <2>6. pan'.detail # None /\ pan'.detail.why = "start" BY <2>4, <2>5, AskConstants
    <2> QED BY <2>6 DEF BusyIsReal
  <1>4. CASE PostFails
    <2>1. pan' = [pan EXCEPT !.busy = FALSE] BY <1>4 DEF PostFails
    <2>2. pan'.busy = FALSE BY <1>0, <2>1 DEF PanType
    <2> QED BY <2>2 DEF BusyIsReal
  <1> QED BY <1>1, <1>2, <1>3, <1>4

LEMMA BusyDetailStep ==
  ASSUME AskInv, BusyIsReal,
         DeliverDetail \/ DetailFails \/ SelectRun \/ reloadSelectedAnswer \/ DeliverList
  PROVE  BusyIsReal'
  <1>0. pan \in PanType /\ svc \in [Runs -> Status] /\ PanOK(pan, want)
    BY DEF AskInv, PanOK
  <1>1. CASE DeliverDetail
    <2>1. PICK st, mode : pan' = DetailEnds(Show(pan, RowOf(pan.detail.run, st), mode))
                          /\ st \in Answers(pan.detail.run, pan.detail.low)
      BY <1>1 DEF DeliverDetail
    <2> DEFINE row == RowOf(pan.detail.run, st)
               q == Show(pan, row, mode)
    <2>2. row \in Row
      BY <1>0, <1>1, <2>1 DEF DeliverDetail, PanType, DetailRead, Answers, RowOf, Row
    <2>3. pan' = DetailEnds(q) BY <2>1
    <2> HIDE DEF row
    <2>4. q \in PanType /\ q.busy = pan.busy
      BY <1>0, <2>2, ShowOK, ShowBusy DEF PanOK
    <2> HIDE DEF q
    <2>5. pan'.busy => pan.busy /\ pan.detail.why # "start"
      BY <2>3, <2>4, DetailEndsBusy
    <2>6. post' = post BY <1>1 DEF DeliverDetail
    <2> QED BY <2>5, <2>6 DEF BusyIsReal
  <1>2. CASE DetailFails
    <2>1. pan' = DetailEnds(pan) /\ post' = post BY <1>2 DEF DetailFails
    <2>2. pan'.busy => pan.busy /\ pan.detail.why # "start"
      BY <1>0, <2>1, DetailEndsBusy
    <2> QED BY <2>1, <2>2 DEF BusyIsReal
  <1>3. CASE SelectRun \/ reloadSelectedAnswer
    <2>1. PICK row : pan' = Claim(pan, row, "select") /\ post' = post
      BY <1>3 DEF SelectRun, reloadSelectedAnswer, Select
    <2>2. pan'.busy => pan.busy /\ (pan.detail = None \/ pan.detail.why # "start")
      BY <1>0, <2>1, ClaimBusy
    <2> QED BY <2>1, <2>2 DEF BusyIsReal
  <1>4. CASE DeliverList
    <2> DEFINE h == IF pan.run = None THEN pan.list.got
                    ELSE mergeQARunHistory(pan.run, pan.list.got, "preserve")
               p == [pan EXCEPT !.list = None, !.hist = h]
    <2>1. post' = post BY <1>4 DEF DeliverList
    <2>2. pan' = p \/ pan' = Claim(p, pan.list.got[1], "initial")
      BY <1>4 DEF DeliverList, Merged
    <2>3. h \in Seq(Row)
      <3>1. pan.list \in ListRead /\ pan.list.got \in Seq(Row) /\ Good(pan.list.got)
        BY <1>0, <1>4 DEF DeliverList, PanType, ListRead, PanOK
      <3>2. CASE pan.run # None
        <4>1. pan.run \in Row BY <1>0, <3>2 DEF PanType
        <4> QED BY <3>1, <3>2, <4>1, MergeGood
      <3> QED BY <3>1, <3>2
    <2> HIDE DEF h
    <2>4. p \in PanType /\ p.busy = pan.busy /\ p.detail = pan.detail
      BY <1>0, <2>3 DEF PanType
    <2> HIDE DEF p
    <2>5. CASE pan' = p BY <2>1, <2>4, <2>5, BusyKept
    <2>6. CASE pan' = Claim(p, pan.list.got[1], "initial")
      <3>1. pan'.busy => pan.busy /\ (pan.detail = None \/ pan.detail.why # "start")
        BY <2>4, <2>6, ClaimBusy
      <3> QED BY <2>1, <3>1 DEF BusyIsReal
    <2> QED BY <2>2, <2>5, <2>6
  <1> QED BY <1>1, <1>2, <1>3, <1>4

LEMMA BusyStep == AskInv /\ BusyIsReal /\ [AskNext]_AskVars => BusyIsReal'
  <1> SUFFICES ASSUME AskInv, BusyIsReal, [AskNext]_AskVars PROVE BusyIsReal'
    OBVIOUS
  <1>0. pan \in PanType BY DEF AskInv, PanOK
  <1>1. CASE OpenAsk \/ CloseAsk \/ DeliverProposal
    <2>1. ~Closed.busy /\ Closed \in PanType BY ClosedOK DEF Closed, PanOK
    <2>2. pan' = Closed \/ \E o, l : pan' = [Closed EXCEPT !.open = o, !.list = l]
      BY <1>1 DEF OpenAsk, CloseAsk, DeliverProposal
    <2>3. ~pan'.busy BY <2>1, <2>2 DEF PanType
    <2> QED BY <2>3 DEF BusyIsReal
  <1>2. CASE RefreshHistory \/ ServeList \/ ListFails
    <2>1. pan'.busy = pan.busy /\ pan'.detail = pan.detail /\ post' = post
      BY <1>0, <1>2 DEF RefreshHistory, ServeList, ListFails, PanType
    <2> QED BY <2>1, BusyKept
  <1>3. CASE SelectRun \/ reloadSelectedAnswer \/ DeliverDetail \/ DetailFails \/ DeliverList
    BY <1>3, BusyDetailStep
  <1>4. CASE Ask \/ ServePost \/ DeliverPost \/ PostFails BY <1>4, BusyAskStep
  <1>5. CASE openProposalConfirmation \/ CancelProposal \/ handleCreateProposalDraft \/ ProposalFails
    <2>1. pan'.busy = pan.busy /\ pan'.detail = pan.detail /\ post' = post
      BY <1>0, <1>5 DEF openProposalConfirmation, Proposable, CancelProposal,
                        handleCreateProposalDraft, ProposalFails, PanType
    <2> QED BY <2>1, BusyKept
  <1>6. CASE refreshQARun
    <2>1. post' = post /\ (pan' = pan \/ \E row, mode : pan' = Show(pan, row, mode))
      BY <1>6 DEF refreshQARun
    <2>2. pan'.busy = pan.busy /\ pan'.detail = pan.detail
      BY <1>0, <2>1, ShowBusy
    <2> QED BY <2>1, <2>2, BusyKept
  <1>7. CASE RunStarts \/ RunEnds \/ EnablePolling \/ DisablePolling \/ BrowserEvent
               \/ PollTimer \/ PollFails \/ PollAborted \/ UNCHANGED AskVars
    <2>1. pan' = pan /\ post' = post
      BY <1>7 DEF RunStarts, RunEnds, EnablePolling, DisablePolling, BrowserEvent, PollTimer,
                  PollFails, PollAborted, AskVars, askVars
    <2> QED BY <2>1, BusyKept
  <1> QED
    BY <1>1, <1>2, <1>3, <1>4, <1>5, <1>6, <1>7 DEF AskNext

(* The composer's button is never stuck: startQARun is busy only while its POST or *)
(* the first detail of its run is under way, whatever supersedes or aborts it.     *)
THEOREM BusyStaysReal == AskSpec => []BusyIsReal
  <1>1. AskInit => BusyIsReal BY DEF AskInit, Closed, BusyIsReal
  <1> QED BY <1>1, AskInvHolds, BusyStep, PTL DEF AskSpec

-----------------------------------------------------------------------------
\* The drawer touches the loop only through the loop's own actions.
LEMMA AskStepIsLoopStep == [AskNext]_AskVars => [Next]_vars
  <1> SUFFICES ASSUME [AskNext]_AskVars PROVE [Next]_vars
    OBVIOUS
  <1>1. CASE OpenAsk \/ CloseAsk \/ DeliverProposal
    BY <1>1 DEF OpenAsk, CloseAsk, DeliverProposal
  <1>2. CASE RefreshHistory \/ ServeList \/ DeliverList \/ ListFails
    BY <1>2 DEF RefreshHistory, ServeList, DeliverList, ListFails
  <1>3. CASE SelectRun \/ reloadSelectedAnswer
    BY <1>3 DEF SelectRun, reloadSelectedAnswer, Select
  <1>4. CASE DeliverDetail \/ DetailFails
    BY <1>4 DEF DeliverDetail, DetailFails
  <1>5. CASE Ask \/ ServePost \/ DeliverPost \/ PostFails
    BY <1>5 DEF Ask, ServePost, DeliverPost, PostFails
  <1>6. CASE openProposalConfirmation \/ CancelProposal \/ handleCreateProposalDraft \/ ProposalFails
    BY <1>6 DEF openProposalConfirmation, Proposable, CancelProposal, handleCreateProposalDraft, ProposalFails
  <1>7. CASE RunStarts \/ RunEnds
    BY <1>7 DEF RunStarts, RunEnds
  <1>8. CASE EnablePolling \/ DisablePolling \/ BrowserEvent \/ PollTimer
    BY <1>8 DEF EnablePolling, DisablePolling, BrowserEvent, PollTimer, Next
  <1>9. CASE refreshQARun \/ PollFails \/ PollAborted
    BY <1>9 DEF refreshQARun, PollFails, PollAborted, Settle, Next
  <1>10. CASE UNCHANGED AskVars
    BY <1>10 DEF AskVars
  <1> QED
    BY <1>1, <1>2, <1>3, <1>4, <1>5, <1>6, <1>7, <1>8, <1>9, <1>10 DEF AskNext

(* Composed with the drawer, usePollingLoop keeps its invariant: opening, closing,  *)
(* selecting and asking never stall the loop or leave a request it does not await. *)
THEOREM DrawerKeepsLoop == AskSpec => []PollingInv
  <1>1. AskInit => PollingInv BY PollingInit DEF AskInit
  <1>2. PollingInv /\ [AskNext]_AskVars => PollingInv'
    BY PollingStep, AskStepIsLoopStep
  <1> QED BY <1>1, <1>2, PTL DEF AskSpec

(* In the drawer too, at most one poll of the loop is not aborted.                  *)
THEOREM DrawerHasNoChurn == AskSpec => []OneLiveRequest
  BY DrawerKeepsLoop, InvGivesOneLive, PTL

(* Composed with the drawer, whose own steps stutter, usePollingLoop still keeps its *)
(* contract: what the drawer asks of the loop is never outside of what it promises.  *)
THEOREM DrawerKeepsContractSteps ==
  AskSpec => Contract!Init /\ [][Contract!Next]_(Contract!vars)
  <1>1. AskInit => Contract!Init
    BY DEF AskInit, Init, Contract!Init, Phase, isPaused
  <1>2. PollingInv /\ PollingInv' /\ [AskNext]_AskVars => [Contract!Next]_(Contract!vars)
    BY AskStepIsLoopStep, ContractStep
  <1> QED BY <1>1, <1>2, DrawerKeepsLoop, PTL DEF AskSpec
=============================================================================
