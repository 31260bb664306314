--------------------------- MODULE PollingContract ---------------------------
(***************************************************************************)
(* What a page of the web console may expect of its polling loop, whatever *)
(* the timers and requests behind it do: while the page wants updates and  *)
(* the tab can ask for them, a request is under way or due, and every one  *)
(* that is due is asked.                                                   *)
(***************************************************************************)
VARIABLES
  on,     \* the page wants updates
  awake,  \* the tab is visible and online
  phase   \* "off", "waiting" for the next request, "asking"

vars == <<on, awake, phase>>

Init == on = FALSE /\ awake = TRUE /\ phase = "off"

SwitchOn ==
  /\ ~on
  /\ on' = TRUE
  /\ phase' = IF awake THEN "waiting" ELSE "off"
  /\ UNCHANGED awake

SwitchOff ==
  /\ on
  /\ on' = FALSE
  /\ phase' = "off"
  /\ UNCHANGED awake

\* A request under way is left to end; a wait may be given up.
Sleep ==
  /\ awake
  /\ awake' = FALSE
  /\ phase' \in {phase} \cup IF phase = "waiting" THEN {"off"} ELSE {}
  /\ UNCHANGED on

\* Losing the second of two reasons to be awake gives up the wait as well.
SleepDeeper ==
  /\ ~awake
  /\ phase = "waiting"
  /\ phase' = "off"
  /\ UNCHANGED <<on, awake>>

Wake ==
  /\ ~awake
  /\ awake' = TRUE
  /\ phase' = IF on /\ phase = "off" THEN "waiting" ELSE phase
  /\ UNCHANGED on

Ask ==
  /\ phase = "waiting"
  /\ phase' = IF awake THEN "asking" ELSE "off"
  /\ UNCHANGED <<on, awake>>

Settle ==
  /\ phase = "asking"
  /\ phase' = IF awake THEN "waiting" ELSE "off"
  /\ UNCHANGED <<on, awake>>

Next == SwitchOn \/ SwitchOff \/ Sleep \/ SleepDeeper \/ Wake \/ Ask \/ Settle

Spec == Init /\ [][Next]_vars /\ WF_vars(Ask) /\ WF_vars(Settle)
=============================================================================
