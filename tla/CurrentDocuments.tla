-------------------------- MODULE CurrentDocuments --------------------------
(***************************************************************************)
(* The current workspace in the web console (App.tsx, KnowledgePage.tsx):  *)
(* the inventory of promoted documents, the document an address names      *)
(* (currentArtifactPath), and the reader of the Architecture page.         *)
(*                                                                         *)
(* The inventory is read in two requests that may fail apart, documents    *)
(* are opened by the user, by effects that follow the address and by the   *)
(* Ask drawer, and runs change the workspace meanwhile.  A request gate    *)
(* (useRequestGate) holds at most one request: a superseded or aborted one *)
(* is not looked at again.  The reader has no gate, only a flag.           *)
(***************************************************************************)
EXTENDS FiniteSets, Integers

CONSTANTS
  Docs,       \* documents of the workspace, by path
  Home,       \* the document the reader prefers
  None,       \* no document, nothing loaded, no request
  MaxMoves,   \* bound: events of the user and of runs
  MaxFaults   \* bound: failing requests

ASSUME DocumentsConstants ==
  /\ Home \in Docs /\ None \notin Docs
  /\ None \notin [step : {"architecture", "knowledge", "fallback"}, got : (SUBSET Docs) \cup {None}]
  /\ MaxMoves \in Nat /\ MaxFaults \in Nat

VARIABLES
  files,   \* the promoted documents there are
  inv,     \* the console's inventory: architecture, knowledge, status and request
  addr,    \* the address: page and document
  load,    \* the request of the current-artifact gate
  prop,    \* the ungated load of a proposal the Ask drawer created
  shown,   \* currentArtifactPath
  told,    \* history: a document was reported missing since the address was set
  reader,  \* DocumentsWorkspace
  due,     \* effects of the last render have not run yet
  moves, faults

vars == <<files, inv, addr, load, prop, shown, told, reader, due, moves, faults>>

Pages == {"documents", "current", "other"}

Closed == [sel |-> None, st |-> "idle", has |-> None, reads |-> {}]

-----------------------------------------------------------------------------
(* The inventory *)

\* refreshKnowledge up to its first await.
Refreshed(i) == [i EXCEPT !.status = "loading", !.req = [step |-> "architecture", got |-> None]]

\* handleTaskOutcomeSettled, or a console refresh.
Refresh ==
  /\ moves < MaxMoves /\ moves' = moves + 1
  /\ inv' = Refreshed(inv) /\ due' = TRUE
  /\ UNCHANGED <<files, addr, load, prop, shown, told, reader, faults>>

\* /api/architecture and /api/knowledge list the same files, each when it is asked.
ServeInventory ==
  /\ inv.req # None /\ inv.req.got = None
  /\ inv' = [inv EXCEPT !.req.got = files]
  /\ UNCHANGED <<files, addr, load, prop, shown, told, reader, due, moves, faults>>

\* The documents of an architecture made up from the knowledge are the knowledge's.
architectureFromKnowledge(knowledge) == knowledge

\* refreshKnowledge after an answer: the architecture, then the knowledge it is completed by.
DeliverInventory ==
  /\ inv.req # None /\ inv.req.got # None
  /\ inv' = CASE inv.req.step = "architecture" -> [inv EXCEPT !.arch = inv.req.got, !.req = [step |-> "knowledge", got |-> None]]
              [] inv.req.step = "knowledge" -> [inv EXCEPT !.know = inv.req.got, !.status = "loaded", !.req = None]
              [] OTHER -> [inv EXCEPT !.arch = architectureFromKnowledge(inv.req.got), !.know = inv.req.got, !.status = "loaded", !.req = None]
  /\ due' = TRUE
  /\ UNCHANGED <<files, addr, load, prop, shown, told, reader, moves, faults>>

\* refreshKnowledge after a failure: without the architecture the knowledge stands in for it,
\* without the knowledge the architecture is enough.
AfterFailure(i) ==
  CASE i.req.step = "architecture" -> [i EXCEPT !.req = [step |-> "fallback", got |-> None]]
    [] i.req.step = "knowledge" -> [i EXCEPT !.know = None, !.status = "loaded", !.req = None]
    [] OTHER -> [i EXCEPT !.arch = None, !.know = None, !.status = "error", !.req = None]

InventoryFails ==
  /\ inv.req # None /\ faults > 0 /\ faults' = faults - 1
  /\ inv' = AfterFailure(inv)
  /\ due' = (due \/ inv.req.step # "architecture")
  /\ UNCHANGED <<files, addr, load, prop, shown, told, reader, moves>>

Listed(i) == UNION ({i.arch, i.know} \ {None})

-----------------------------------------------------------------------------
(* Addresses and the current document *)

\* navigateRoute
Go(page, doc) == addr' = [page |-> page, doc |-> doc] /\ due' = TRUE

\* The user follows a link, goes back, or returns to Ask.
Navigate(page, doc) ==
  /\ moves < MaxMoves /\ moves' = moves + 1
  /\ page = "other" => doc = None
  /\ Go(page, doc) /\ told' = FALSE
  /\ UNCHANGED <<files, inv, load, prop, shown, reader, faults>>

\* handleOpenCurrentArtifact up to its await; a citation of the Ask drawer ends here too.
OpenCurrent(d) ==
  /\ moves < MaxMoves /\ moves' = moves + 1
  /\ load' = [doc |-> d, why |-> "open"]
  /\ UNCHANGED <<files, inv, addr, prop, shown, told, reader, due, faults>>

Show(d) == shown' = d

\* The answer for an opened document moves the address; the effect's only fills the page.
DeliverLoad ==
  /\ load # None /\ load.doc \in files
  /\ load' = None /\ Show(load.doc)
  /\ IF load.why = "open"
       THEN Go("current", load.doc) /\ told' = FALSE
       ELSE due' = (due \/ shown # load.doc) /\ UNCHANGED <<addr, told>>
  /\ UNCHANGED <<files, inv, prop, reader, moves, faults>>

\* The document is missing or the request fails: a notice, and nothing else.
LoadFails ==
  /\ load # None
  /\ \/ load.doc \notin files /\ UNCHANGED faults
     \/ faults > 0 /\ faults' = faults - 1
  /\ load' = None
  /\ told' = TRUE
  /\ UNCHANGED <<files, inv, addr, prop, shown, reader, due, moves>>

\* handleQAProposalCreated up to its awaits: the Ask drawer wrote a proposal into the workspace.
CreateProposal(d) ==
  /\ moves < MaxMoves /\ moves' = moves + 1
  /\ prop = None /\ d \notin files
  /\ files' = files \cup {d} /\ prop' = [doc |-> d, why |-> "created"]
  /\ UNCHANGED <<inv, addr, load, shown, told, reader, due, faults>>

\* handleOpenCreatedProposalArtifact up to its await.
OpenProposal(d) ==
  /\ moves < MaxMoves /\ moves' = moves + 1
  /\ prop = None /\ addr.page # "documents"
  /\ prop' = [doc |-> d, why |-> "open"]
  /\ UNCHANGED <<files, inv, addr, load, shown, told, reader, due, faults>>

\* Their answer; a created proposal takes the page to itself, whatever it shows by then.
DeliverProposal ==
  /\ prop # None /\ prop' = None
  /\ IF prop.doc \in files THEN Show(prop.doc) ELSE UNCHANGED shown
  /\ IF prop.why = "created"
       THEN Go("current", prop.doc) /\ told' = FALSE
       ELSE due' = (due \/ shown' # shown) /\ UNCHANGED <<addr, told>>
  /\ UNCHANGED <<files, inv, load, reader, moves, faults>>

\* The request is lost, and with it the rest of the handler.
ProposalLost ==
  /\ prop # None /\ faults > 0 /\ faults' = faults - 1
  /\ prop' = None
  /\ UNCHANGED <<files, inv, addr, load, shown, told, reader, due, moves>>

-----------------------------------------------------------------------------
(* The reader of the Architecture page *)

Mounted == addr.page = "documents" /\ inv.arch # None

\* The document shown first: the home, or the first of the list.
architectureHomePath(docs) == IF Home \in docs THEN Home ELSE CHOOSE d \in docs : TRUE

\* selectedPath: the address's document if it is listed, else the one shown first.
Selected ==
  IF addr.doc \in inv.arch THEN addr.doc
  ELSE IF inv.arch # {} THEN architectureHomePath(inv.arch)
  ELSE None

\* Mutant of Abandoned: the clean-up of the effect does not lower its flag.
AbandonedStaysLive(reads) == reads

\* The clean-up of the effect lowers the flag of its request.
Abandoned(reads) == {[r EXCEPT !.live = FALSE] : r \in reads}

\* The effect on selectedPath.
ReadEffect ==
  IF ~Mounted THEN Closed
  ELSE IF reader.sel = Selected THEN reader
  ELSE [sel |-> Selected, st |-> IF Selected = None THEN "idle" ELSE "loading",
        has |-> IF Selected = None THEN None ELSE reader.has,
        reads |-> Abandoned(reader.reads) \cup (IF Selected = None THEN {} ELSE {[doc |-> Selected, live |-> TRUE]})]

\* The answer of /api/artifacts reaches the effect that asked.
DeliverRead(r) ==
  /\ r \in reader.reads
  /\ reader' = IF ~r.live THEN [reader EXCEPT !.reads = @ \ {r}]
               ELSE [reader EXCEPT !.reads = @ \ {r}, !.has = IF r.doc \in files THEN r.doc ELSE None,
                                   !.st = IF r.doc \in files THEN "loaded" ELSE "error"]
  /\ UNCHANGED <<files, inv, addr, load, prop, shown, told, due, moves, faults>>

\* The request is rejected; nobody catches it.
ReadLost(r) ==
  /\ r \in reader.reads /\ faults > 0 /\ faults' = faults - 1
  /\ reader' = [reader EXCEPT !.reads = @ \ {r}]
  /\ UNCHANGED <<files, inv, addr, load, prop, shown, told, due, moves>>

-----------------------------------------------------------------------------
(* The effects of a render *)

\* The document an address on the current workspace names.
Addressed == IF addr.page = "current" THEN addr.doc ELSE None

\* Mutant of Unlisted: without the knowledge every document is taken for listed.
UnlistedWithKnowledge == Addressed # None /\ inv.status # "loading" /\ inv.know # None /\ Addressed \notin Listed(inv)

Unlisted == Addressed # None /\ inv.status # "loading" /\ Addressed \notin Listed(inv)

\* Mutant of NextLoad: a load that is being aborted counts as one under way.
NextLoadOnce ==
  IF Addressed = None \/ inv.status = "loading" \/ Unlisted \/ shown = Addressed \/ load # None THEN None
  ELSE [doc |-> Addressed, why |-> "effect"]

\* The clean-up aborts the gate; the effect loads the document that is not shown yet.
NextLoad ==
  IF Addressed = None \/ inv.status = "loading" \/ Unlisted \/ shown = Addressed THEN None
  ELSE [doc |-> Addressed, why |-> "effect"]

\* The effects of DocumentsWorkspace and of App, after the render that changed what they follow.
\* An address that names what is not listed loses it.
Effects ==
  /\ due
  /\ reader' = ReadEffect /\ load' = NextLoad
  /\ IF Unlisted THEN Go("current", None) /\ shown' = None /\ told' = TRUE
     ELSE /\ UNCHANGED <<shown, told>>
          /\ IF Mounted /\ Selected \notin {None, addr.doc} THEN Go("documents", Selected)
             ELSE due' = FALSE /\ UNCHANGED addr
  /\ UNCHANGED <<files, inv, prop, moves, faults>>

-----------------------------------------------------------------------------

\* A run promotes a document, or drops one.
Promote(d) ==
  /\ moves < MaxMoves /\ moves' = moves + 1
  /\ files' = IF d \in files THEN files \ {d} ELSE files \cup {d}
  /\ UNCHANGED <<inv, addr, load, prop, shown, told, reader, due, faults>>

\* The console becomes ready with its first refresh under way, at the address of a deep link.
Init ==
  /\ files \in SUBSET Docs
  /\ inv = Refreshed([arch |-> None, know |-> None, status |-> "idle", req |-> None])
  /\ addr \in [page : {"documents", "current"}, doc : Docs \cup {None}] \cup {[page |-> "other", doc |-> None]}
  /\ load = None /\ prop = None /\ shown = None /\ told = FALSE
  /\ reader = Closed /\ due = TRUE
  /\ moves = 0 /\ faults = MaxFaults

User ==
  \/ Refresh
  \/ \E page \in Pages, d \in Docs \cup {None} : Navigate(page, d)
  \/ \E d \in Docs : OpenCurrent(d) \/ CreateProposal(d) \/ OpenProposal(d)

Answers ==
  \/ DeliverInventory \/ InventoryFails
  \/ DeliverLoad \/ LoadFails
  \/ DeliverProposal \/ ProposalLost
  \/ \E r \in reader.reads : DeliverRead(r) \/ ReadLost(r)

Next == User \/ (\E d \in Docs : Promote(d)) \/ ServeInventory \/ Answers \/ Effects

Spec == Init /\ [][Next]_vars

\* The browser runs the effects of a render, and every request is answered or fails.
Fairness ==
  /\ WF_vars(Effects)
  /\ WF_vars(ServeInventory) /\ WF_vars(DeliverInventory \/ InventoryFails)
  /\ WF_vars(DeliverLoad \/ LoadFails)
  /\ \A d \in Docs : WF_vars(DeliverRead([doc |-> d, live |-> TRUE]))

LiveSpec == Spec /\ Fairness

-----------------------------------------------------------------------------
(* Properties *)

Catalogue == (SUBSET Docs) \cup {None}

\* Every variable keeps its type; in particular the inventory is loading exactly while one of
\* its requests is under way (refreshKnowledge), so the page never waits for nothing.
TypeOK ==
  /\ files \in SUBSET Docs
  /\ inv \in [arch : Catalogue, know : Catalogue, status : {"loading", "loaded", "error"},
              req : [step : {"architecture", "knowledge", "fallback"}, got : Catalogue] \cup {None}]
  /\ inv.status = "loading" <=> inv.req # None
  /\ addr \in [page : Pages, doc : Docs \cup {None}]
  /\ load = None \/ load \in [doc : Docs, why : {"open", "effect"}]
  /\ prop = None \/ prop \in [doc : Docs, why : {"created", "open"}]
  /\ shown \in Docs \cup {None} /\ {told, due} \subseteq BOOLEAN
  /\ reader \in [sel : Docs \cup {None}, st : {"idle", "loading", "loaded", "error"},
                 has : Docs \cup {None}, reads : SUBSET [doc : Docs, live : BOOLEAN]]
  /\ moves \in 0..MaxMoves /\ faults \in 0..MaxFaults

\* The reader never shows one document under the name of another: what it shows as loaded is
\* the selected document and the one the address names, however late earlier answers come
\* (the flag of the effect in DocumentsWorkspace).
ReaderIsOfSelected ==
  ~due /\ Mounted /\ reader.st = "loaded" => reader.has = Selected /\ addr.doc = Selected

\* Once the inventory is there, an address names a listed document or none, although the two
\* halves of the inventory were read at different times and one of them may have failed
\* (the current-artifact effect of App).
AddressIsListed ==
  ~due /\ Addressed # None /\ inv.status # "loading" => Addressed \in Listed(inv)

\* Types, with the inventory that is loading only while it is asked for, and the address in it
\* (refreshKnowledge, the current-artifact effect).
DocumentsInv == TypeOK /\ AddressIsListed

\* A document the address names is shown, or the address changes, or a notice is given: also when
\* a refresh, another opening or a late proposal aborts its load on the way (the current-artifact
\* effect of App, which has to start it again).  When an opening fails the notice names that one.
AddressIsAnswered == \A d \in Docs : Addressed = d ~> shown = d \/ told \/ Addressed # d
=============================================================================
