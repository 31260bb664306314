----------------------- MODULE CurrentDocumentsProofs -----------------------
(***************************************************************************)
(* Proofs about the current workspace's documents, for any documents and   *)
(* any number of events and failures: the page waits only for requests it  *)
(* has sent, the address is in the inventory, and the reader shows the     *)
(* document it names.                                                      *)
(***************************************************************************)
EXTENDS CurrentDocuments, TLAPS

\* The reader listens to nobody but the document it has selected, and once the effects have
\* run that is the one the inventory and the address select.
ReaderInv ==
  /\ \A r \in reader.reads : r.live => r.doc = reader.sel
  /\ reader.st = "loaded" => reader.has = reader.sel /\ reader.sel # None
  /\ ~due /\ Mounted => reader.sel = Selected /\ Selected \in {None, addr.doc}

\* The inductive invariant.
DocInv == TypeOK /\ AddressIsListed /\ ReaderInv

Requests == [step : {"architecture", "knowledge", "fallback"}, got : Catalogue]
Inventories == [arch : Catalogue, know : Catalogue, status : {"loading", "loaded", "error"},
                req : Requests \cup {None}]

\* An inventory is loading exactly while one of its requests is under way.
InventoryOK(i) == i \in Inventories /\ (i.status = "loading" <=> i.req # None)

\* A request of the inventory is not its absence.
LEMMA RequestsAreReal == ASSUME NEW r \in Requests PROVE r # None
  BY DocumentsConstants DEF Requests, Catalogue

\* Every step of a refresh leaves a proper inventory.
LEMMA RefreshedOK ==
  ASSUME NEW i, i.arch \in Catalogue, i.know \in Catalogue,
         i = [arch |-> i.arch, know |-> i.know, status |-> i.status, req |-> i.req]
  PROVE  InventoryOK(Refreshed(i))
  <1> DEFINE r == [step |-> "architecture", got |-> None]
  <1>1. r \in Requests /\ r # None BY RequestsAreReal DEF Requests, Catalogue
  <1>2. Refreshed(i) = [i EXCEPT !.status = "loading", !.req = r] BY DEF Refreshed
  <1> HIDE DEF r
  <1> QED BY <1>1, <1>2 DEF InventoryOK, Inventories

LEMMA InventoryFacts ==
  ASSUME TypeOK
  PROVE  InventoryOK(inv) /\ (inv.req # None => inv.req \in Requests)
  BY DEF TypeOK, InventoryOK, Inventories, Requests

LEMMA AfterFailureOK ==
  ASSUME TypeOK, inv.req # None
  PROVE  /\ InventoryOK(AfterFailure(inv))
         /\ inv.req.step = "architecture" =>
              LET i == AfterFailure(inv)
              IN i.arch = inv.arch /\ i.know = inv.know /\ i.status = inv.status
  <1>0. InventoryOK(inv) /\ inv \in Inventories /\ inv.req \in Requests
    BY InventoryFacts DEF InventoryOK
  <1> DEFINE r == [step |-> "fallback", got |-> None]
  <1>1. r \in Requests /\ r # None BY RequestsAreReal DEF Requests, Catalogue
  <1>2. CASE inv.req.step = "architecture"
    <2>1. AfterFailure(inv) = [inv EXCEPT !.req = r] BY <1>2 DEF AfterFailure
    <2> HIDE DEF r
    <2> QED BY <1>0, <1>1, <2>1 DEF InventoryOK, Inventories
  <1>3. CASE inv.req.step = "knowledge"
    <2>1. AfterFailure(inv) = [inv EXCEPT !.know = None, !.status = "loaded", !.req = None]
      BY <1>3 DEF AfterFailure
    <2> QED BY <1>0, <1>3, <2>1 DEF InventoryOK, Inventories, Catalogue
  <1>4. CASE inv.req.step = "fallback"
    <2>1. AfterFailure(inv) = [inv EXCEPT !.arch = None, !.know = None, !.status = "error", !.req = None]
      BY <1>4 DEF AfterFailure
    <2> QED BY <1>0, <1>4, <2>1 DEF InventoryOK, Inventories, Catalogue
  <1> QED BY <1>0, <1>2, <1>3, <1>4 DEF Requests

LEMMA DeliveredOK ==
  ASSUME TypeOK, DeliverInventory
  PROVE  InventoryOK(inv')
  <1>0. inv \in Inventories /\ inv.req \in Requests /\ inv.req.got \in Catalogue
    BY InventoryFacts DEF InventoryOK, DeliverInventory, Requests
  <1> DEFINE r == [step |-> "knowledge", got |-> None]
             g == inv.req.got
  <1>1. r \in Requests /\ r # None BY RequestsAreReal DEF Requests, Catalogue
  <1>2. \/ inv' = [inv EXCEPT !.arch = g, !.req = r] /\ inv.status = "loading"
        \/ inv' = [inv EXCEPT !.know = g, !.status = "loaded", !.req = None]
        \/ inv' = [inv EXCEPT !.arch = g, !.know = g, !.status = "loaded", !.req = None]
    <2>1. inv.status = "loading" BY InventoryFacts DEF InventoryOK, DeliverInventory
    <2> QED BY <2>1 DEF DeliverInventory, architectureFromKnowledge
  <1> HIDE DEF r, g
  <1>3. g \in Catalogue BY <1>0 DEF g
  <1> QED BY <1>0, <1>1, <1>2, <1>3 DEF InventoryOK, Inventories

-----------------------------------------------------------------------------
\* While effects are due nothing is promised of address and selection.
LEMMA WhenDue ==
  ASSUME ReaderInv, due' = TRUE, reader' = reader
  PROVE  AddressIsListed' /\ ReaderInv'
  BY DEF ReaderInv, AddressIsListed

\* Steps that touch neither the address nor the lists.
LEMMA WhenSame ==
  ASSUME AddressIsListed, ReaderInv, addr' = addr, due => due', reader' = reader,
         inv'.arch = inv.arch, inv'.know = inv.know, inv'.status = inv.status
  PROVE  AddressIsListed' /\ ReaderInv'
  <1>1. Mounted' = Mounted /\ Selected' = Selected /\ Addressed' = Addressed
    BY DEF Mounted, Selected, Addressed
  <1>2. Listed(inv') = Listed(inv) BY DEF Listed
  <1>3. AddressIsListed' BY <1>1, <1>2 DEF AddressIsListed
  <1>4. ReaderInv' BY <1>1 DEF ReaderInv
  <1> QED BY <1>3, <1>4

\* The selected document is one of the inventory's.
LEMMA SelectedOK == ASSUME TypeOK, Mounted PROVE Selected \in Docs \cup {None}
  <1>1. inv.arch \in SUBSET Docs BY DEF TypeOK, Mounted, Catalogue
  <1> QED BY <1>1 DEF Selected, architectureHomePath

LEMMA DocInit == Init => DocInv
  <1> SUFFICES ASSUME Init PROVE DocInv
    OBVIOUS
  <1>1. InventoryOK(inv) BY RefreshedOK DEF Init, Catalogue
  <1>2. Home \in Docs /\ None \notin Docs /\ MaxMoves \in Nat /\ MaxFaults \in Nat
    BY DocumentsConstants
  <1>3. TypeOK
    <2>1. addr \in [page : Pages, doc : Docs \cup {None}] BY DEF Init, Pages
    <2>2. reader \in [sel : Docs \cup {None}, st : {"idle", "loading", "loaded", "error"},
                      has : Docs \cup {None}, reads : SUBSET [doc : Docs, live : BOOLEAN]]
      BY DEF Init, Closed
    <2>3. inv \in Inventories /\ (inv.status = "loading" <=> inv.req # None)
      BY <1>1 DEF InventoryOK
    <2>4. moves \in 0..MaxMoves /\ faults \in 0..MaxFaults /\ files \in SUBSET Docs
      BY <1>2 DEF Init
    <2>5. told \in BOOLEAN /\ due \in BOOLEAN /\ load = None /\ prop = None /\ shown = None
      BY DEF Init
    <2> QED BY <2>1, <2>2, <2>3, <2>4, <2>5 DEF TypeOK, Inventories, Requests
  <1> QED BY <1>3 DEF Init, DocInv, AddressIsListed, ReaderInv, Closed

LEMMA UserStep == ASSUME DocInv, User \/ (\E d \in Docs : Promote(d)) PROVE DocInv'
  <1>0. TypeOK /\ AddressIsListed /\ ReaderInv BY DEF DocInv
  <1>n. moves < MaxMoves /\ moves' = moves + 1 => moves' \in 0..MaxMoves
    BY <1>0, DocumentsConstants DEF TypeOK
  <1>1. CASE Refresh
    <2>1. InventoryOK(inv')
      BY <1>0, <1>1, RefreshedOK DEF Refresh, TypeOK
    <2>2. TypeOK'
      <3>1. due' \in BOOLEAN /\ told' \in BOOLEAN /\ moves' \in 0..MaxMoves
            /\ UNCHANGED <<files, addr, load, prop, shown, reader, faults>>
        BY <1>0, <1>1, <1>n DEF Refresh, TypeOK
      <3>2. inv' \in Inventories /\ (inv'.status = "loading" <=> inv'.req # None)
        BY <2>1 DEF InventoryOK
      <3> QED BY <1>0, <3>1, <3>2 DEF TypeOK, Inventories, Requests
    <2> QED BY <1>0, <1>1, <2>2, WhenDue DEF Refresh, DocInv
  <1>2. CASE \E page \in Pages, d \in Docs \cup {None} : Navigate(page, d)
    <2>1. due' = TRUE /\ UNCHANGED reader BY <1>2 DEF Navigate, Go
    <2>2. TypeOK'
      <3>1. PICK page \in Pages, d \in Docs \cup {None} : addr' = [page |-> page, doc |-> d]
        BY <1>2 DEF Navigate, Go
      <3>2. due' = TRUE /\ told' = FALSE /\ moves' \in 0..MaxMoves
            /\ UNCHANGED <<files, inv, load, prop, shown, reader, faults>>
        BY <1>2, <1>n DEF Navigate, Go
      <3>3. addr' \in [page : Pages, doc : Docs \cup {None}] BY <3>1
      <3>4. due' \in BOOLEAN /\ told' \in BOOLEAN BY <3>2
      <3> QED BY <1>0, <3>2, <3>3, <3>4 DEF TypeOK
    <2> QED BY <1>0, <2>1, <2>2, WhenDue DEF DocInv
  <1>3. CASE \E d \in Docs : OpenCurrent(d) \/ CreateProposal(d) \/ OpenProposal(d) \/ Promote(d)
    <2>1. UNCHANGED <<addr, inv, due, reader>>
      BY <1>3 DEF OpenCurrent, CreateProposal, OpenProposal, Promote
    <2>2. AddressIsListed' /\ ReaderInv' BY <1>0, <2>1, WhenSame
    <2>3. TypeOK'
      BY <1>0, <1>3, <1>n DEF OpenCurrent, CreateProposal, OpenProposal, Promote, TypeOK
    <2> QED BY <2>2, <2>3 DEF DocInv
  <1> QED BY <1>1, <1>2, <1>3 DEF User

LEMMA InventoryStep ==
  ASSUME DocInv, ServeInventory \/ DeliverInventory \/ InventoryFails
  PROVE  DocInv'
  <1>0. TypeOK /\ AddressIsListed /\ ReaderInv /\ InventoryOK(inv) BY InventoryFacts DEF DocInv
  <1>1. CASE ServeInventory
    <2>1. inv' = [inv EXCEPT !.req.got = files] /\ inv.req \in Requests /\ inv.req # None
      BY <1>0, <1>1, InventoryFacts DEF ServeInventory
    <2> DEFINE r == [inv.req EXCEPT !.got = files]
    <2>2. r \in Requests BY <1>0, <2>1 DEF Requests, TypeOK, Catalogue
    <2>3. inv' = [inv EXCEPT !.req = r] /\ r # None BY <2>1, <2>2, RequestsAreReal
    <2> HIDE DEF r
    <2>4. InventoryOK(inv') /\ inv'.arch = inv.arch /\ inv'.know = inv.know /\ inv'.status = inv.status
      BY <1>0, <2>1, <2>2, <2>3 DEF InventoryOK, Inventories
    <2>5. AddressIsListed' /\ ReaderInv'
      BY <1>0, <1>1, <2>4, WhenSame DEF ServeInventory
    <2>6. TypeOK' BY <1>0, <1>1, <2>4 DEF ServeInventory, TypeOK, InventoryOK, Inventories, Requests
    <2> QED BY <2>5, <2>6 DEF DocInv
  <1>2. CASE DeliverInventory
    <2>1. InventoryOK(inv') BY <1>0, <1>2, DeliveredOK
    <2>2. due' = TRUE /\ UNCHANGED <<files, addr, load, prop, shown, told, reader, moves, faults>>
      BY <1>2 DEF DeliverInventory
    <2>3. TypeOK' BY <1>0, <2>1, <2>2 DEF TypeOK, InventoryOK, Inventories, Requests
    <2> QED BY <1>0, <2>2, <2>3, WhenDue DEF DocInv
  <1>3. CASE InventoryFails
    <2>1. /\ inv.req # None /\ inv' = AfterFailure(inv) /\ faults > 0 /\ faults' = faults - 1
          /\ due' = (due \/ inv.req.step # "architecture")
          /\ UNCHANGED <<files, addr, load, prop, shown, told, reader, moves>>
      BY <1>3 DEF InventoryFails
    <2>2. InventoryOK(inv') BY <1>0, <2>1, AfterFailureOK
    <2>3. faults' \in 0..MaxFaults /\ due' \in BOOLEAN
      BY <1>0, <2>1, DocumentsConstants DEF TypeOK
    <2>4. TypeOK' BY <1>0, <2>1, <2>2, <2>3 DEF TypeOK, InventoryOK, Inventories, Requests
    <2>5. CASE inv.req.step = "architecture"
      <3>1. inv'.arch = inv.arch /\ inv'.know = inv.know /\ inv'.status = inv.status
        BY <1>0, <2>1, <2>5, AfterFailureOK
      <3>2. due => due' BY <2>1
      <3> QED BY <1>0, <2>1, <2>4, <3>1, <3>2, WhenSame DEF DocInv
    <2>6. CASE inv.req.step # "architecture"
      <3>1. due' = TRUE BY <2>1, <2>6
      <3> QED BY <1>0, <2>1, <2>4, <3>1, WhenDue DEF DocInv
    <2> QED BY <2>5, <2>6
  <1> QED BY <1>1, <1>2, <1>3

LEMMA LoadStep ==
  ASSUME DocInv, DeliverLoad \/ LoadFails \/ DeliverProposal \/ ProposalLost
  PROVE  DocInv'
  <1>0. TypeOK /\ AddressIsListed /\ ReaderInv BY DEF DocInv
  <1>f. faults > 0 /\ faults' = faults - 1 => faults' \in 0..MaxFaults
    BY <1>0, DocumentsConstants DEF TypeOK
  <1>1. UNCHANGED <<inv, reader>> /\ (due' = TRUE \/ (addr' = addr /\ (due => due')))
    BY DEF DeliverLoad, LoadFails, DeliverProposal, ProposalLost, Go
  <1>2. AddressIsListed' /\ ReaderInv'
    BY <1>0, <1>1, WhenDue, WhenSame
  <1>3. TypeOK'
    <2>1. CASE DeliverLoad
      <3>1. load.doc \in Docs /\ load' = None /\ shown' = load.doc
            /\ UNCHANGED <<files, inv, prop, reader, moves, faults>>
        BY <1>0, <2>1 DEF DeliverLoad, Show, TypeOK
      <3>2. \/ addr' = [page |-> "current", doc |-> load.doc] /\ due' = TRUE /\ told' = FALSE
            \/ addr' = addr /\ due' = (due \/ shown # load.doc) /\ told' = told
        BY <2>1 DEF DeliverLoad, Go
      <3>3. due \in BOOLEAN /\ told \in BOOLEAN BY <1>0 DEF TypeOK
      <3>4. due' \in BOOLEAN /\ told' \in BOOLEAN BY <3>2, <3>3
      <3>5. addr' \in [page : Pages, doc : Docs \cup {None}]
        BY <1>0, <3>1, <3>2 DEF TypeOK, Pages
      <3> QED BY <1>0, <3>1, <3>4, <3>5 DEF TypeOK
    <2>2. CASE LoadFails BY <1>0, <1>f, <2>2 DEF LoadFails, TypeOK
    <2>3. CASE DeliverProposal
      <3>1. prop.doc \in Docs /\ prop' = None /\ shown' \in Docs \cup {None}
            /\ UNCHANGED <<files, inv, load, reader, moves, faults>>
        BY <1>0, <2>3 DEF DeliverProposal, Show, TypeOK
      <3>2. \/ addr' = [page |-> "current", doc |-> prop.doc] /\ due' = TRUE /\ told' = FALSE
            \/ addr' = addr /\ due' = (due \/ shown' # shown) /\ told' = told
        BY <2>3 DEF DeliverProposal, Go
      <3>3. due \in BOOLEAN /\ told \in BOOLEAN BY <1>0 DEF TypeOK
      <3>4. due' \in BOOLEAN /\ told' \in BOOLEAN BY <3>2, <3>3
      <3>5. addr' \in [page : Pages, doc : Docs \cup {None}]
        BY <1>0, <3>1, <3>2 DEF TypeOK, Pages
      <3> QED BY <1>0, <3>1, <3>4, <3>5 DEF TypeOK
    <2>4. CASE ProposalLost BY <1>0, <1>f, <2>4 DEF ProposalLost, TypeOK
    <2> QED BY <2>1, <2>2, <2>3, <2>4
  <1> QED BY <1>2, <1>3 DEF DocInv

LEMMA ReadStep ==
  ASSUME DocInv, NEW r \in reader.reads, DeliverRead(r) \/ ReadLost(r)
  PROVE  DocInv'
  <1>0. TypeOK /\ AddressIsListed /\ ReaderInv BY DEF DocInv
  <1>1. UNCHANGED <<files, inv, addr, load, prop, shown, told, due, moves>>
        /\ faults' \in 0..MaxFaults
    BY <1>0, DocumentsConstants DEF DeliverRead, ReadLost, TypeOK
  <1>2. r.doc \in Docs /\ r.doc # None BY <1>0, DocumentsConstants DEF TypeOK
  <1> DEFINE left == reader.reads \ {r}
             has == IF r.doc \in files THEN r.doc ELSE None
             st == IF r.doc \in files THEN "loaded" ELSE "error"
  <1>3. \/ reader' = [reader EXCEPT !.reads = left]
        \/ r.live /\ reader' = [reader EXCEPT !.reads = left, !.has = has, !.st = st]
    BY DEF DeliverRead, ReadLost
  <1>4. left \in SUBSET [doc : Docs, live : BOOLEAN] /\ left \subseteq reader.reads
    BY <1>0 DEF TypeOK
  <1>5. has \in Docs \cup {None} /\ st \in {"loaded", "error"} /\ (st = "loaded" => has = r.doc)
    BY <1>2
  <1> HIDE DEF left, has, st
  <1>6. TypeOK'
    <2> DEFINE Readers == [sel : Docs \cup {None}, st : {"idle", "loading", "loaded", "error"},
                           has : Docs \cup {None}, reads : SUBSET [doc : Docs, live : BOOLEAN]]
    <2>1. reader \in Readers BY <1>0 DEF TypeOK
    <2>2. [reader EXCEPT !.reads = left] \in Readers
          /\ [reader EXCEPT !.reads = left, !.has = has, !.st = st] \in Readers
      BY <2>1, <1>4, <1>5
    <2>3. reader' \in Readers BY <1>3, <2>2
    <2> QED BY <1>0, <1>1, <2>3 DEF TypeOK
  <1>7. reader'.sel = reader.sel /\ reader'.reads = left
    BY <1>0, <1>3 DEF TypeOK
  <1>8. reader'.st = "loaded" => reader'.has = reader'.sel /\ reader'.sel # None
    <2>1. CASE reader' = [reader EXCEPT !.reads = left]
      BY <1>0, <2>1 DEF TypeOK, ReaderInv
    <2>2. CASE r.live /\ reader' = [reader EXCEPT !.reads = left, !.has = has, !.st = st]
      <3>1. reader'.has = has /\ reader'.st = st BY <1>0, <2>2 DEF TypeOK
      <3>2. r.doc = reader.sel BY <1>0, <2>2 DEF ReaderInv
      <3> QED BY <1>2, <1>5, <1>7, <3>1, <3>2
    <2> QED BY <1>3, <2>1, <2>2
  <1>9. ReaderInv'
    <2>1. Mounted' = Mounted /\ Selected' = Selected BY <1>1 DEF Mounted, Selected
    <2> QED BY <1>0, <1>1, <1>4, <1>7, <1>8, <2>1 DEF ReaderInv
  <1>10. AddressIsListed' BY <1>0, <1>1 DEF AddressIsListed, Addressed, Listed
  <1> QED BY <1>6, <1>9, <1>10 DEF DocInv

\* The effect on selectedPath: the reader follows the selection, and older reads are abandoned.
LEMMA ReadEffectOK ==
  ASSUME DocInv
  PROVE  LET q == ReadEffect
         IN /\ q \in [sel : Docs \cup {None}, st : {"idle", "loading", "loaded", "error"},
                      has : Docs \cup {None}, reads : SUBSET [doc : Docs, live : BOOLEAN]]
            /\ \A r \in q.reads : r.live => r.doc = q.sel
            /\ q.st = "loaded" => q.has = q.sel /\ q.sel # None
            /\ Mounted => q.sel = Selected
  <1>0. TypeOK /\ ReaderInv BY DEF DocInv
  <1>1. CASE ~Mounted BY <1>1 DEF ReadEffect, Closed
  <1>2. CASE Mounted /\ reader.sel = Selected
    BY <1>0, <1>2 DEF ReadEffect, TypeOK, ReaderInv
  <1>3. CASE Mounted /\ reader.sel # Selected
    <2> DEFINE reads == Abandoned(reader.reads)
                          \cup (IF Selected = None THEN {} ELSE {[doc |-> Selected, live |-> TRUE]})
               st == IF Selected = None THEN "idle" ELSE "loading"
               has == IF Selected = None THEN None ELSE reader.has
    <2>1. Selected \in Docs \cup {None} BY <1>0, <1>3, SelectedOK
    <2>2. \A r \in reader.reads : LET a == [r EXCEPT !.live = FALSE]
                                  IN a \in [doc : Docs, live : BOOLEAN] /\ a.live = FALSE
      BY <1>0 DEF TypeOK
    <2>3. Abandoned(reader.reads) \in SUBSET [doc : Docs, live : BOOLEAN]
          /\ \A a \in Abandoned(reader.reads) : a.live = FALSE
      BY <2>2 DEF Abandoned
    <2>4. reads \in SUBSET [doc : Docs, live : BOOLEAN] /\ \A r \in reads : r.live => r.doc = Selected
      <3> DEFINE new == [doc |-> Selected, live |-> TRUE]
      <3>1. Selected # None => new \in [doc : Docs, live : BOOLEAN] /\ new.doc = Selected
        BY <2>1
      <3>2. \A r \in reads : r \in Abandoned(reader.reads) \/ (Selected # None /\ r = new)
        OBVIOUS
      <3> HIDE DEF new, reads
      <3> QED BY <2>3, <3>1, <3>2
    <2>5. st \in {"idle", "loading"} /\ has \in Docs \cup {None}
      BY <1>0 DEF TypeOK
    <2>6. ReadEffect = [sel |-> Selected, st |-> st, has |-> has, reads |-> reads]
      BY <1>3 DEF ReadEffect
    <2> HIDE DEF reads, st, has
    <2> QED BY <2>1, <2>4, <2>5, <2>6
  <1> QED BY <1>1, <1>2, <1>3

LEMMA EffectsStep == ASSUME DocInv, Effects PROVE DocInv'
  <1>0. TypeOK /\ ReaderInv BY DEF DocInv
  <1>1. reader' = ReadEffect /\ UNCHANGED <<files, inv, prop, moves, faults>> BY DEF Effects
  <1>2. load' = None \/ load' \in [doc : Docs, why : {"open", "effect"}]
    BY <1>0, DocumentsConstants DEF Effects, NextLoad, Addressed, TypeOK
  <1>3. CASE Unlisted
    <2>1. addr' = [page |-> "current", doc |-> None] /\ due' = TRUE /\ shown' = None /\ told' = TRUE
      BY <1>3 DEF Effects, Go
    <2>2. TypeOK' BY <1>0, <1>1, <1>2, <2>1, ReadEffectOK DEF TypeOK, Pages
    <2> QED BY <1>1, <2>1, <2>2, ReadEffectOK DEF DocInv, ReaderInv, AddressIsListed
  <1>4. CASE ~Unlisted /\ Mounted /\ Selected \notin {None, addr.doc}
    <2>1. addr' = [page |-> "documents", doc |-> Selected] /\ due' = TRUE /\ UNCHANGED <<shown, told>>
      BY <1>4 DEF Effects, Go
    <2>2. Selected \in Docs BY <1>0, <1>4, SelectedOK
    <2>3. TypeOK' BY <1>0, <1>1, <1>2, <2>1, <2>2, ReadEffectOK DEF TypeOK, Pages
    <2> QED BY <1>1, <2>1, <2>3, ReadEffectOK DEF DocInv, ReaderInv, AddressIsListed
  <1>5. CASE ~Unlisted /\ ~(Mounted /\ Selected \notin {None, addr.doc})
    <2>1. due' = FALSE /\ UNCHANGED <<addr, shown, told>> BY <1>5 DEF Effects
    <2>2. TypeOK' BY <1>0, <1>1, <1>2, <2>1, ReadEffectOK DEF TypeOK
    <2>3. AddressIsListed'
      BY <1>1, <1>5, <2>1 DEF AddressIsListed, Unlisted, Addressed, Listed
    <2>4. Mounted' = Mounted /\ Selected' = Selected BY <1>1, <2>1 DEF Mounted, Selected
    <2>5. ReaderInv' BY <1>1, <1>5, <2>1, <2>4, ReadEffectOK DEF ReaderInv
    <2> QED BY <2>2, <2>3, <2>5 DEF DocInv
  <1> QED BY <1>3, <1>4, <1>5

LEMMA DocStep == DocInv /\ [Next]_vars => DocInv'
  <1> SUFFICES ASSUME DocInv, [Next]_vars PROVE DocInv'
    OBVIOUS
  <1>1. CASE User \/ (\E d \in Docs : Promote(d)) BY <1>1, UserStep
  <1>2. CASE ServeInventory \/ DeliverInventory \/ InventoryFails BY <1>2, InventoryStep
  <1>3. CASE DeliverLoad \/ LoadFails \/ DeliverProposal \/ ProposalLost BY <1>3, LoadStep
  <1>4. CASE \E r \in reader.reads : DeliverRead(r) \/ ReadLost(r) BY <1>4, ReadStep
  <1>5. CASE Effects BY <1>5, EffectsStep
  <1>6. CASE UNCHANGED vars
    BY <1>6 DEF vars, DocInv, TypeOK, AddressIsListed, ReaderInv, Mounted, Selected, Addressed, Listed
  <1> QED BY <1>1, <1>2, <1>3, <1>4, <1>5, <1>6 DEF Next, Answers

LEMMA DocInvHolds == Spec => []DocInv
  BY DocInit, DocStep, PTL DEF Spec

(* The page's inventory is loading only while one of its requests is under way, and an *)
(* address names what the inventory lists (refreshKnowledge, the effect of App).       *)
THEOREM DocumentsAreListed == Spec => []DocumentsInv
  <1>1. DocInv => DocumentsInv BY DEF DocInv, DocumentsInv
  <1> QED BY <1>1, DocInvHolds, PTL

(* What the reader shows is the document that is selected and that the address names,  *)
(* however late earlier answers come (the flag of DocumentsWorkspace's effect).        *)
THEOREM ReaderShowsSelected == Spec => []ReaderIsOfSelected
  <1>1. DocInv => ReaderIsOfSelected
    BY DEF DocInv, ReaderInv, ReaderIsOfSelected
  <1> QED BY <1>1, DocInvHolds, PTL
=============================================================================
