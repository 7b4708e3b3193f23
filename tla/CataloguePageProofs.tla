------------------------- MODULE CataloguePageProofs -------------------------
(***************************************************************************)
(* The catalogue page for every number of units, reservations, handlers,   *)
(* requests and views: what its administrator does to the units keeps to   *)
(* the ledger, a form writes what belongs to its unit, rows and files of   *)
(* pictures keep together, and the window of a view shows what is saved.   *)
(***************************************************************************)
EXTENDS CataloguePage, TLAPS

-----------------------------------------------------------------------------
(* A behaviour of the page is one of each of its sections.                 *)

LEMMA PageIsItsSections == Spec => DeskSpec /\ MediaSpec /\ ViewsSpec
<1>1. Init => DeskInit /\ MediaInit /\ ViewsInit
  BY DEF Init
<1>2. [Next]_vars => [DeskNext]_deskVars /\ [MediaNext]_mediaVars /\ [ViewsNext]_viewsVars
  BY DEF Next, vars
<1> QED
  BY <1>1, <1>2, PTL DEF Spec, DeskSpec, MediaSpec, ViewsSpec

-----------------------------------------------------------------------------
(* The views (module CatalogueViews).                                      *)

ViewRecords == [there : BOOLEAN, text : Nat, image : Views \cup {None}]

ViewsTypeOK ==
    /\ saved \in [Views -> ViewRecords]
    /\ draft \in [Views -> ViewRecords]
    /\ window \in [view : Views, copy : ViewRecords] \cup {Closed}
    /\ reload \in [step : {"idle", "asked", "read"}, seen : [Views -> ViewRecords]]
    /\ upload \in Views \cup {None}
    /\ save \in [step : {"idle", "project", "blocks"}, sent : [Views -> ViewRecords],
                 copied : 0 .. MaxText]
    /\ blocks \in 0 .. MaxText /\ copied \in 0 .. MaxText

\* A view in the window is one that exists: without this part, a field that
\* changes might reach the window and not the draft.
WindowIsThere == window # Closed => window.copy.there

\* The inductive invariant.
ViewsInv == ViewsTypeOK /\ WindowIsThere /\ WindowShowsDraft

\* A text that changes does so in the draft and in the window alike.
LEMMA SetTextInv ==
    ASSUME ViewsInv, NEW v \in Views, NEW n \in Nat,
           SetField(v, "text", n), UNCHANGED replaced
    PROVE  /\ draft' \in [Views -> ViewRecords]
           /\ window' \in [view : Views, copy : ViewRecords] \cup {Closed}
           /\ WindowIsThere' /\ WindowShowsDraft'
<1> USE ViewsAssumption, CatalogueAssumption
    DEF ViewsInv, ViewsTypeOK, WindowIsThere, WindowShowsDraft
<1>1. /\ draft' = [draft EXCEPT ![v] =
                     IF draft[v].there THEN [draft[v] EXCEPT !.text = n] ELSE draft[v]]
      /\ window' = IF window.view = v THEN [window EXCEPT !.copy.text = n] ELSE window
  BY DEF SetField
<1>2. \A rec \in ViewRecords : /\ [rec EXCEPT !.text = n] \in ViewRecords
                             /\ [rec EXCEPT !.text = n].there = rec.there
  BY DEF ViewRecords
<1>3. /\ draft' \in [Views -> ViewRecords]
      /\ \A w \in Views \ {v} : draft'[w] = draft[w]
      /\ draft[v].there => draft'[v] = [draft[v] EXCEPT !.text = n]
  BY <1>1, <1>2
<1>4. CASE window.view = v
  <2>1. window # Closed /\ window \in [view : Views, copy : ViewRecords]
    BY <1>4 DEF Closed
  <2>2. window' = [view |-> v, copy |-> [window.copy EXCEPT !.text = n]]
    BY <1>1, <1>4, <2>1
  <2>3. /\ window'.view = v
        /\ window'.copy = [window.copy EXCEPT !.text = n]
        /\ [window.copy EXCEPT !.text = n] \in ViewRecords
        /\ [window.copy EXCEPT !.text = n].there
    BY <1>2, <2>1, <2>2
  <2> QED BY <1>3, <1>4, <2>1, <2>2, <2>3
<1>5. CASE window.view # v
  <2>1. window' = window
    BY <1>1, <1>5
  <2>2. window # Closed => window.view \in Views
    OBVIOUS
  <2> QED BY <1>3, <1>5, <2>1, <2>2
<1> QED BY <1>4, <1>5

\* So does an image.
LEMMA SetImageInv ==
    ASSUME ViewsInv, NEW v \in Views, NEW i \in Views,
           SetField(v, "image", i), UNCHANGED replaced
    PROVE  /\ draft' \in [Views -> ViewRecords]
           /\ window' \in [view : Views, copy : ViewRecords] \cup {Closed}
           /\ WindowIsThere' /\ WindowShowsDraft'
<1> USE ViewsAssumption, CatalogueAssumption
    DEF ViewsInv, ViewsTypeOK, WindowIsThere, WindowShowsDraft
<1>1. /\ draft' = [draft EXCEPT ![v] =
                     IF draft[v].there THEN [draft[v] EXCEPT !.image = i] ELSE draft[v]]
      /\ window' = IF window.view = v THEN [window EXCEPT !.copy.image = i] ELSE window
  BY DEF SetField
<1>2. \A rec \in ViewRecords : /\ [rec EXCEPT !.image = i] \in ViewRecords
                             /\ [rec EXCEPT !.image = i].there = rec.there
  BY DEF ViewRecords
<1>3. /\ draft' \in [Views -> ViewRecords]
      /\ \A w \in Views \ {v} : draft'[w] = draft[w]
      /\ draft[v].there => draft'[v] = [draft[v] EXCEPT !.image = i]
  BY <1>1, <1>2
<1>4. CASE window.view = v
  <2>1. window # Closed /\ window \in [view : Views, copy : ViewRecords]
    BY <1>4 DEF Closed
  <2>2. window' = [view |-> v, copy |-> [window.copy EXCEPT !.image = i]]
    BY <1>1, <1>4, <2>1
  <2>3. /\ window'.view = v
        /\ window'.copy = [window.copy EXCEPT !.image = i]
        /\ [window.copy EXCEPT !.image = i] \in ViewRecords
        /\ [window.copy EXCEPT !.image = i].there
    BY <1>2, <2>1, <2>2
  <2> QED BY <1>3, <1>4, <2>1, <2>2, <2>3
<1>5. CASE window.view # v
  <2>1. window' = window
    BY <1>1, <1>5
  <2>2. window # Closed => window.view \in Views
    OBVIOUS
  <2> QED BY <1>3, <1>5, <2>1, <2>2
<1> QED BY <1>4, <1>5

LEMMA ViewsInitInv == ViewsInit => ViewsInv
BY ViewsAssumption
   DEF ViewsInit, ViewsInv, ViewsTypeOK, ViewRecords, WindowIsThere, WindowShowsDraft,
       Closed, NoView, NoReload, NoSave

\* What the editor does.
LEMMA ViewsEditInv ==
    ASSUME ViewsInv, ViewsEdit
    PROVE  ViewsInv'
<1> USE ViewsAssumption DEF ViewsInv, ViewsTypeOK, Database
<1>1. ASSUME NEW v \in Views, AddView(v)
      PROVE  ViewsInv'
  <2>1. [NoView EXCEPT !.there = TRUE] \in ViewRecords /\ [NoView EXCEPT !.there = TRUE].there
    BY DEF NoView, ViewRecords
  <2> QED
    BY <1>1, <2>1 DEF AddView, WindowIsThere, WindowShowsDraft
<1>2. ASSUME NEW v \in Views, OpenView(v)
      PROVE  ViewsInv'
  BY <1>2 DEF OpenView, WindowIsThere, WindowShowsDraft
<1>3. ASSUME NEW v \in Views, DeleteView(v)
      PROVE  ViewsInv'
  <2>1. NoView \in ViewRecords
    BY DEF NoView, ViewRecords
  <2> QED
    BY <1>3, <2>1 DEF DeleteView, WindowIsThere, WindowShowsDraft
<1>4. CASE CloseView
  BY <1>4 DEF CloseView, WindowIsThere, WindowShowsDraft
<1>5. CASE EditView
  <2>1. window.view \in Views /\ window.copy.text + 1 \in Nat
    BY <1>5 DEF EditView, ViewRecords
  <2>2. /\ SetField(window.view, "text", window.copy.text + 1)
        /\ UNCHANGED <<reload, upload, save, saved, blocks, copied, replaced>>
    BY <1>5 DEF EditView
  <2> HIDE DEF ViewsInv, ViewsTypeOK
  <2>3. /\ draft' \in [Views -> ViewRecords]
        /\ window' \in [view : Views, copy : ViewRecords] \cup {Closed}
        /\ WindowIsThere' /\ WindowShowsDraft'
    BY <2>1, <2>2, SetTextInv
  <2> QED
    BY <2>2, <2>3 DEF ViewsInv, ViewsTypeOK
<1>6. CASE AskWindowImage
  BY <1>6 DEF AskWindowImage, WindowIsThere, WindowShowsDraft
<1>7. CASE ImageUploaded
  <2>1. upload \in Views
    BY <1>7 DEF ImageUploaded
  <2>2. /\ SetField(upload, "image", upload)
        /\ UNCHANGED <<reload, save, saved, blocks, copied, replaced>>
        /\ upload' = None
    BY <1>7 DEF ImageUploaded
  <2> HIDE DEF ViewsInv, ViewsTypeOK
  <2>3. /\ draft' \in [Views -> ViewRecords]
        /\ window' \in [view : Views, copy : ViewRecords] \cup {Closed}
        /\ WindowIsThere' /\ WindowShowsDraft'
    BY <2>1, <2>2, SetImageInv
  <2> QED
    BY <2>2, <2>3 DEF ViewsInv, ViewsTypeOK
<1>8. CASE UploadFails
  BY <1>8 DEF UploadFails, WindowIsThere, WindowShowsDraft
<1> QED
  BY <1>1, <1>2, <1>3, <1>4, <1>5, <1>6, <1>7, <1>8 DEF ViewsEdit

\* What its answers do, and the reloads and saves under way.
LEMMA ViewsStepInv ==
    ASSUME ViewsInv, [ViewsNext]_viewsVars
    PROVE  ViewsInv'
<1>1. CASE ViewsEdit
  BY <1>1, ViewsEditInv
<1> USE ViewsAssumption DEF ViewsInv, ViewsTypeOK, WindowIsThere, WindowShowsDraft, Database
<1>2. CASE AskReload
  BY <1>2 DEF AskReload, NoReload
<1>3. CASE ShowProjects
  BY <1>3 DEF ShowProjects
<1>4. CASE ShowBlocks \/ ReloadFails
  <2>1. NoReload \in [step : {"idle", "asked", "read"}, seen : [Views -> ViewRecords]]
    BY DEF NoReload, NoView, ViewRecords
  <2> QED
    BY <1>4, <2>1 DEF ShowBlocks, ReloadFails
<1>5. CASE SaveAll
  BY <1>5 DEF SaveAll
<1>6. CASE SaveProject
  BY <1>6 DEF SaveProject
<1>7. NoSave \in [step : {"idle", "project", "blocks"}, sent : [Views -> ViewRecords],
                copied : 0 .. MaxText]
  BY ViewsAssumption DEF NoSave, NoView, ViewRecords
<1>8. CASE SaveBlocks
  BY <1>7, <1>8 DEF SaveBlocks
<1>9. CASE SaveFails
  BY <1>7, <1>9 DEF SaveFails
<1>10. CASE OtherClient
  BY <1>10 DEF OtherClient
<1>11. CASE UNCHANGED viewsVars
  BY <1>11 DEF viewsVars
<1> QED
  BY <1>1, <1>2, <1>3, <1>4, <1>5, <1>6, <1>8, <1>9, <1>10, <1>11 DEF ViewsNext

\* The window of a view shows what handleSaveAll would write, whatever answers
\* come while it is open, except after a reload has replaced the draft.
THEOREM WindowShowsWhatIsSaved == Spec => []WindowShowsDraft
<1>1. ViewsInit => ViewsInv
  BY ViewsInitInv
<1>2. ViewsInv /\ [ViewsNext]_viewsVars => ViewsInv'
  BY ViewsStepInv
<1>3. ViewsInv => WindowShowsDraft
  BY DEF ViewsInv
<1> QED
  BY PageIsItsSections, <1>1, <1>2, <1>3, PTL DEF ViewsSpec

-----------------------------------------------------------------------------
(* The units (module CatalogueDesk).                                       *)

UnitRows == [there : BOOLEAN, status : Statuses, price : Units \cup {None}]

Calls == [op   : DeskOps \cup {"idle", "done"},
          step : {"idle", "sent", "stored", "counted", "read", "unread"},
          unit : Units \cup {None},
          sent : [price : Units \cup {None}, status : Statuses],
          seen : [Units -> UnitRows]]

DeskTypeOK ==
    /\ row \in [Units -> UnitRows]
    /\ status \in [Reservations -> {"none", "EN_ATTENTE", "ANNULEE", "CONFIRMEE"}]
    /\ unitOf \in [Reservations -> Units \cup {None}]
    /\ list \in [Units -> UnitRows]
    /\ selected \in Units \cup {None}
    /\ form \in [price : Units \cup {None}, status : Statuses]
    /\ call \in [Handlers -> Calls]
    /\ edited \subseteq Units /\ moved \subseteq Units /\ foreign \subseteq Units

\* A handler that writes has a unit to write, and so has a reservation.
DeskNamesUnits ==
    /\ \A q \in Handlers : call[q].op \in {"save", "shelve", "create", "delete"}
                             => call[q].unit \in Units
    /\ \A r \in Reservations : status[r] # "none" => unitOf[r] \in Units

DeskInv == DeskTypeOK /\ DeskNamesUnits

LEMMA DeskInitInv == DeskInit => DeskInv
<1> SUFFICES ASSUME DeskInit PROVE DeskInv
  OBVIOUS
<1>1. NoRow \in UnitRows /\ Blank \in [price : Units \cup {None}, status : Statuses]
  BY DEF NoRow, Blank, UnitRows, Statuses
<1>2. NoCall \in Calls /\ NoCall.op = "idle"
  BY <1>1 DEF NoCall, Calls
<1>3. row \in [Units -> UnitRows]
  <2>1. \A u \in Units : [NoRow EXCEPT !.there = TRUE, !.price = u] \in UnitRows
    BY <1>1 DEF NoRow, UnitRows
  <2> QED
    BY <1>1, <2>1 DEF DeskInit
<1> QED
  BY <1>1, <1>2, <1>3 DEF DeskInit, DeskInv, DeskTypeOK, DeskNamesUnits

\* What becomes of the handlers: one of them starts, goes on, or ends.
LEMMA StartedCall ==
    ASSUME DeskInv, NEW q \in Handlers, NEW op \in DeskOps, NEW u \in Units \cup {None},
           NEW sent \in [price : Units \cup {None}, status : Statuses],
           op # "load" => u \in Units,
           StartCall(q, op, u, sent)
    PROVE  /\ call' \in [Handlers -> Calls]
           /\ \A p \in Handlers : call'[p].op \in {"save", "shelve", "create", "delete"}
                                     => call'[p].unit \in Units
           /\ call[q] = NoCall
           /\ \A p \in Handlers \ {q} : call'[p] = call[p]
           /\ call'[q].op = op /\ call'[q].step = "sent" /\ call'[q].unit = u
           /\ call'[q].sent = sent
<1>1. call[q] = NoCall /\ NoCall \in Calls
  BY DEF StartCall, DeskInv, DeskTypeOK
<1> DEFINE started == [NoCall EXCEPT !.op = op, !.step = "sent", !.unit = u, !.sent = sent]
<1>2. call' = [call EXCEPT ![q] = started]
  BY DEF StartCall
<1>3. /\ started \in Calls /\ started.op = op /\ started.step = "sent"
      /\ started.unit = u /\ started.sent = sent
  BY <1>1 DEF Calls
<1> HIDE DEF started
<1>4. /\ call' \in [Handlers -> Calls]
      /\ call'[q] = started
      /\ \A p \in Handlers \ {q} : call'[p] = call[p]
  BY <1>2, <1>3 DEF DeskInv, DeskTypeOK
<1>5. op \in {"save", "shelve", "create", "delete"} => u \in Units
  OBVIOUS
<1> QED
  BY <1>1, <1>3, <1>4, <1>5 DEF DeskInv, DeskNamesUnits

LEMMA SteppedCall ==
    ASSUME DeskInv, NEW q \in Handlers, NEW op, NEW from,
           NEW to \in {"stored", "counted", "unread"},
           CallStep(q, op, from, to)
    PROVE  /\ call' \in [Handlers -> Calls]
           /\ call[q].op = op /\ call[q].step = from
           /\ \A p \in Handlers : /\ call'[p].op = call[p].op /\ call'[p].unit = call[p].unit
                                  /\ call'[p].step = IF p = q THEN to ELSE call[p].step
                                  /\ call'[p].sent = call[p].sent
                                  /\ call'[p].seen = call[p].seen
<1>1. call' = [call EXCEPT ![q] = [call[q] EXCEPT !.step = to]]
  BY DEF CallStep, DeskInv, DeskTypeOK
<1>2. [call[q] EXCEPT !.step = to] \in Calls
  BY DEF DeskInv, DeskTypeOK, Calls
<1> QED
  BY <1>1, <1>2 DEF CallStep, DeskInv, DeskTypeOK, Calls

LEMMA EndedCall ==
    ASSUME DeskInv, NEW q \in Handlers, CallDone(q)
    PROVE  /\ call' \in [Handlers -> Calls]
           /\ \A p \in Handlers \ {q} : call'[p] = call[p]
           /\ call'[q].op = "done" /\ call'[q].step = "idle"
<1>1. NoCall \in Calls
  <2>1. NoRow \in UnitRows /\ Blank \in [price : Units \cup {None}, status : Statuses]
    BY DEF NoRow, Blank, UnitRows, Statuses
  <2> QED
    BY <2>1 DEF NoCall, Calls
<1>2. [NoCall EXCEPT !.op = "done"] \in Calls /\ [NoCall EXCEPT !.op = "done"].op = "done"
      /\ [NoCall EXCEPT !.op = "done"].step = "idle"
  BY <1>1 DEF NoCall, Calls
<1> QED
  BY <1>2 DEF CallDone, DeskInv, DeskTypeOK

\* A unit takes a status, and keeps the rest of its row.
LEMMA StatusWritten ==
    ASSUME DeskInv, NEW u \in Units, NEW s \in Statuses, row' = [row EXCEPT ![u].status = s]
    PROVE  /\ row' \in [Units -> UnitRows]
           /\ row'[u].status = s
           /\ row'[u].there = row[u].there /\ row'[u].price = row[u].price
           /\ \A v \in Units \ {u} : row'[v] = row[v]
BY DEF DeskInv, DeskTypeOK, UnitRows

\* A buyer's transaction.
LEMMA BuyersInv ==
    ASSUME DeskInv, Buyers
    PROVE  DeskInv'
<1>1. ASSUME NEW r \in Reservations, NEW u \in Units, Reserve(r, u)
      PROVE  DeskInv'
  <2>1. row' \in [Units -> UnitRows]
    BY <1>1, StatusWritten DEF Reserve, Statuses
  <2> QED
    BY <1>1, <2>1 DEF Reserve, Bought, deskPage, DeskInv, DeskTypeOK, DeskNamesUnits
<1>2. ASSUME NEW r \in Reservations,
             NEW outcome \in {"ANNULEE", "CONFIRMEE"}, NEW s \in Statuses,
             Settle(r, outcome, s)
      PROVE  DeskInv'
  <2>1. unitOf[r] \in Units
    BY <1>2 DEF Settle, DeskInv, DeskNamesUnits
  <2>2. row' \in [Units -> UnitRows]
    BY <1>2, <2>1, StatusWritten DEF Settle
  <2> QED
    BY <1>2, <2>1, <2>2 DEF Settle, Bought, deskPage, DeskInv, DeskTypeOK, DeskNamesUnits
<1> QED
  BY <1>1, <1>2 DEF Buyers, Statuses

\* A click of the administrator.
LEMMA DeskClickInv ==
    ASSUME DeskInv, DeskClick
    PROVE  DeskInv'
<1> USE DeskAssumption
<1>1. FormShown => selected \in Units
  BY DEF FormShown, DeskInv, DeskTypeOK
<1>2. CASE TypePrice
  BY <1>1, <1>2 DEF TypePrice, deskTables, deskHistory, DeskInv, DeskTypeOK, DeskNamesUnits
<1>3. ASSUME NEW s \in Choices, ChooseStatus(s)
      PROVE  DeskInv'
  BY <1>1, <1>3 DEF ChooseStatus, deskTables, DeskInv, DeskTypeOK, DeskNamesUnits
<1>4. ASSUME NEW u \in Units, SelectUnit(u)
      PROVE  DeskInv'
  <2>1. list[u] \in UnitRows
    BY DEF DeskInv, DeskTypeOK
  <2> QED
    BY <1>4, <2>1
       DEF SelectUnit, deskTables, deskHistory, DeskInv, DeskTypeOK, DeskNamesUnits, UnitRows
<1>5. ASSUME NEW q \in Handlers, NEW op \in DeskOps, NEW u \in Units \cup {None},
             NEW sent \in [price : Units \cup {None}, status : Statuses],
             op # "load" => u \in Units, StartCall(q, op, u, sent),
             UNCHANGED <<deskTables, list, selected, form, edited, foreign>>,
             moved' \subseteq Units
      PROVE  DeskInv'
  <2>1. /\ call' \in [Handlers -> Calls]
        /\ \A p \in Handlers : call'[p].op \in {"save", "shelve", "create", "delete"}
                                  => call'[p].unit \in Units
    BY <1>5, StartedCall
  <2> QED
    BY <1>5, <2>1 DEF deskTables, DeskInv, DeskTypeOK, DeskNamesUnits
<1>6. /\ Blank \in [price : Units \cup {None}, status : Statuses]
      /\ \A s \in Statuses : [Blank EXCEPT !.status = s]
                                 \in [price : Units \cup {None}, status : Statuses]
      /\ \A u \in Units \cup {None} : [Blank EXCEPT !.price = u]
                                 \in [price : Units \cup {None}, status : Statuses]
  BY DEF Blank, Statuses
<1>7. ASSUME NEW q \in Handlers, SaveUnit(q)
      PROVE  DeskInv'
  <2>1. form \in [price : Units \cup {None}, status : Statuses] /\ moved \subseteq Units
    BY DEF DeskInv, DeskTypeOK
  <2> QED
    BY <1>1, <1>5, <1>7, <2>1 DEF SaveUnit, deskPage, deskHistory, DeskOps
<1>8. ASSUME NEW q \in Handlers, LoadUnits(q)
      PROVE  DeskInv'
  <2>1. moved \subseteq Units
    BY DEF DeskInv, DeskTypeOK
  <2> QED
    BY <1>5, <1>6, <1>8, <2>1 DEF LoadUnits, deskHistory, DeskOps
<1>9. ASSUME NEW q \in Handlers, NEW u \in Units, ArchiveUnit(q, u)
      PROVE  DeskInv'
  <2>1. moved' \subseteq Units
    BY <1>9 DEF ArchiveUnit, DeskInv, DeskTypeOK
  <2>2. [Blank EXCEPT !.status = IF list[u].status = "ARCHIVE" THEN "DISPONIBLE" ELSE "ARCHIVE"]
           \in [price : Units \cup {None}, status : Statuses]
    BY <1>6 DEF Statuses
  <2> QED
    BY <1>5, <1>9, <2>1, <2>2 DEF ArchiveUnit, deskPage, DeskOps
<1>10. ASSUME NEW q \in Handlers, NEW u \in Units, DeleteUnit(q, u)
       PROVE  DeskInv'
  <2>1. moved \subseteq Units /\ selected \in Units \cup {None}
    BY DEF DeskInv, DeskTypeOK
  <2> QED
    BY <1>5, <1>6, <1>10, <2>1 DEF DeleteUnit, deskPage, deskHistory, DeskOps
<1>11. ASSUME NEW q \in Handlers, NEW u \in Units, CreateUnit(q, u)
       PROVE  DeskInv'
  <2>1. moved \subseteq Units
    BY DEF DeskInv, DeskTypeOK
  <2> QED
    BY <1>5, <1>6, <1>11, <2>1 DEF CreateUnit, deskPage, deskHistory, DeskOps
<1> QED
  BY <1>2, <1>3, <1>4, <1>7, <1>8, <1>9, <1>10, <1>11 DEF DeskClick

\* A request is served.
LEMMA DeskApiInv ==
    ASSUME DeskInv, NEW q \in Handlers, DeskApi(q)
    PROVE  DeskInv'
<1> DEFINE u == call[q].unit
<1>1. UNCHANGED <<status, unitOf, list, selected, form, moved, foreign>>
  BY DEF DeskApi, UpdateUnit, InsertUnit, CountReservations, RemoveUnit, ReadUnits, Written,
         deskTables, deskPage, deskHistory
<1>2. CASE UpdateUnit(q)
  <2>1. u \in Units /\ call[q].sent \in [price : Units \cup {None}, status : Statuses]
    BY <1>2 DEF UpdateUnit, CallStep, DeskInv, DeskTypeOK, DeskNamesUnits, Calls
  <2>2. /\ call' \in [Handlers -> Calls]
        /\ \A p \in Handlers : call'[p].op = call[p].op /\ call'[p].unit = call[p].unit
    BY <1>2, SteppedCall DEF UpdateUnit
  <2>3. row' \in [Units -> UnitRows]
    BY <1>2, <2>1 DEF UpdateUnit, DeskInv, DeskTypeOK, UnitRows
  <2>4. edited' \subseteq Units
    BY <1>2, <2>1 DEF UpdateUnit, Written, DeskInv, DeskTypeOK
  <2> QED
    BY <1>1, <2>2, <2>3, <2>4 DEF DeskInv, DeskTypeOK, DeskNamesUnits
<1>3. CASE InsertUnit(q)
  <2>1. u \in Units
    BY <1>3 DEF InsertUnit, CallStep, DeskInv, DeskTypeOK, DeskNamesUnits
  <2>2. /\ call' \in [Handlers -> Calls]
        /\ \A p \in Handlers : call'[p].op = call[p].op /\ call'[p].unit = call[p].unit
    BY <1>3, SteppedCall DEF InsertUnit
  <2>3. row' \in [Units -> UnitRows]
    BY <1>3, <2>1 DEF InsertUnit, DeskInv, DeskTypeOK, UnitRows, Statuses
  <2>4. edited' \subseteq Units
    BY <1>3, <2>1 DEF InsertUnit, Written, DeskInv, DeskTypeOK
  <2> QED
    BY <1>1, <2>2, <2>3, <2>4 DEF DeskInv, DeskTypeOK, DeskNamesUnits
<1>4. CASE CountReservations(q)
  <2>1. /\ call' \in [Handlers -> Calls]
        /\ \A p \in Handlers : call'[p].op = call[p].op /\ call'[p].unit = call[p].unit
    BY <1>4, SteppedCall DEF CountReservations
  <2> QED
    BY <1>1, <1>4, <2>1
       DEF CountReservations, deskTables, deskHistory, DeskInv, DeskTypeOK, DeskNamesUnits
<1>5. CASE RemoveUnit(q)
  <2>1. u \in Units
    BY <1>5 DEF RemoveUnit, CallStep, DeskInv, DeskTypeOK, DeskNamesUnits
  <2>2. /\ call' \in [Handlers -> Calls]
        /\ \A p \in Handlers : call'[p].op = call[p].op /\ call'[p].unit = call[p].unit
    BY <1>5, SteppedCall DEF RemoveUnit
  <2>3. row' \in [Units -> UnitRows]
    BY <1>5, <2>1 DEF RemoveUnit, NoRow, DeskInv, DeskTypeOK, UnitRows, Statuses
  <2>4. edited' \subseteq Units
    BY <1>5, <2>1 DEF RemoveUnit, Written, DeskInv, DeskTypeOK
  <2> QED
    BY <1>1, <2>2, <2>3, <2>4 DEF DeskInv, DeskTypeOK, DeskNamesUnits
<1>6. CASE ReadUnits(q)
  <2>1. call' = [call EXCEPT ![q] = [call[q] EXCEPT !.step = "read", !.seen = row]]
    BY <1>6 DEF ReadUnits, DeskInv, DeskTypeOK
  <2>2. /\ [call[q] EXCEPT !.step = "read", !.seen = row] \in Calls
        /\ [call[q] EXCEPT !.step = "read", !.seen = row].op = call[q].op
        /\ [call[q] EXCEPT !.step = "read", !.seen = row].unit = call[q].unit
    BY DEF DeskInv, DeskTypeOK, Calls
  <2>3. /\ call' \in [Handlers -> Calls]
        /\ \A p \in Handlers : call'[p].op = call[p].op /\ call'[p].unit = call[p].unit
    BY <2>1, <2>2 DEF DeskInv, DeskTypeOK
  <2> QED
    BY <1>1, <1>6, <2>3 DEF ReadUnits, deskTables, deskHistory, DeskInv, DeskTypeOK, DeskNamesUnits
<1> QED
  BY <1>2, <1>3, <1>4, <1>5, <1>6 DEF DeskApi

\* An answer, or none.
LEMMA DeskAnswerInv ==
    ASSUME DeskInv, NEW q \in Handlers, DeskAnswer(q)
    PROVE  DeskInv'
<1> DEFINE u == call[q].unit
<1>1. UNCHANGED <<row, status, unitOf, edited, moved>>
  BY DEF DeskAnswer, RefreshUnit, ShowUnits, DropLine, HandlerFails, deskTables, deskHistory
<1>2. call[q].seen \in [Units -> UnitRows]
  BY DEF DeskInv, DeskTypeOK, Calls
<1>3. CallDone(q) => /\ call' \in [Handlers -> Calls]
                     /\ \A p \in Handlers \ {q} : call'[p] = call[p]
                     /\ call'[q].op = "done"
  BY EndedCall
<1>4. CASE RefreshUnit(q)
  <2>1. u \in Units
    BY <1>4 DEF RefreshUnit, DeskInv, DeskNamesUnits
  <2>2. call[q].seen[u] \in UnitRows
    BY <1>2, <2>1
  <2>3. form' \in [price : Units \cup {None}, status : Statuses]
    BY <1>4, <2>2 DEF RefreshUnit, UnitRows, DeskInv, DeskTypeOK
  <2>4. foreign' \subseteq Units
    BY <1>4 DEF RefreshUnit, Strayed, DeskInv, DeskTypeOK
  <2> QED
    BY <1>1, <1>2, <1>3, <1>4, <2>3, <2>4
       DEF RefreshUnit, DeskInv, DeskTypeOK, DeskNamesUnits
<1>5. CASE ShowUnits(q)
  <2>1. list' \in [Units -> UnitRows]
    BY <1>2, <1>5 DEF ShowUnits, DeskInv, DeskTypeOK
  <2>2. selected' \in Units \cup {None} /\ foreign' \subseteq Units
    BY <1>5 DEF ShowUnits, DeskInv, DeskTypeOK, DeskNamesUnits
  <2> QED
    BY <1>1, <1>3, <1>5, <2>1, <2>2 DEF ShowUnits, DeskInv, DeskTypeOK, DeskNamesUnits
<1>6. CASE DropLine(q)
  <2>1. list' \in [Units -> UnitRows]
    BY <1>6 DEF DropLine, NoRow, Statuses, UnitRows, DeskInv, DeskTypeOK
  <2> QED
    BY <1>1, <1>3, <1>6, <2>1 DEF DropLine, deskHistory, DeskInv, DeskTypeOK, DeskNamesUnits
<1>7. CASE HandlerFails(q)
  <2>1. /\ call' \in [Handlers -> Calls]
        /\ \A p \in Handlers : call'[p].op \in {"save", "shelve", "create", "delete"}
                                  => call'[p].unit \in Units
    <3>1. CASE CallDone(q)
      BY <1>3, <3>1 DEF DeskInv, DeskNamesUnits
    <3>2. CASE call' = [call EXCEPT ![q].step = "unread"]
      <4>1. CallStep(q, call[q].op, call[q].step, "unread")
        BY <3>2 DEF CallStep
      <4> QED
        BY <4>1, SteppedCall DEF DeskInv, DeskNamesUnits
    <3> QED
      BY <1>7, <3>1, <3>2 DEF HandlerFails
  <2> QED
    BY <1>1, <1>7, <2>1 DEF HandlerFails, deskHistory, DeskInv, DeskTypeOK, DeskNamesUnits
<1> QED
  BY <1>4, <1>5, <1>6, <1>7 DEF DeskAnswer

LEMMA DeskStepInv ==
    ASSUME DeskInv, [DeskNext]_deskVars
    PROVE  DeskInv'
<1>1. CASE UNCHANGED deskVars
  BY <1>1 DEF deskVars, deskTables, deskPage, deskHistory, DeskInv, DeskTypeOK, DeskNamesUnits
<1> QED
  BY <1>1, BuyersInv, DeskClickInv, DeskApiInv, DeskAnswerInv DEF DeskNext

\* A buyer's transaction is one of the ledger's.
LEMMA BuyersKeepToTheLedger ==
    ASSUME DeskInv, Buyers
    PROVE  Ledger!LedgerNext
<1>1. ASSUME NEW r \in Reservations, NEW u \in Units, Reserve(r, u)
      PROVE  Ledger!ReserveTx(r, u)
  <2>1. /\ row'[u].status = "RESERVE"
        /\ \A v \in Units \ {u} : row'[v] = row[v]
    BY <1>1, StatusWritten DEF Reserve, Statuses
  <2>2. [v \in Units |-> row'[v].status] = [[v \in Units |-> row[v].status] EXCEPT ![u] = "RESERVE"]
    BY <2>1
  <2> QED
    BY <1>1, <2>2 DEF Reserve, Bought, Ledger!ReserveTx, Ledger!Created
<1>2. ASSUME NEW r \in Reservations, NEW outcome, NEW s \in Statuses, Settle(r, outcome, s)
      PROVE  Ledger!WriteBoth(r, outcome, s)
  <2>1. unitOf[r] \in Units
    BY <1>2 DEF Settle, DeskInv, DeskNamesUnits
  <2>2. /\ row'[unitOf[r]].status = s
        /\ \A v \in Units \ {unitOf[r]} : row'[v] = row[v]
    BY <1>2, <2>1, StatusWritten DEF Settle
  <2>3. [v \in Units |-> row'[v].status]
           = [[v \in Units |-> row[v].status] EXCEPT ![unitOf[r]] = s]
    BY <2>1, <2>2
  <2> QED
    BY <1>2, <2>1, <2>3 DEF Settle, Bought, Ledger!WriteBoth, Ledger!Created
<1> QED
  BY <1>1, <1>2
     DEF Buyers, Statuses, Ledger!LedgerNext, Ledger!ConfirmTx, Ledger!CancelTx

\* A handler's write to a unit is one of its edits.
LEMMA DeskApiKeepsToTheLedger ==
    ASSUME DeskInv, NEW q \in Handlers, DeskApi(q)
    PROVE  [Ledger!LedgerNext]_Ledger!ledgerVars
<1> DEFINE u == call[q].unit
<1>1. ASSUME u \in Units, NEW s \in Statuses, Written(u), row'[u].status = s,
             \A v \in Units \ {u} : row'[v] = row[v]
      PROVE  Ledger!LedgerNext
  <2>1. Ledger!UpdateUnit(u, s)
    BY <1>1 DEF Written, Ledger!UpdateUnit
  <2> QED
    BY <1>1, <2>1 DEF Ledger!LedgerNext
<1>2. CASE UpdateUnit(q)
  <2>1. u \in Units /\ call[q].sent.status \in Statuses
    BY <1>2 DEF UpdateUnit, CallStep, DeskInv, DeskTypeOK, DeskNamesUnits, Calls
  <2>2. /\ row'[u].status = call[q].sent.status
        /\ \A v \in Units \ {u} : row'[v] = row[v]
    BY <1>2, <2>1 DEF UpdateUnit, DeskInv, DeskTypeOK, UnitRows
  <2> QED
    BY <1>1, <1>2, <2>1, <2>2 DEF UpdateUnit
<1>3. CASE InsertUnit(q)
  <2>1. u \in Units
    BY <1>3 DEF InsertUnit, CallStep, DeskInv, DeskNamesUnits
  <2>2. /\ row'[u].status = "DISPONIBLE"
        /\ \A v \in Units \ {u} : row'[v] = row[v]
    BY <1>3, <2>1 DEF InsertUnit, DeskInv, DeskTypeOK
  <2> QED
    BY <1>1, <1>3, <2>1, <2>2 DEF InsertUnit, Statuses
<1>4. CASE RemoveUnit(q)
  <2>1. u \in Units
    BY <1>4 DEF RemoveUnit, CallStep, DeskInv, DeskNamesUnits
  <2>2. /\ row'[u].status = "DISPONIBLE"
        /\ \A v \in Units \ {u} : row'[v] = row[v]
    BY <1>4, <2>1 DEF RemoveUnit, NoRow, DeskInv, DeskTypeOK
  <2> QED
    BY <1>1, <1>4, <2>1, <2>2 DEF RemoveUnit, Statuses
<1>5. CASE CountReservations(q) \/ ReadUnits(q)
  BY <1>5 DEF CountReservations, ReadUnits, deskTables, deskHistory, Ledger!ledgerVars
<1> QED
  BY <1>2, <1>3, <1>4, <1>5 DEF DeskApi

LEMMA DeskStepKeepsToTheLedger ==
    ASSUME DeskInv, [DeskNext]_deskVars
    PROVE  [Ledger!LedgerNext]_Ledger!ledgerVars
<1>1. CASE DeskClick
  BY <1>1 DEF DeskClick, TypePrice, ChooseStatus, SelectUnit, SaveUnit, LoadUnits, ArchiveUnit,
              DeleteUnit, CreateUnit, deskTables, deskHistory, Ledger!ledgerVars
<1>2. ASSUME NEW q \in Handlers, DeskAnswer(q)
      PROVE  UNCHANGED Ledger!ledgerVars
  BY <1>2 DEF DeskAnswer, RefreshUnit, ShowUnits, DropLine, HandlerFails, deskTables, deskHistory,
              Ledger!ledgerVars
<1>3. CASE UNCHANGED deskVars
  BY <1>3 DEF deskVars, deskTables, deskHistory, Ledger!ledgerVars
<1> QED
  BY <1>1, <1>2, <1>3, BuyersKeepToTheLedger, DeskApiKeepsToTheLedger DEF DeskNext

\* What the administrator does to the units through the page, and the buyers
\* meanwhile, is a behaviour of the ledger: the handlers of the page only ever
\* edit a unit, and no handler moves a reservation.
THEOREM CatalogueImplementsLedger == Spec => DeskImplementsLedger
<1>1. DeskInit => DeskInv
  BY DeskInitInv
<1>2. DeskInv /\ [DeskNext]_deskVars => DeskInv'
  BY DeskStepInv
<1>3. DeskInit => Ledger!LedgerInit
  <2> SUFFICES ASSUME DeskInit PROVE Ledger!LedgerInit
    OBVIOUS
  <2>1. NoRow.status = "DISPONIBLE" /\ NoRow \in UnitRows
    BY DEF NoRow, UnitRows, Statuses
  <2>2. \A u \in Units : [NoRow EXCEPT !.there = TRUE, !.price = u].status = "DISPONIBLE"
    BY <2>1 DEF UnitRows
  <2>3. \A u \in Units : row[u].status = "DISPONIBLE"
    BY <2>1, <2>2 DEF DeskInit
  <2> QED
    BY <2>3 DEF DeskInit, Ledger!LedgerInit
<1>4. DeskInv /\ [DeskNext]_deskVars => [Ledger!LedgerNext]_Ledger!ledgerVars
  BY DeskStepKeepsToTheLedger
<1> QED
  BY PageIsItsSections, <1>1, <1>2, <1>3, <1>4, PTL
     DEF DeskSpec, DeskImplementsLedger, Ledger!LedgerSpec

\* What belongs to unit u.
Owns(u, values) ==
    /\ values.price = u
    /\ u \notin moved => values.status = "DISPONIBLE"

\* A unit's own values are in its row, in the list, in the form while the unit
\* is selected, ...
OwnRows == \A u \in Units \ foreign : row[u].there => Owns(u, row[u])
OwnList == \A u \in Units \ foreign : list[u].there => Owns(u, list[u])
OwnForm == selected \in Units \ foreign => Owns(selected, form)

\* ... in what a handler has read, and in what it is about to write.
OwnCall(q) ==
    /\ call[q].step = "read" =>
          \A u \in Units \ foreign : call[q].seen[u].there => Owns(u, call[q].seen[u])
    /\ call[q].step = "sent" /\ call[q].unit \notin foreign =>
          /\ call[q].op = "save" => Owns(call[q].unit, call[q].sent)
          /\ call[q].op = "shelve" => call[q].unit \in moved

OwnCalls == \A q \in Handlers : OwnCall(q)

\* The inductive invariant of FormWritesItsOwn.
OwnInv == DeskInv /\ OwnRows /\ OwnList /\ OwnForm /\ OwnCalls

\* What a handler holds stays the unit's own while the histories only grow.
LEMMA OwnCallKept ==
    ASSUME NEW q \in Handlers, OwnCall(q), call'[q] = call[q],
           moved \subseteq moved', foreign \subseteq foreign'
    PROVE  OwnCall(q)'
<1>1. call[q].step = "read" =>
          \A u \in Units \ foreign' : call[q].seen[u].there
              => /\ call[q].seen[u].price = u
                 /\ u \notin moved' => call[q].seen[u].status = "DISPONIBLE"
  BY DEF OwnCall, Owns
<1>2. call[q].step = "sent" /\ call[q].unit \notin foreign' =>
          /\ call[q].op = "save"
               => /\ call[q].sent.price = call[q].unit
                  /\ call[q].unit \notin moved' => call[q].sent.status = "DISPONIBLE"
          /\ call[q].op = "shelve" => call[q].unit \in moved'
  BY DEF OwnCall, Owns
<1> QED
  BY <1>1, <1>2 DEF OwnCall, Owns

\* The histories only grow.
LEMMA DeskHistoryGrows ==
    ASSUME [DeskNext]_deskVars
    PROVE  moved \subseteq moved' /\ foreign \subseteq foreign'
BY DEF DeskNext, deskVars, deskTables, deskPage, deskHistory,
       Buyers, Reserve, Settle, Bought,
       DeskClick, TypePrice, ChooseStatus, SelectUnit, SaveUnit, LoadUnits, ArchiveUnit,
       DeleteUnit, CreateUnit,
       DeskApi, UpdateUnit, InsertUnit, CountReservations, RemoveUnit, ReadUnits, Written,
       DeskAnswer, RefreshUnit, ShowUnits, DropLine, HandlerFails, Strayed

LEMMA OwnInitInv == DeskInit => OwnInv
<1> SUFFICES ASSUME DeskInit PROVE OwnInv
  OBVIOUS
<1>1. DeskInv
  BY DeskInitInv
<1>2. NoRow \in UnitRows /\ ~NoRow.there /\ NoRow.status = "DISPONIBLE"
  BY DEF NoRow, UnitRows, Statuses
<1>3. \A u \in Units : [NoRow EXCEPT !.there = TRUE, !.price = u].price = u
                       /\ [NoRow EXCEPT !.there = TRUE, !.price = u].status = "DISPONIBLE"
  BY <1>2 DEF UnitRows
<1>4. \A u \in Units : row[u].there => row[u].price = u /\ row[u].status = "DISPONIBLE"
  BY <1>2, <1>3 DEF DeskInit
<1>5. NoCall.step = "idle"
  BY DEF NoCall
<1> QED
  BY <1>1, <1>4, <1>5, CatalogueAssumption
     DEF DeskInit, OwnInv, OwnRows, OwnList, OwnForm, OwnCalls, OwnCall, Owns

\* A buyer's transaction writes statuses, and marks their units.
LEMMA OwnBuyers ==
    ASSUME OwnInv, Buyers
    PROVE  OwnRows' /\ OwnList' /\ OwnForm' /\ OwnCalls'
<1>1. ASSUME NEW u \in Units, NEW s \in Statuses, row' = [row EXCEPT ![u].status = s],
             Bought(u)
      PROVE  OwnRows' /\ OwnList' /\ OwnForm' /\ OwnCalls'
  <2>1. /\ row'[u].there = row[u].there /\ row'[u].price = row[u].price
        /\ \A v \in Units \ {u} : row'[v] = row[v]
    BY <1>1, StatusWritten DEF OwnInv
  <2>2. OwnRows'
    BY <1>1, <2>1 DEF OwnInv, OwnRows, Owns, Bought
  <2>3. OwnList' /\ OwnForm'
    BY <1>1 DEF OwnInv, OwnList, OwnForm, Owns, Bought, deskPage
  <2>4. OwnCalls'
    BY <1>1, OwnCallKept DEF OwnInv, OwnCalls, Bought
  <2> QED
    BY <2>2, <2>3, <2>4
<1>2. \A r \in Reservations : status[r] = "EN_ATTENTE" => unitOf[r] \in Units
  BY DEF OwnInv, DeskInv, DeskNamesUnits
<1> QED
  BY <1>1, <1>2 DEF Buyers, Reserve, Settle, Statuses

\* A click fills the form from the list, or sends what the form shows.
LEMMA OwnClick ==
    ASSUME OwnInv, DeskClick
    PROVE  OwnRows' /\ OwnList' /\ OwnForm' /\ OwnCalls'
<1> USE CatalogueAssumption
<1>1. moved \subseteq moved' /\ UNCHANGED <<row, list, foreign>>
  BY DEF DeskClick, TypePrice, ChooseStatus, SelectUnit, SaveUnit, LoadUnits, ArchiveUnit,
         DeleteUnit, CreateUnit, deskTables, deskPage, deskHistory
<1>2. OwnRows' /\ OwnList'
  BY <1>1 DEF OwnInv, OwnRows, OwnList, Owns
<1>3. FormShown => selected \in Units
  BY DEF FormShown, OwnInv, DeskInv, DeskTypeOK
<1>4. CASE TypePrice \/ (\E s \in Choices : ChooseStatus(s)) \/ (\E u \in Units : SelectUnit(u))
  <2>0. UNCHANGED call
    BY <1>4 DEF TypePrice, ChooseStatus, SelectUnit
  <2>1. OwnCalls'
    BY <1>1, <2>0, OwnCallKept DEF OwnInv, OwnCalls
  <2>2. form \in [price : Units \cup {None}, status : Statuses]
    BY DEF OwnInv, DeskInv, DeskTypeOK
  <2>3. ASSUME TypePrice
        PROVE  OwnForm'
    BY <1>3, <2>2, <2>3 DEF TypePrice, deskHistory, OwnInv, OwnForm, Owns
  <2>4. ASSUME NEW s \in Choices, ChooseStatus(s)
        PROVE  OwnForm'
    BY <1>3, <2>2, <2>4 DEF ChooseStatus, OwnInv, OwnForm, Owns
  <2>5. ASSUME NEW u \in Units, SelectUnit(u)
        PROVE  OwnForm'
    <3>1. u \notin foreign => Owns(u, list[u])
      BY <2>5 DEF SelectUnit, Listed, OwnInv, OwnList
    <3>2. selected' = u /\ form'.price = list[u].price /\ form'.status = list[u].status
          /\ UNCHANGED <<moved, foreign>>
      BY <2>5 DEF SelectUnit, deskHistory
    <3> QED
      BY <3>1, <3>2 DEF OwnForm, Owns
  <2> QED
    BY <1>2, <1>4, <2>1, <2>3, <2>4, <2>5
<1>5. ASSUME NEW q \in Handlers, NEW op \in DeskOps, NEW u \in Units \cup {None},
             NEW sent \in [price : Units \cup {None}, status : Statuses],
             op # "load" => u \in Units, StartCall(q, op, u, sent),
             op = "save" /\ u \notin foreign => Owns(u, sent),
             op = "shelve" => u \in moved',
             UNCHANGED <<selected, form>>
      PROVE  OwnForm' /\ OwnCalls'
  <2>1. DeskInv
    BY DEF OwnInv
  <2>2. /\ \A p \in Handlers \ {q} : call'[p] = call[p]
        /\ call'[q].op = op /\ call'[q].step = "sent" /\ call'[q].unit = u
        /\ call'[q].sent = sent
    BY <1>5, <2>1, StartedCall
  <2>3. OwnForm'
    BY <1>1, <1>5 DEF OwnInv, OwnForm, Owns
  <2>4. \A p \in Handlers \ {q} : OwnCall(p)'
    BY <1>1, <2>2, OwnCallKept DEF OwnInv, OwnCalls
  <2>5. OwnCall(q)'
    BY <1>1, <1>5, <2>2 DEF OwnCall, Owns
  <2>6. OwnCalls'
    BY <2>4, <2>5 DEF OwnCalls
  <2> QED
    BY <2>3, <2>6
<1>6. /\ Blank \in [price : Units \cup {None}, status : Statuses]
      /\ \A s \in Statuses : [Blank EXCEPT !.status = s]
                                 \in [price : Units \cup {None}, status : Statuses]
      /\ \A u \in Units \cup {None} : [Blank EXCEPT !.price = u]
                                 \in [price : Units \cup {None}, status : Statuses]
  BY DEF Blank, Statuses
<1>7. selected \in Units \cup {None}
  BY DEF OwnInv, DeskInv, DeskTypeOK
<1>8. ASSUME NEW q \in Handlers, SaveUnit(q)
      PROVE  OwnForm' /\ OwnCalls'
  <2>1. form \in [price : Units \cup {None}, status : Statuses]
    BY DEF OwnInv, DeskInv, DeskTypeOK
  <2>2. selected \in Units /\ StartCall(q, "save", selected, form)
    BY <1>3, <1>8 DEF SaveUnit
  <2>3. selected \notin foreign => Owns(selected, form)
    BY <2>2 DEF OwnInv, OwnForm
  <2> QED
    BY <1>5, <1>8, <2>1, <2>2, <2>3 DEF SaveUnit, deskPage, DeskOps
<1>9. ASSUME NEW q \in Handlers, LoadUnits(q)
      PROVE  OwnForm' /\ OwnCalls'
  BY <1>5, <1>6, <1>9 DEF LoadUnits, DeskOps
<1>10. ASSUME NEW q \in Handlers, NEW u \in Units, ArchiveUnit(q, u)
       PROVE  OwnForm' /\ OwnCalls'
  <2>1. [Blank EXCEPT !.status = IF list[u].status = "ARCHIVE" THEN "DISPONIBLE" ELSE "ARCHIVE"]
           \in [price : Units \cup {None}, status : Statuses]
    BY <1>6 DEF Statuses
  <2> QED
    BY <1>5, <1>10, <2>1 DEF ArchiveUnit, deskPage, DeskOps
<1>11. ASSUME NEW q \in Handlers, NEW u \in Units, DeleteUnit(q, u)
       PROVE  OwnForm' /\ OwnCalls'
  BY <1>5, <1>6, <1>7, <1>11 DEF DeleteUnit, deskPage, DeskOps
<1>12. ASSUME NEW q \in Handlers, NEW u \in Units, CreateUnit(q, u)
       PROVE  OwnForm' /\ OwnCalls'
  BY <1>5, <1>6, <1>12 DEF CreateUnit, deskPage, DeskOps
<1> QED
  BY <1>2, <1>4, <1>8, <1>9, <1>10, <1>11, <1>12 DEF DeskClick

\* A request writes what it was sent with, to its unit.
LEMMA OwnApi ==
    ASSUME OwnInv, NEW q \in Handlers, DeskApi(q)
    PROVE  OwnRows' /\ OwnList' /\ OwnForm' /\ OwnCalls'
<1> DEFINE u == call[q].unit
<1>1. UNCHANGED <<list, selected, form, moved, foreign>>
  BY DEF DeskApi, UpdateUnit, InsertUnit, CountReservations, RemoveUnit, ReadUnits, Written,
         deskTables, deskPage, deskHistory
<1>2. OwnList' /\ OwnForm'
  BY <1>1 DEF OwnInv, OwnList, OwnForm, Owns
<1>3. DeskInv /\ OwnCall(q)
  BY DEF OwnInv, OwnCalls
<1>4. ASSUME NEW op, NEW from, NEW to \in {"stored", "counted"}, CallStep(q, op, from, to)
      PROVE  OwnCalls'
  <2>1. call' = [call EXCEPT ![q].step = to] /\ to \notin {"read", "sent"}
    BY <1>4 DEF CallStep
  <2>2. call'[q].step = to
    BY <1>3, <1>4, SteppedCall
  <2>3. \A p \in Handlers \ {q} : call'[p] = call[p]
    BY <1>3, <2>1 DEF DeskInv, DeskTypeOK
  <2>4. OwnCall(q)'
    BY <2>1, <2>2 DEF OwnCall
  <2> QED
    BY <1>1, <2>3, <2>4, OwnCallKept DEF OwnInv, OwnCalls
<1>5. ASSUME u \in Units, \A v \in Units \ {u} : row'[v] = row[v],
             u \notin foreign /\ row'[u].there => Owns(u, row'[u])
      PROVE  OwnRows'
  BY <1>1, <1>5 DEF OwnInv, OwnRows, Owns
<1>6. CASE UpdateUnit(q)
  <2>1. u \in Units /\ call[q].sent \in [price : Units \cup {None}, status : Statuses]
        /\ row[u].there /\ row \in [Units -> UnitRows]
    BY <1>3, <1>6 DEF UpdateUnit, CallStep, DeskInv, DeskTypeOK, DeskNamesUnits, Calls
  <2>2. ASSUME call[q].op = "save"
        PROVE  OwnRows'
    <3>1. call[q].step = "sent"
          /\ row' = [row EXCEPT ![u].status = call[q].sent.status, ![u].price = call[q].sent.price]
      BY <1>6, <2>2 DEF UpdateUnit, CallStep
    <3>2. /\ row'[u].status = call[q].sent.status /\ row'[u].price = call[q].sent.price
          /\ \A v \in Units \ {u} : row'[v] = row[v]
      BY <2>1, <3>1 DEF UnitRows
    <3>3. u \notin foreign => Owns(u, call[q].sent)
      BY <1>3, <2>2, <3>1 DEF OwnCall
    <3> QED
      BY <1>5, <2>1, <3>2, <3>3 DEF Owns
  <2>3. ASSUME call[q].op = "shelve"
        PROVE  OwnRows'
    <3>1. call[q].step = "sent" /\ row' = [row EXCEPT ![u].status = call[q].sent.status]
      BY <1>6, <2>3 DEF UpdateUnit, CallStep
    <3>2. /\ row'[u].price = row[u].price
          /\ \A v \in Units \ {u} : row'[v] = row[v]
      BY <1>3, <2>1, <3>1, StatusWritten
    <3>3. u \notin foreign => u \in moved /\ Owns(u, row[u])
      BY <1>3, <2>1, <2>3, <3>1 DEF OwnCall, OwnInv, OwnRows
    <3> QED
      BY <1>5, <2>1, <3>2, <3>3 DEF Owns
  <2>4. call[q].op \in {"save", "shelve"}
    BY <1>6 DEF UpdateUnit, CallStep
  <2>5. OwnCalls'
    BY <1>4, <1>6 DEF UpdateUnit
  <2> QED
    BY <1>2, <2>2, <2>3, <2>4, <2>5
<1>7. CASE InsertUnit(q)
  <2>1. u \in Units /\ row \in [Units -> UnitRows]
    BY <1>3, <1>7 DEF InsertUnit, CallStep, DeskInv, DeskTypeOK, DeskNamesUnits
  <2>2. /\ row'[u].price = u /\ row'[u].status = "DISPONIBLE"
        /\ \A v \in Units \ {u} : row'[v] = row[v]
    BY <1>7, <2>1 DEF InsertUnit
  <2>3. OwnRows'
    BY <1>5, <2>1, <2>2 DEF Owns
  <2>4. OwnCalls'
    BY <1>4, <1>7 DEF InsertUnit
  <2> QED
    BY <1>2, <2>3, <2>4
<1>8. CASE CountReservations(q)
  <2>1. OwnRows'
    BY <1>1, <1>8 DEF CountReservations, deskTables, OwnInv, OwnRows, Owns
  <2>2. OwnCalls'
    BY <1>4, <1>8 DEF CountReservations
  <2> QED
    BY <1>2, <2>1, <2>2
<1>9. CASE RemoveUnit(q)
  <2>1. u \in Units /\ row \in [Units -> UnitRows]
    BY <1>3, <1>9 DEF RemoveUnit, CallStep, DeskInv, DeskTypeOK, DeskNamesUnits
  <2>2. /\ ~row'[u].there
        /\ \A v \in Units \ {u} : row'[v] = row[v]
    BY <1>9, <2>1 DEF RemoveUnit, NoRow
  <2>3. OwnRows'
    BY <1>5, <2>1, <2>2
  <2>4. OwnCalls'
    BY <1>4, <1>9 DEF RemoveUnit
  <2> QED
    BY <1>2, <2>3, <2>4
<1>10. CASE ReadUnits(q)
  <2>1. UNCHANGED row
    BY <1>10 DEF ReadUnits, deskTables
  <2>2. OwnRows'
    BY <1>1, <2>1 DEF OwnInv, OwnRows, Owns
  <2>3. call' = [call EXCEPT ![q] = [call[q] EXCEPT !.step = "read", !.seen = row]]
    BY <1>3, <1>10 DEF ReadUnits, DeskInv, DeskTypeOK
  <2>4. /\ \A p \in Handlers \ {q} : call'[p] = call[p]
        /\ call'[q].step = "read" /\ call'[q].seen = row
    BY <1>3, <2>3 DEF DeskInv, DeskTypeOK, Calls
  <2>5. OwnCall(q)'
    BY <1>1, <2>4 DEF OwnCall, OwnInv, OwnRows, Owns
  <2>6. OwnCalls'
    BY <1>1, <2>4, <2>5, OwnCallKept DEF OwnInv, OwnCalls
  <2> QED
    BY <1>2, <2>2, <2>6
<1> QED
  BY <1>6, <1>7, <1>8, <1>9, <1>10 DEF DeskApi

\* An answer shows what was read, and fills the form with it.
LEMMA OwnAnswer ==
    ASSUME OwnInv, NEW q \in Handlers, DeskAnswer(q)
    PROVE  OwnRows' /\ OwnList' /\ OwnForm' /\ OwnCalls'
<1> USE CatalogueAssumption
<1> DEFINE u == call[q].unit
<1>1. UNCHANGED <<row, moved>> /\ foreign \subseteq foreign'
  BY DEF DeskAnswer, RefreshUnit, ShowUnits, DropLine, HandlerFails, Strayed, deskTables,
         deskHistory
<1>2. OwnRows'
  BY <1>1 DEF OwnInv, OwnRows, Owns
<1>3. DeskInv /\ OwnCall(q)
  BY DEF OwnInv, OwnCalls
<1>4. ASSUME call'[q].step \notin {"read", "sent"}, \A p \in Handlers \ {q} : call'[p] = call[p]
      PROVE  OwnCalls'
  <2>1. OwnCall(q)'
    BY <1>4 DEF OwnCall
  <2> QED
    BY <1>1, <1>4, <2>1, OwnCallKept DEF OwnInv, OwnCalls
<1>5. ASSUME CallDone(q)
      PROVE  OwnCalls'
  BY <1>3, <1>4, <1>5, EndedCall
<1>6. ASSUME call[q].step = "read", list' = call[q].seen
      PROVE  OwnList'
  BY <1>1, <1>3, <1>6 DEF OwnCall, OwnList, Owns
<1>7. ASSUME UNCHANGED list
      PROVE  OwnList'
  BY <1>1, <1>7 DEF OwnInv, OwnList, Owns
<1>8. ASSUME selected' \in {selected, None} \cup foreign', UNCHANGED form
      PROVE  OwnForm'
  BY <1>1, <1>8 DEF OwnInv, OwnForm, Owns
<1>9. CASE RefreshUnit(q)
  <2>1. u \in Units /\ call[q].step = "read" /\ UNCHANGED selected
    BY <1>3, <1>9 DEF RefreshUnit, DeskInv, DeskNamesUnits
  <2>2. selected \in Units \ foreign' => selected = u
    BY <1>9 DEF RefreshUnit, Strayed
  <2>3. CASE call[q].seen[u].there
    <3>1. form'.price = call[q].seen[u].price /\ form'.status = call[q].seen[u].status
      BY <1>9, <2>3 DEF RefreshUnit
    <3>2. u \notin foreign => Owns(u, call[q].seen[u])
      BY <1>3, <2>1, <2>3 DEF OwnCall
    <3>3. OwnForm'
      BY <1>1, <2>1, <2>2, <3>1, <3>2 DEF OwnForm, Owns
    <3> QED
      BY <1>2, <1>5, <1>6, <1>9, <2>1, <3>3 DEF RefreshUnit
  <2>4. CASE ~call[q].seen[u].there
    BY <1>2, <1>5, <1>6, <1>8, <1>9, <2>1, <2>4 DEF RefreshUnit
  <2> QED
    BY <2>3, <2>4
<1>10. CASE ShowUnits(q)
  <2>1. OwnList'
    BY <1>6, <1>7, <1>10 DEF ShowUnits
  <2>2. OwnForm'
    BY <1>8, <1>10 DEF ShowUnits
  <2> QED
    BY <1>2, <1>5, <1>10, <2>1, <2>2 DEF ShowUnits
<1>11. CASE DropLine(q)
  <2>1. \A v \in Units : list'[v].there => list'[v] = list[v]
    BY <1>3, <1>11 DEF DropLine, NoRow, DeskInv, DeskTypeOK
  <2>2. OwnList'
    BY <1>1, <2>1 DEF OwnInv, OwnList, Owns
  <2>3. OwnForm'
    BY <1>8, <1>11 DEF DropLine
  <2> QED
    BY <1>2, <1>5, <1>11, <2>2, <2>3 DEF DropLine
<1>12. CASE HandlerFails(q)
  <2>1. OwnForm' /\ OwnList'
    BY <1>7, <1>8, <1>12 DEF HandlerFails
  <2>2. ASSUME call' = [call EXCEPT ![q].step = "unread"]
        PROVE  OwnCalls'
    <3>1. CallStep(q, call[q].op, call[q].step, "unread")
      BY <2>2 DEF CallStep
    <3>2. call'[q].step = "unread"
      BY <1>3, <3>1, SteppedCall
    <3>3. \A p \in Handlers \ {q} : call'[p] = call[p]
      BY <1>3, <2>2 DEF DeskInv, DeskTypeOK
    <3> QED
      BY <1>4, <3>2, <3>3
  <2> QED
    BY <1>2, <1>5, <1>12, <2>1, <2>2 DEF HandlerFails
<1> QED
  BY <1>9, <1>10, <1>11, <1>12 DEF DeskAnswer

\* What the save button of the form writes: a form that nobody's answer has
\* filled over the shoulder writes back its unit's own price, and its status.
THEOREM FormKeepsToItsUnit == Spec => []FormWritesItsOwn
<1>1. DeskInit => OwnInv
  BY OwnInitInv
<1>2. OwnInv /\ [DeskNext]_deskVars => OwnInv'
  <2> SUFFICES ASSUME OwnInv, [DeskNext]_deskVars PROVE OwnInv'
    OBVIOUS
  <2>1. DeskInv'
    BY DeskStepInv DEF OwnInv
  <2>2. CASE UNCHANGED deskVars
    <3>1. \A q \in Handlers : OwnCall(q)'
      BY <2>2, OwnCallKept DEF deskVars, deskHistory, OwnInv, OwnCalls
    <3> QED
      BY <2>1, <2>2, <3>1
         DEF deskVars, deskTables, deskPage, deskHistory, OwnInv, OwnRows, OwnList, OwnForm,
             OwnCalls, Owns
  <2> QED
    BY <2>1, <2>2, OwnBuyers, OwnClick, OwnApi, OwnAnswer DEF DeskNext, OwnInv
<1>3. OwnInv => FormWritesItsOwn
  BY DEF OwnInv, OwnRows, Owns, FormWritesItsOwn
<1> QED
  BY PageIsItsSections, <1>1, <1>2, <1>3, PTL DEF DeskSpec

-----------------------------------------------------------------------------
(* The pictures (module CatalogueMedia).                                   *)

PictureRows == [unit : Units \cup {None}, file : Requests \cup {None}]

PageRequests == [op   : MediaOps \cup {"idle", "done"},
                 step : {"idle", "sent", "found", "gone", "put", "refused"},
                 unit : Units \cup {None},
                 of   : Requests \cup {None},
                 file : Requests \cup {None}]

MediaTypeOK ==
    /\ units \subseteq Units
    /\ media \in [Requests -> PictureRows]
    /\ views \subseteq Requests
    /\ bucket \subseteq Requests
    /\ request \in [Requests -> PageRequests]
    /\ given \subseteq Requests \cup {None}
    /\ excused \subseteq Requests \cup {None}

Deletes(q) == request[q].op \in {"remove", "replace"}

\* Request q is over; or its row, if there is one, has been inserted; or its
\* file is in the bucket, before anything shows it.
Ran(q)    == request[q].op = "done"
Spent(q)  == Ran(q) \/ At(q, {"upload"}, "refused")
Stored(q) == At(q, {"upload", "image"}, "put")

IsShown(f) == f \in views \/ \E m \in Requests : media[m].unit # None /\ media[m].file = f

\* A request that still answers for file f; one that has only read which file
\* it is to delete does not, since the row is still there.
Holds(q, f) ==
    /\ request[q].op \in {"remove", "replace", "upload", "image"}
    /\ request[q].step # "found"
    /\ request[q].file = f

\* The steps of each kind of request, and the file it carries.
RequestShape(q) ==
    /\ request[q].op \in {"upload", "image"} =>
          request[q].file = q /\ request[q].step \in {"sent", "put", "refused"}
    /\ request[q].op = "image" => request[q].step # "refused"
    /\ Deletes(q) => request[q].step \in {"sent", "found", "gone"} /\ request[q].of \in Requests
    /\ Deletes(q) /\ request[q].step = "sent" => request[q].file \in {q, None}
    /\ request[q].op \in {"add", "update"} => request[q].step = "sent"
    /\ request[q].op = "update" => request[q].of \in Requests

\* A row shows the file of its own request, a view too, unless somebody typed
\* an address in; a request shows its file once, when it ends.
RowsAreTheirs ==
    \A m \in Requests : media[m].unit # None =>
        /\ Spent(m)
        /\ media[m].file \notin given \cup {None} => media[m].file = m /\ Ran(m)

ViewsAreTheirs == \A f \in views : Ran(f) /\ media[f].unit = None

\* A deletion under way: what it has read is what the row still shows, and
\* what it is about to delete is shown no more.
DeletionIsSafe(q) ==
    /\ request[q].step \in {"sent", "found"} => Spent(request[q].of)
    /\ request[q].step = "found" =>
          LET m == request[q].of IN
          /\ media[m].unit # None => media[m].file \in {request[q].file} \cup excused
          /\ request[q].file \notin given \cup {None} =>
                request[q].file = m /\ m \notin views /\ Ran(m)
    /\ request[q].step = "gone" /\ request[q].file \notin given \cup {None} =>
          ~IsShown(request[q].file) /\ Ran(request[q].file)

DeletionsAreSafe == \A q \in Requests : Deletes(q) => DeletionIsSafe(q)

\* Files: what an upload has stored is there, a file in the bucket has been
\* stored, what is shown is there, and what nothing shows is answered for.
UploadsAreThere == \A q \in Requests : Stored(q) => q \in bucket \cup given
FilesWereStored == \A f \in bucket : Spent(f) \/ Stored(f)
ShownIsThere    == \A f \in Requests \ given : IsShown(f) => f \in bucket
OrphansAreHeld  ==
    \A f \in bucket : IsShown(f) \/ f \in excused \/ \E q \in Requests : Holds(q, f)

\* The inductive invariant of FilesMatchRows.
MediaInv ==
    /\ MediaTypeOK
    /\ \A q \in Requests : RequestShape(q)
    /\ RowsAreTheirs /\ ViewsAreTheirs /\ DeletionsAreSafe
    /\ UploadsAreThere /\ FilesWereStored /\ ShownIsThere /\ OrphansAreHeld

LEMMA ShownMeansIsShown == \A f : f \in Shown <=> IsShown(f)
BY DEF Shown, MediaRows, IsShown

LEMMA MediaInvIsEnough == MediaInv => FilesMatchRows
<1> SUFFICES ASSUME MediaInv PROVE FilesMatchRows
  OBVIOUS
<1>1. ShownFileIsThere
  <2> SUFFICES ASSUME NEW f \in Shown, f # None, f \notin given PROVE f \in bucket
    BY DEF ShownFileIsThere
  <2>1. IsShown(f)
    BY ShownMeansIsShown
  <2>2. f \in Requests
    BY <2>1 DEF IsShown, MediaInv, MediaTypeOK, PictureRows
  <2> QED
    BY <2>1, <2>2 DEF MediaInv, ShownIsThere
<1>2. OrphansAreExcused
  <2> SUFFICES ASSUME NEW f \in bucket, f \notin Shown, f \notin excused PROVE InHand(f)
    BY DEF OrphansAreExcused
  <2> QED
    BY ShownMeansIsShown DEF MediaInv, OrphansAreHeld, Holds, InHand
<1> QED
  BY <1>1, <1>2 DEF FilesMatchRows

LEMMA MediaInitInv == MediaInit => MediaInv
<1> SUFFICES ASSUME MediaInit PROVE MediaInv
  OBVIOUS
<1>1. NoRequest \in PageRequests /\ NoRequest.op = "idle"
  BY DEF NoRequest, PageRequests
<1>2. NoMedia \in PictureRows /\ NoMedia.unit = None
  BY DEF NoMedia, PictureRows
<1>3. \A q \in Requests : request[q].op = "idle" /\ media[q].unit = None
  BY <1>1, <1>2 DEF MediaInit
<1>4. MediaTypeOK
  BY <1>1, <1>2 DEF MediaInit, MediaTypeOK
<1>5. views = {} /\ bucket = {}
  BY DEF MediaInit
<1> QED
  BY <1>3, <1>4, <1>5
     DEF MediaInv, RequestShape, RowsAreTheirs, ViewsAreTheirs, DeletionsAreSafe, Deletes,
         UploadsAreThere, FilesWereStored, ShownIsThere, OrphansAreHeld, IsShown, Stored, At

\* What becomes of a request: it starts, goes on, or ends.
LEMMA EndedRequest ==
    ASSUME MediaTypeOK, NEW q \in Requests, Ends(q)
    PROVE  /\ request' \in [Requests -> PageRequests]
           /\ request'[q].op = "done" /\ request'[q].step = "idle"
           /\ \A p \in Requests \ {q} : request'[p] = request[p]
           /\ UNCHANGED units
<1>1. NoRequest \in PageRequests /\ NoRequest.step = "idle"
  BY DEF NoRequest, PageRequests
<1>2. /\ [NoRequest EXCEPT !.op = "done"] \in PageRequests
      /\ [NoRequest EXCEPT !.op = "done"].op = "done"
      /\ [NoRequest EXCEPT !.op = "done"].step = "idle"
  BY <1>1 DEF PageRequests
<1> QED
  BY <1>2 DEF Ends, MediaTypeOK

LEMMA MovedRequest ==
    ASSUME MediaTypeOK, NEW q \in Requests, NEW step \in {"gone", "put", "refused"},
           Goto(q, step)
    PROVE  /\ request' \in [Requests -> PageRequests]
           /\ request'[q].step = step
           /\ request'[q].op = request[q].op /\ request'[q].of = request[q].of
           /\ request'[q].file = request[q].file
           /\ \A p \in Requests \ {q} : request'[p] = request[p]
           /\ UNCHANGED units
<1>1. request' = [request EXCEPT ![q] = [request[q] EXCEPT !.step = step]] /\ UNCHANGED units
  BY DEF Goto, MediaTypeOK
<1>2. /\ [request[q] EXCEPT !.step = step] \in PageRequests
      /\ [request[q] EXCEPT !.step = step].step = step
      /\ [request[q] EXCEPT !.step = step].op = request[q].op
      /\ [request[q] EXCEPT !.step = step].of = request[q].of
      /\ [request[q] EXCEPT !.step = step].file = request[q].file
  BY DEF MediaTypeOK, PageRequests
<1> QED
  BY <1>1, <1>2 DEF MediaTypeOK

\* The administrator asks.
LEMMA AskInv ==
    ASSUME MediaInv, NEW q \in Requests, NEW op \in MediaOps, NEW u \in Units \cup {None},
           NEW of \in Requests \cup {None}, NEW file \in Requests \cup {None},
           op \in {"upload", "image"} => file = q,
           op \in {"remove", "replace"} =>
               of \in Requests /\ media[of].unit # None /\ file \in {q, None},
           op = "update" => of \in Requests,
           StartRequest(q, op, u, of, file)
    PROVE  MediaInv'
<1> USE MediaAssumption
<1>1. /\ request' \in [Requests -> PageRequests]
      /\ request[q].op = "idle"
      /\ request'[q].op = op /\ request'[q].step = "sent"
      /\ request'[q].of = of /\ request'[q].file = file
      /\ \A p \in Requests \ {q} : request'[p] = request[p]
  BY DEF StartRequest, NoRequest, MediaInv, MediaTypeOK, PageRequests
<1>2. UNCHANGED <<units, media, views, bucket, given, excused>>
  BY DEF StartRequest
<1>3. MediaTypeOK'
  BY <1>1, <1>2 DEF MediaInv, MediaTypeOK
<1>4. \A p \in Requests : RequestShape(p)'
  BY <1>1 DEF MediaInv, RequestShape, Deletes, MediaOps
<1>5. \A p \in Requests : /\ Ran(p)' <=> Ran(p)
                          /\ Spent(p)' <=> Spent(p)
                          /\ Stored(p)' <=> Stored(p)
  BY <1>1 DEF Ran, Spent, Stored, At, MediaOps
<1>6. \A f : IsShown(f)' <=> IsShown(f)
  BY <1>2 DEF IsShown
<1>7. RowsAreTheirs' /\ ViewsAreTheirs' /\ UploadsAreThere' /\ FilesWereStored' /\ ShownIsThere'
  BY <1>2, <1>5, <1>6
     DEF MediaInv, MediaTypeOK, RowsAreTheirs, ViewsAreTheirs, UploadsAreThere, FilesWereStored,
         ShownIsThere
<1>8. DeletionsAreSafe'
  <2> SUFFICES ASSUME NEW p \in Requests, Deletes(p)' PROVE DeletionIsSafe(p)'
    BY DEF DeletionsAreSafe
  <2>1. CASE p = q
    BY <1>1, <1>2, <1>5, <2>1
       DEF Deletes, DeletionIsSafe, MediaInv, RowsAreTheirs
  <2>2. CASE p # q
    <3>1. Deletes(p) /\ DeletionIsSafe(p) /\ RequestShape(p)
      BY <1>1, <2>2 DEF Deletes, MediaInv, DeletionsAreSafe
    <3>2. request[p].of \in Requests /\ request[p].file \in Requests \cup {None}
      BY <3>1 DEF RequestShape, MediaInv, MediaTypeOK, PageRequests
    <3> QED
      BY <1>1, <1>2, <1>5, <1>6, <2>2, <3>1, <3>2 DEF DeletionIsSafe
  <2> QED BY <2>1, <2>2
<1>9. OrphansAreHeld'
  <2>1. \A f : \A p \in Requests : Holds(p, f) => Holds(p, f)'
    BY <1>1 DEF Holds
  <2> QED
    BY <1>2, <1>6, <2>1 DEF MediaInv, OrphansAreHeld
<1> QED
  BY <1>3, <1>4, <1>7, <1>8, <1>9 DEF MediaInv

\* A deletion under way stays safe while others work: the row it has found
\* vanishes at most, or shows an excused file, and no file that was shown
\* comes back.
LEMMA DeletionKept ==
    ASSUME MediaInv, NEW p \in Requests, Deletes(p), request'[p] = request[p],
           given \subseteq given', excused \subseteq excused',
           \A r \in Requests : (Ran(r) => Ran(r)') /\ (Spent(r) => Spent(r)'),
           \A r \in Requests : Spent(r) => \/ media'[r] = media[r]
                                           \/ media'[r].unit = None
                                           \/ media'[r].file \in excused',
           \A f \in Requests \ given' : Ran(f) /\ IsShown(f)' => IsShown(f),
           \A f \in Requests : Ran(f) /\ f \in views' => f \in views
    PROVE  DeletionIsSafe(p)'
<1> USE MediaAssumption
<1>1. DeletionIsSafe(p) /\ RequestShape(p)
  BY DEF MediaInv, DeletionsAreSafe
<1>2. request[p].of \in Requests /\ request[p].file \in Requests \cup {None}
  BY <1>1 DEF RequestShape, MediaInv, MediaTypeOK, PageRequests
<1>3. CASE request[p].step = "found"
  BY <1>1, <1>2, <1>3 DEF DeletionIsSafe
<1>4. CASE request[p].step # "found"
  BY <1>1, <1>2, <1>4 DEF DeletionIsSafe
<1> QED BY <1>3, <1>4

\* A row with an address typed in.
LEMMA AddMediaInv ==
    ASSUME MediaInv, NEW q \in Requests, AddMedia(q)
    PROVE  MediaInv'
<1> USE MediaAssumption, CatalogueAssumption
<1> DEFINE file == request[q].file
<1>1. /\ request' \in [Requests -> PageRequests]
      /\ request[q].op = "add" /\ request[q].step = "sent"
      /\ request'[q].op = "done" /\ request'[q].step = "idle"
      /\ \A p \in Requests \ {q} : request'[p] = request[p]
      /\ UNCHANGED units
  BY EndedRequest DEF AddMedia, At, MediaInv
<1>2. /\ UNCHANGED <<views, bucket, excused>>
      /\ given' = given \cup {file}
      /\ request[q].unit \in Units /\ file \in Requests \cup {None}
      /\ media' = [media EXCEPT ![q] = [unit |-> request[q].unit, file |-> file]]
  BY DEF AddMedia, MediaInv, MediaTypeOK, PageRequests
<1>3. /\ media' \in [Requests -> PictureRows]
      /\ media'[q].unit # None /\ media'[q].file = file
      /\ \A m \in Requests \ {q} : media'[m] = media[m]
  BY <1>2 DEF MediaInv, MediaTypeOK, PictureRows
<1>4. \A p \in Requests : /\ Ran(p)' <=> Ran(p) \/ p = q
                          /\ Spent(p)' <=> Spent(p) \/ p = q
                          /\ Stored(p)' <=> Stored(p)
  BY <1>1 DEF Ran, Spent, Stored, At
<1>5. ~Ran(q) /\ ~Spent(q) /\ media[q].unit = None
  BY <1>1 DEF Ran, Spent, At, MediaInv, RowsAreTheirs
<1>6. \A f : IsShown(f)' <=> IsShown(f) \/ f = file
  BY <1>2, <1>3, <1>5 DEF IsShown
<1>7. MediaTypeOK'
  BY <1>1, <1>2, <1>3 DEF MediaInv, MediaTypeOK
<1>8. \A p \in Requests : RequestShape(p)'
  BY <1>1 DEF MediaInv, RequestShape, Deletes
<1>9. RowsAreTheirs' /\ ViewsAreTheirs'
  BY <1>2, <1>3, <1>4, <1>5 DEF MediaInv, MediaTypeOK, RowsAreTheirs, ViewsAreTheirs
<1>10. UploadsAreThere' /\ FilesWereStored' /\ ShownIsThere'
  BY <1>2, <1>4, <1>6 DEF MediaInv, MediaTypeOK, UploadsAreThere, FilesWereStored, ShownIsThere
<1>11. DeletionsAreSafe'
  <2> SUFFICES ASSUME NEW p \in Requests, Deletes(p)' PROVE DeletionIsSafe(p)'
    BY DEF DeletionsAreSafe
  <2>1. Deletes(p) /\ request'[p] = request[p]
    BY <1>1 DEF Deletes
  <2> QED
    BY <1>2, <1>3, <1>4, <1>5, <1>6, <2>1, DeletionKept
<1>12. OrphansAreHeld'
  <2>1. \A f : \A p \in Requests : Holds(p, f) => Holds(p, f)'
    BY <1>1 DEF Holds
  <2> QED
    BY <1>2, <1>6, <2>1 DEF MediaInv, OrphansAreHeld
<1> QED
  BY <1>7, <1>8, <1>9, <1>10, <1>11, <1>12 DEF MediaInv

\* The address of a row.
LEMMA UpdateMediaInv ==
    ASSUME MediaInv, NEW q \in Requests, UpdateMedia(q)
    PROVE  MediaInv'
<1> USE MediaAssumption, CatalogueAssumption
<1> DEFINE m == request[q].of
           file == request[q].file
<1>1. /\ request' \in [Requests -> PageRequests]
      /\ request[q].op = "update" /\ request[q].step = "sent"
      /\ request'[q].op = "done" /\ request'[q].step = "idle"
      /\ \A p \in Requests \ {q} : request'[p] = request[p]
      /\ UNCHANGED units
  BY EndedRequest DEF UpdateMedia, At, MediaInv
<1>2. /\ UNCHANGED <<views, bucket>>
      /\ given' = given \cup {file}
      /\ excused' = excused \cup {media[m].file, file}
      /\ m \in Requests /\ file \in Requests \cup {None} /\ media[m].unit # None
      /\ media' = [media EXCEPT ![m].file = file]
  BY <1>1 DEF UpdateMedia, MediaInv, MediaTypeOK, PageRequests, RequestShape
<1>3. /\ media' \in [Requests -> PictureRows]
      /\ media'[m].unit = media[m].unit /\ media'[m].file = file
      /\ \A r \in Requests \ {m} : media'[r] = media[r]
      /\ media[m].file \in Requests \cup {None}
  BY <1>2 DEF MediaInv, MediaTypeOK, PictureRows
<1>4. \A p \in Requests : /\ Ran(p)' <=> Ran(p) \/ p = q
                          /\ Spent(p)' <=> Spent(p) \/ p = q
                          /\ Stored(p)' <=> Stored(p)
  BY <1>1 DEF Ran, Spent, Stored, At
<1>5. \A f : /\ IsShown(f)' => IsShown(f) \/ f = file
             /\ IsShown(f) => IsShown(f)' \/ f = media[m].file
  BY <1>2, <1>3 DEF IsShown
<1>6. MediaTypeOK'
  BY <1>1, <1>2, <1>3 DEF MediaInv, MediaTypeOK
<1>7. \A p \in Requests : RequestShape(p)'
  BY <1>1 DEF MediaInv, RequestShape, Deletes
<1>8. RowsAreTheirs' /\ ViewsAreTheirs'
  BY <1>2, <1>3, <1>4 DEF MediaInv, MediaTypeOK, RowsAreTheirs, ViewsAreTheirs
<1>9. UploadsAreThere' /\ FilesWereStored' /\ ShownIsThere'
  BY <1>2, <1>4, <1>5 DEF MediaInv, MediaTypeOK, UploadsAreThere, FilesWereStored, ShownIsThere
<1>10. DeletionsAreSafe'
  <2> SUFFICES ASSUME NEW p \in Requests, Deletes(p)' PROVE DeletionIsSafe(p)'
    BY DEF DeletionsAreSafe
  <2>1. Deletes(p) /\ request'[p] = request[p]
    BY <1>1 DEF Deletes
  <2> QED
    BY <1>2, <1>3, <1>4, <1>5, <2>1, DeletionKept
<1>11. OrphansAreHeld'
  <2>1. \A f : \A p \in Requests : Holds(p, f) => Holds(p, f)'
    BY <1>1 DEF Holds
  <2> QED
    BY <1>2, <1>5, <2>1 DEF MediaInv, OrphansAreHeld
<1> QED
  BY <1>6, <1>7, <1>8, <1>9, <1>10, <1>11 DEF MediaInv

\* A deletion reads which file its row shows.
LEMMA FindMediaInv ==
    ASSUME MediaInv, NEW q \in Requests, FindMedia(q)
    PROVE  MediaInv'
<1> USE MediaAssumption, CatalogueAssumption
<1> DEFINE m == request[q].of
<1>1. /\ Deletes(q) /\ request[q].step = "sent" /\ media[m].unit # None
      /\ request' = [request EXCEPT ![q] =
                        [request[q] EXCEPT !.step = "found", !.file = media[m].file]]
      /\ UNCHANGED <<units, media, views, bucket, given, excused>>
  BY DEF FindMedia, At, Deletes, MediaInv, MediaTypeOK
<1>2. m \in Requests /\ media[m].file \in Requests \cup {None} /\ RequestShape(q)
      /\ request[q].file \in {q, None} /\ request[q] \in PageRequests
  BY <1>1 DEF MediaInv, MediaTypeOK, PictureRows, RequestShape
<1>3. /\ [request[q] EXCEPT !.step = "found", !.file = media[m].file] \in PageRequests
      /\ [request[q] EXCEPT !.step = "found", !.file = media[m].file].op = request[q].op
      /\ [request[q] EXCEPT !.step = "found", !.file = media[m].file].step = "found"
      /\ [request[q] EXCEPT !.step = "found", !.file = media[m].file].of = m
      /\ [request[q] EXCEPT !.step = "found", !.file = media[m].file].file = media[m].file
  BY <1>2 DEF PageRequests
<1>4. /\ request' \in [Requests -> PageRequests]
      /\ request'[q].op = request[q].op /\ request'[q].step = "found"
      /\ request'[q].of = m /\ request'[q].file = media[m].file
      /\ \A p \in Requests \ {q} : request'[p] = request[p]
  BY <1>1, <1>3 DEF MediaInv, MediaTypeOK
<1>5. \A p \in Requests : /\ Ran(p)' <=> Ran(p)
                          /\ Spent(p)' <=> Spent(p)
                          /\ Stored(p)' <=> Stored(p)
  BY <1>1, <1>4 DEF Ran, Spent, Stored, At, Deletes
<1>6. \A f : IsShown(f)' <=> IsShown(f)
  BY <1>1 DEF IsShown
<1>7. MediaTypeOK'
  BY <1>1, <1>4 DEF MediaInv, MediaTypeOK
<1>8. \A p \in Requests : RequestShape(p)'
  BY <1>1, <1>2, <1>4 DEF MediaInv, RequestShape, Deletes
<1>9. RowsAreTheirs' /\ ViewsAreTheirs' /\ UploadsAreThere' /\ FilesWereStored' /\ ShownIsThere'
  BY <1>1, <1>5, <1>6
     DEF MediaInv, MediaTypeOK, RowsAreTheirs, ViewsAreTheirs, UploadsAreThere, FilesWereStored,
         ShownIsThere
<1>10. DeletionsAreSafe'
  <2> SUFFICES ASSUME NEW p \in Requests, Deletes(p)' PROVE DeletionIsSafe(p)'
    BY DEF DeletionsAreSafe
  <2>1. CASE p = q
    BY <1>1, <1>2, <1>4, <1>5, <2>1
       DEF DeletionIsSafe, MediaInv, DeletionsAreSafe, RowsAreTheirs, ViewsAreTheirs
  <2>2. CASE p # q
    <3>1. Deletes(p) /\ request'[p] = request[p]
      BY <1>4, <2>2 DEF Deletes
    <3> QED
      BY <1>1, <1>5, <1>6, <3>1, DeletionKept
  <2> QED BY <2>1, <2>2
<1>11. OrphansAreHeld'
  <2>1. ~Spent(q) /\ ~Stored(q)
    BY <1>1 DEF Spent, Stored, Ran, At, Deletes
  <2>2. q \notin bucket
    BY <2>1 DEF MediaInv, FilesWereStored
  <2>3. \A p \in Requests, f \in bucket : Holds(p, f) => Holds(p, f)'
    BY <1>1, <1>2, <1>4, <2>2 DEF Holds, MediaInv, MediaTypeOK
  <2> QED
    BY <1>1, <1>6, <2>3 DEF MediaInv, OrphansAreHeld
<1> QED
  BY <1>7, <1>8, <1>9, <1>10, <1>11 DEF MediaInv

\* A deletion deletes the row.
LEMMA DropRowInv ==
    ASSUME MediaInv, NEW q \in Requests, DropRow(q)
    PROVE  MediaInv'
<1> USE MediaAssumption, CatalogueAssumption
<1> DEFINE m == request[q].of
           file == request[q].file
<1>1. /\ request' \in [Requests -> PageRequests]
      /\ Deletes(q) /\ request[q].step = "found"
      /\ request'[q].op = request[q].op /\ request'[q].step = "gone"
      /\ request'[q].of = m /\ request'[q].file = file
      /\ \A p \in Requests \ {q} : request'[p] = request[p]
      /\ UNCHANGED units
  BY MovedRequest DEF DropRow, At, Deletes, MediaInv
<1>2. /\ UNCHANGED <<views, bucket, given, excused>>
      /\ RequestShape(q) /\ DeletionIsSafe(q) /\ file \in Requests \cup {None}
      /\ m \in Requests /\ media[m].unit # None
      /\ media' = [media EXCEPT ![m] = NoMedia]
  BY <1>1 DEF DropRow, MediaInv, MediaTypeOK, PageRequests, RequestShape, DeletionsAreSafe
<1>3. /\ media' \in [Requests -> PictureRows]
      /\ media'[m].unit = None
      /\ \A r \in Requests \ {m} : media'[r] = media[r]
  BY <1>2 DEF MediaInv, MediaTypeOK, PictureRows, NoMedia
<1>4. \A p \in Requests : /\ Ran(p)' <=> Ran(p)
                          /\ Spent(p)' <=> Spent(p)
                          /\ Stored(p)' <=> Stored(p)
  BY <1>1 DEF Ran, Spent, Stored, At, Deletes
<1>5. \A f : /\ IsShown(f)' => IsShown(f)
             /\ IsShown(f) => IsShown(f)' \/ f = media[m].file
  BY <1>2, <1>3 DEF IsShown
<1>6. MediaTypeOK'
  BY <1>1, <1>2, <1>3 DEF MediaInv, MediaTypeOK
<1>7. \A p \in Requests : RequestShape(p)'
  BY <1>1 DEF MediaInv, RequestShape, Deletes
<1>8. RowsAreTheirs' /\ ViewsAreTheirs'
  BY <1>2, <1>3, <1>4 DEF MediaInv, MediaTypeOK, RowsAreTheirs, ViewsAreTheirs
<1>9. UploadsAreThere' /\ FilesWereStored' /\ ShownIsThere'
  BY <1>2, <1>4, <1>5 DEF MediaInv, MediaTypeOK, UploadsAreThere, FilesWereStored, ShownIsThere
<1>10. DeletionsAreSafe'
  <2> SUFFICES ASSUME NEW p \in Requests, Deletes(p)' PROVE DeletionIsSafe(p)'
    BY DEF DeletionsAreSafe
  <2>1. CASE p = q
    <3>1. ASSUME NEW f, f = file, f \notin given \cup {None}
          PROVE  ~IsShown(f)' /\ Ran(f)'
      <4>1. f = m /\ f \notin views /\ Ran(f)
        BY <1>1, <1>2, <3>1 DEF DeletionIsSafe
      <4>2. \A r \in Requests : media[r].unit # None /\ media[r].file = f => r = f
        BY <3>1, <4>1 DEF MediaInv, RowsAreTheirs
      <4> QED
        BY <1>2, <1>3, <1>4, <4>1, <4>2 DEF IsShown
    <3> QED
      BY <1>1, <1>2, <2>1, <3>1 DEF DeletionIsSafe
  <2>2. CASE p # q
    <3>1. Deletes(p) /\ request'[p] = request[p]
      BY <1>1, <2>2 DEF Deletes
    <3> QED
      BY <1>2, <1>3, <1>4, <1>5, <3>1, DeletionKept
  <2> QED BY <2>1, <2>2
<1>11. OrphansAreHeld'
  <2>1. \A f : \A p \in Requests : Holds(p, f) => Holds(p, f)'
    BY <1>1 DEF Holds
  <2>2. media[m].file \in {file} \cup excused
    BY <1>1, <1>2 DEF DeletionIsSafe
  <2>3. \A f : f = file => Holds(q, f)'
    BY <1>1 DEF Holds, Deletes
  <2> QED
    BY <1>2, <1>5, <2>1, <2>2, <2>3 DEF MediaInv, OrphansAreHeld
<1> QED
  BY <1>6, <1>7, <1>8, <1>9, <1>10, <1>11 DEF MediaInv

\* A deletion deletes the file it has read, or leaves it; a replacement goes
\* on as an upload.
LEMMA DropFileInv ==
    ASSUME MediaInv, NEW q \in Requests, DropFile(q)
    PROVE  MediaInv'
<1> USE MediaAssumption, CatalogueAssumption
<1> DEFINE file == request[q].file
<1>1. /\ Deletes(q) /\ request[q].step = "gone" /\ DeletionIsSafe(q)
      /\ request[q] \in PageRequests /\ file \in Requests \cup {None}
  BY DEF DropFile, At, Deletes, MediaInv, DeletionsAreSafe, MediaTypeOK, PageRequests
<1>2. /\ request' \in [Requests -> PageRequests]
      /\ \/ request'[q].op = "done"
         \/ request'[q].op = "upload" /\ request'[q].step = "sent" /\ request'[q].file = q
      /\ \A p \in Requests \ {q} : request'[p] = request[p]
      /\ UNCHANGED units
  <2>1. CASE request[q].op = "replace"
    <3>1. request' = [request EXCEPT ![q] =
                         [request[q] EXCEPT !.op = "upload", !.step = "sent", !.file = q]]
          /\ UNCHANGED units
      BY <2>1 DEF DropFile, MediaInv, MediaTypeOK
    <3>2. /\ [request[q] EXCEPT !.op = "upload", !.step = "sent", !.file = q] \in PageRequests
          /\ [request[q] EXCEPT !.op = "upload", !.step = "sent", !.file = q].op = "upload"
          /\ [request[q] EXCEPT !.op = "upload", !.step = "sent", !.file = q].step = "sent"
          /\ [request[q] EXCEPT !.op = "upload", !.step = "sent", !.file = q].file = q
      BY <1>1 DEF PageRequests, MediaOps
    <3> QED
      BY <3>1, <3>2 DEF MediaInv, MediaTypeOK
  <2>2. CASE request[q].op # "replace"
    BY <2>2, EndedRequest DEF DropFile, MediaInv
  <2> QED BY <2>1, <2>2
<1>3. /\ UNCHANGED <<media, views, given>>
      /\ bucket' \subseteq bucket /\ bucket \ bucket' \subseteq {file}
      /\ excused \subseteq excused' /\ excused' \subseteq excused \cup {file}
      /\ file \notin bucket' \/ file \in excused'
  BY DEF DropFile
<1>4. \A p \in Requests : /\ Ran(p) => Ran(p)'
                          /\ Spent(p) => Spent(p)'
                          /\ Stored(p)' <=> Stored(p)
  BY <1>1, <1>2 DEF Ran, Spent, Stored, At, Deletes
<1>5. \A f : IsShown(f)' <=> IsShown(f)
  BY <1>3 DEF IsShown
<1>6. MediaTypeOK'
  BY <1>1, <1>2, <1>3 DEF MediaInv, MediaTypeOK
<1>7. \A p \in Requests : RequestShape(p)'
  BY <1>2 DEF MediaInv, RequestShape, Deletes
<1>8. RowsAreTheirs' /\ ViewsAreTheirs'
  BY <1>3, <1>4 DEF MediaInv, MediaTypeOK, RowsAreTheirs, ViewsAreTheirs
<1>9. file \notin given \cup {None} => ~IsShown(file) /\ Ran(file)
  BY <1>1 DEF DeletionIsSafe
<1>10. UploadsAreThere' /\ FilesWereStored' /\ ShownIsThere'
  <2>1. UploadsAreThere'
    <3>1. Ran(file) => ~Stored(file)
      BY DEF Ran, Stored, At, MediaOps
    <3> QED
      BY <1>3, <1>4, <1>9, <3>1 DEF MediaInv, UploadsAreThere
  <2>2. FilesWereStored'
    BY <1>3, <1>4 DEF MediaInv, MediaTypeOK, FilesWereStored
  <2>3. ShownIsThere'
    BY <1>3, <1>5, <1>9 DEF MediaInv, ShownIsThere
  <2> QED BY <2>1, <2>2, <2>3
<1>11. DeletionsAreSafe'
  <2> SUFFICES ASSUME NEW p \in Requests, Deletes(p)' PROVE DeletionIsSafe(p)'
    BY DEF DeletionsAreSafe
  <2>1. Deletes(p) /\ request'[p] = request[p]
    BY <1>2 DEF Deletes
  <2> QED
    BY <1>3, <1>4, <1>5, <2>1, DeletionKept
<1>12. OrphansAreHeld'
  <2>1. \A f : \A p \in Requests : Holds(p, f) /\ f # file => Holds(p, f)'
    BY <1>2 DEF Holds
  <2> QED
    BY <1>3, <1>5, <2>1 DEF MediaInv, OrphansAreHeld
<1> QED
  BY <1>6, <1>7, <1>8, <1>10, <1>11, <1>12 DEF MediaInv

\* An upload stores its file.
LEMMA PutFileInv ==
    ASSUME MediaInv, NEW q \in Requests, PutFile(q)
    PROVE  MediaInv'
<1> USE MediaAssumption, CatalogueAssumption
<1>1. /\ request' \in [Requests -> PageRequests]
      /\ request[q].op \in {"upload", "image"} /\ request[q].step = "sent"
      /\ request[q].file = q
      /\ request'[q].op = request[q].op /\ request'[q].step = "put"
      /\ request'[q].of = request[q].of /\ request'[q].file = q
      /\ \A p \in Requests \ {q} : request'[p] = request[p]
      /\ UNCHANGED <<units, media, views, given, excused>> /\ bucket' = bucket \cup {q}
  BY MovedRequest DEF PutFile, At, MediaInv, RequestShape
<1>2. \A p \in Requests : /\ Ran(p)' <=> Ran(p)
                          /\ Spent(p)' <=> Spent(p)
                          /\ Stored(p)' <=> Stored(p) \/ p = q
  BY <1>1 DEF Ran, Spent, Stored, At
<1>3. \A f : IsShown(f)' <=> IsShown(f)
  BY <1>1 DEF IsShown
<1>4. MediaTypeOK'
  BY <1>1 DEF MediaInv, MediaTypeOK
<1>5. \A p \in Requests : RequestShape(p)'
  BY <1>1 DEF MediaInv, RequestShape, Deletes
<1>6. RowsAreTheirs' /\ ViewsAreTheirs' /\ UploadsAreThere' /\ FilesWereStored' /\ ShownIsThere'
  BY <1>1, <1>2, <1>3
     DEF MediaInv, MediaTypeOK, RowsAreTheirs, ViewsAreTheirs, UploadsAreThere, FilesWereStored,
         ShownIsThere
<1>7. DeletionsAreSafe'
  <2> SUFFICES ASSUME NEW p \in Requests, Deletes(p)' PROVE DeletionIsSafe(p)'
    BY DEF DeletionsAreSafe
  <2>1. Deletes(p) /\ request'[p] = request[p]
    BY <1>1 DEF Deletes
  <2> QED
    BY <1>1, <1>2, <1>3, <2>1, DeletionKept
<1>8. OrphansAreHeld'
  <2>1. Holds(q, q)' /\ \A f : \A p \in Requests : Holds(p, f) => Holds(p, f)'
    BY <1>1 DEF Holds
  <2> QED
    BY <1>1, <1>3, <2>1 DEF MediaInv, OrphansAreHeld
<1> QED
  BY <1>4, <1>5, <1>6, <1>7, <1>8 DEF MediaInv

\* The row of an upload, whether its insertion answers or not.
LEMMA RowInserted ==
    ASSUME MediaInv, NEW q \in Requests, At(q, {"upload"}, "put"), request[q].unit \in units,
           request' \in [Requests -> PageRequests],
           \A p \in Requests \ {q} : request'[p] = request[p],
           \/ request'[q].op = "done" /\ UNCHANGED given
           \/ /\ request'[q].op = "upload" /\ request'[q].step = "refused"
              /\ request'[q].file = q
              /\ given' = given \cup {q},
           media' = [media EXCEPT ![q] = [unit |-> request[q].unit, file |-> q]],
           UNCHANGED <<units, views, bucket, excused>>
    PROVE  MediaInv'
<1> USE MediaAssumption, CatalogueAssumption
<1>1. /\ media' \in [Requests -> PictureRows]
      /\ media'[q].unit # None /\ media'[q].file = q
      /\ \A m \in Requests \ {q} : media'[m] = media[m]
  BY DEF MediaInv, MediaTypeOK, PictureRows
<1>2. \A p \in Requests : /\ Ran(p) => Ran(p)'
                          /\ Spent(p)' <=> Spent(p) \/ p = q
                          /\ Stored(p)' <=> Stored(p) /\ p # q
  BY DEF Ran, Spent, Stored, At
<1>3. ~Ran(q) /\ ~Spent(q) /\ media[q].unit = None
  BY DEF Ran, Spent, At, MediaInv, RowsAreTheirs
<1>4. \A f : IsShown(f)' <=> IsShown(f) \/ f = q
  BY <1>1, <1>3 DEF IsShown
<1>5. given \subseteq given' /\ (Ran(q)' \/ q \in given') /\ given' \subseteq given \cup {q}
  BY DEF Ran
<1>6. MediaTypeOK'
  BY <1>1, <1>5 DEF MediaInv, MediaTypeOK
<1>7. \A p \in Requests : RequestShape(p)'
  BY DEF MediaInv, RequestShape, Deletes
<1>8. RowsAreTheirs' /\ ViewsAreTheirs'
  BY <1>1, <1>2, <1>3, <1>5 DEF MediaInv, MediaTypeOK, RowsAreTheirs, ViewsAreTheirs
<1>9. UploadsAreThere' /\ FilesWereStored' /\ ShownIsThere'
  <2>1. q \in bucket \cup given
    BY DEF MediaInv, UploadsAreThere, Stored, At
  <2>2. ShownIsThere'
    BY <1>4, <1>5, <2>1 DEF MediaInv, ShownIsThere
  <2> QED
    BY <1>2, <1>5, <2>2 DEF MediaInv, MediaTypeOK, UploadsAreThere, FilesWereStored
<1>10. DeletionsAreSafe'
  <2> SUFFICES ASSUME NEW p \in Requests, Deletes(p)' PROVE DeletionIsSafe(p)'
    BY DEF DeletionsAreSafe
  <2>1. Deletes(p) /\ request'[p] = request[p]
    BY DEF Deletes
  <2> QED
    BY <1>1, <1>2, <1>3, <1>4, <1>5, <2>1, DeletionKept
<1>11. OrphansAreHeld'
  <2>1. \A f : \A p \in Requests : Holds(p, f) /\ f # q => Holds(p, f)'
    BY DEF Holds, At, MediaInv, RequestShape
  <2> QED
    BY <1>4, <2>1 DEF MediaInv, OrphansAreHeld
<1> QED
  BY <1>6, <1>7, <1>8, <1>9, <1>10, <1>11 DEF MediaInv

LEMMA InsertMediaInv ==
    ASSUME MediaInv, NEW q \in Requests, InsertMedia(q)
    PROVE  MediaInv'
BY EndedRequest, RowInserted DEF InsertMedia, MediaInv

LEMMA InsertFailsInv ==
    ASSUME MediaInv, NEW q \in Requests, InsertFails(q)
    PROVE  MediaInv'
<1> USE MediaAssumption, CatalogueAssumption
<1>1. /\ request' \in [Requests -> PageRequests]
      /\ request[q].op = "upload" /\ request[q].step = "put" /\ request[q].file = q
      /\ request'[q].op = "upload" /\ request'[q].step = "refused"
      /\ request'[q].of = request[q].of /\ request'[q].file = q
      /\ \A p \in Requests \ {q} : request'[p] = request[p]
      /\ UNCHANGED <<units, views, bucket, excused>>
  BY MovedRequest DEF InsertFails, At, MediaInv, RequestShape
<1>2. CASE media' # media
  <2>1. /\ request[q].unit \in units /\ given' = given \cup {q}
        /\ media' = [media EXCEPT ![q] = [unit |-> request[q].unit, file |-> q]]
    BY <1>2 DEF InsertFails
  <2> QED
    BY <1>1, <2>1, RowInserted DEF At
<1>3. CASE UNCHANGED <<media, given>>
  <2>1. \A p \in Requests : /\ Ran(p)' <=> Ran(p)
                            /\ Spent(p)' <=> Spent(p) \/ p = q
                            /\ Stored(p)' <=> Stored(p) /\ p # q
    BY <1>1 DEF Ran, Spent, Stored, At
  <2>2. \A f : IsShown(f)' <=> IsShown(f)
    BY <1>1, <1>3 DEF IsShown
  <2>3. MediaTypeOK'
    BY <1>1, <1>3 DEF MediaInv, MediaTypeOK
  <2>4. \A p \in Requests : RequestShape(p)'
    BY <1>1 DEF MediaInv, RequestShape, Deletes
  <2>5. RowsAreTheirs' /\ ViewsAreTheirs' /\ UploadsAreThere' /\ FilesWereStored'
        /\ ShownIsThere'
    BY <1>1, <1>3, <2>1, <2>2
       DEF MediaInv, MediaTypeOK, RowsAreTheirs, ViewsAreTheirs, UploadsAreThere,
           FilesWereStored, ShownIsThere
  <2>6. DeletionsAreSafe'
    <3> SUFFICES ASSUME NEW p \in Requests, Deletes(p)' PROVE DeletionIsSafe(p)'
      BY DEF DeletionsAreSafe
    <3>1. Deletes(p) /\ request'[p] = request[p]
      BY <1>1 DEF Deletes
    <3> QED
      BY <1>1, <1>3, <2>1, <2>2, <3>1, DeletionKept
  <2>7. OrphansAreHeld'
    <3>1. \A f : \A p \in Requests : Holds(p, f) => Holds(p, f)'
      BY <1>1 DEF Holds
    <3> QED
      BY <1>1, <2>2, <3>1 DEF MediaInv, OrphansAreHeld
  <2> QED
    BY <2>3, <2>4, <2>5, <2>6, <2>7 DEF MediaInv
<1>4. media' # media \/ UNCHANGED <<media, given>>
  <2>1. ASSUME request[q].unit \in units,
               media' = [media EXCEPT ![q] = [unit |-> request[q].unit, file |-> q]]
        PROVE  media' # media
    <3>1. ~Spent(q)
      BY <1>1 DEF Spent, Ran, At
    <3>2. media[q].unit = None /\ media'[q].unit = request[q].unit /\ request[q].unit # None
      BY <2>1, <3>1 DEF MediaInv, RowsAreTheirs, MediaTypeOK
    <3> QED BY <3>2
  <2> QED
    BY <2>1 DEF InsertFails
<1> QED BY <1>2, <1>3, <1>4

\* An upload that was refused takes its file back, or leaves it.
LEMMA CleanUpInv ==
    ASSUME MediaInv, NEW q \in Requests, CleanUp(q)
    PROVE  MediaInv'
<1> USE MediaAssumption, CatalogueAssumption
<1>1. /\ request' \in [Requests -> PageRequests]
      /\ request[q].op = "upload" /\ request[q].step = "refused" /\ request[q].file = q
      /\ request'[q].op = "done" /\ request'[q].step = "idle"
      /\ \A p \in Requests \ {q} : request'[p] = request[p]
      /\ UNCHANGED units
  BY EndedRequest DEF CleanUp, At, MediaInv, RequestShape
<1>2. /\ UNCHANGED <<media, views, given>>
      /\ bucket' \subseteq bucket /\ bucket \ bucket' \subseteq {q}
      /\ excused \subseteq excused' /\ excused' \subseteq excused \cup {q}
      /\ q \notin bucket' \/ q \in excused'
  BY DEF CleanUp
<1>3. \A p \in Requests : /\ Ran(p)' <=> Ran(p) \/ p = q
                          /\ Spent(p)' <=> Spent(p)
                          /\ Stored(p)' <=> Stored(p)
  BY <1>1 DEF Ran, Spent, Stored, At
<1>4. ~Ran(q) /\ ~Stored(q)
  BY <1>1 DEF Ran, Stored, At
<1>5. \A f : IsShown(f)' <=> IsShown(f)
  BY <1>2 DEF IsShown
<1>6. MediaTypeOK'
  BY <1>1, <1>2 DEF MediaInv, MediaTypeOK
<1>7. \A p \in Requests : RequestShape(p)'
  BY <1>1 DEF MediaInv, RequestShape, Deletes
<1>8. RowsAreTheirs' /\ ViewsAreTheirs' /\ UploadsAreThere' /\ FilesWereStored'
  BY <1>2, <1>3, <1>4
     DEF MediaInv, MediaTypeOK, RowsAreTheirs, ViewsAreTheirs, UploadsAreThere, FilesWereStored
<1>9. ShownIsThere'
  <2>1. q \notin given => ~IsShown(q)
    BY <1>4 DEF IsShown, MediaInv, RowsAreTheirs, ViewsAreTheirs
  <2> QED
    BY <1>2, <1>5, <2>1 DEF MediaInv, ShownIsThere
<1>10. DeletionsAreSafe'
  <2> SUFFICES ASSUME NEW p \in Requests, Deletes(p)' PROVE DeletionIsSafe(p)'
    BY DEF DeletionsAreSafe
  <2>1. Deletes(p) /\ request'[p] = request[p]
    BY <1>1 DEF Deletes
  <2> QED
    BY <1>2, <1>3, <1>5, <2>1, DeletionKept
<1>11. OrphansAreHeld'
  <2>1. \A f : \A p \in Requests : Holds(p, f) /\ f # q => Holds(p, f)'
    BY <1>1 DEF Holds
  <2> QED
    BY <1>2, <1>5, <2>1 DEF MediaInv, OrphansAreHeld
<1> QED
  BY <1>6, <1>7, <1>8, <1>9, <1>10, <1>11 DEF MediaInv

\* The image of a view is saved with it, or never.
LEMMA SaveViewInv ==
    ASSUME MediaInv, NEW q \in Requests, SaveView(q)
    PROVE  MediaInv'
<1> USE MediaAssumption, CatalogueAssumption
<1>1. /\ request' \in [Requests -> PageRequests]
      /\ request[q].op = "image" /\ request[q].step = "put" /\ request[q].file = q
      /\ request'[q].op = "done" /\ request'[q].step = "idle"
      /\ \A p \in Requests \ {q} : request'[p] = request[p]
      /\ UNCHANGED units
  BY EndedRequest DEF SaveView, At, MediaInv, RequestShape
<1>2. /\ UNCHANGED <<media, bucket, given>>
      /\ views \subseteq views' /\ views' \subseteq views \cup {q}
      /\ excused \subseteq excused' /\ excused' \subseteq excused \cup {q}
      /\ q \in views' \/ q \in excused'
  BY DEF SaveView
<1>3. \A p \in Requests : /\ Ran(p)' <=> Ran(p) \/ p = q
                          /\ Spent(p)' <=> Spent(p) \/ p = q
                          /\ Stored(p)' <=> Stored(p) /\ p # q
  BY <1>1 DEF Ran, Spent, Stored, At
<1>4. ~Ran(q) /\ Stored(q) /\ media[q].unit = None
  BY <1>1 DEF Ran, Spent, Stored, At, MediaInv, RowsAreTheirs
<1>5. \A f : /\ IsShown(f) => IsShown(f)'
             /\ IsShown(f)' => IsShown(f) \/ f = q
             /\ f \in views' => IsShown(f)'
  BY <1>2 DEF IsShown
<1>6. MediaTypeOK'
  BY <1>1, <1>2 DEF MediaInv, MediaTypeOK
<1>7. \A p \in Requests : RequestShape(p)'
  BY <1>1 DEF MediaInv, RequestShape, Deletes
<1>8. RowsAreTheirs' /\ ViewsAreTheirs' /\ UploadsAreThere' /\ FilesWereStored'
  BY <1>2, <1>3, <1>4
     DEF MediaInv, MediaTypeOK, RowsAreTheirs, ViewsAreTheirs, UploadsAreThere, FilesWereStored
<1>9. ShownIsThere'
  BY <1>2, <1>4, <1>5 DEF MediaInv, UploadsAreThere, ShownIsThere
<1>10. DeletionsAreSafe'
  <2> SUFFICES ASSUME NEW p \in Requests, Deletes(p)' PROVE DeletionIsSafe(p)'
    BY DEF DeletionsAreSafe
  <2>1. Deletes(p) /\ request'[p] = request[p]
    BY <1>1 DEF Deletes
  <2> QED
    BY <1>2, <1>3, <1>4, <1>5, <2>1, DeletionKept
<1>11. OrphansAreHeld'
  <2>1. \A f : \A p \in Requests : Holds(p, f) /\ f # q => Holds(p, f)'
    BY <1>1 DEF Holds
  <2> QED
    BY <1>2, <1>5, <2>1 DEF MediaInv, OrphansAreHeld
<1> QED
  BY <1>6, <1>7, <1>8, <1>9, <1>10, <1>11 DEF MediaInv

\* A unit is deleted with its rows.
LEMMA DropUnitInv ==
    ASSUME MediaInv, NEW u \in Units, DropUnit(u)
    PROVE  MediaInv'
<1> USE MediaAssumption, CatalogueAssumption
<1>1. /\ units' \subseteq units /\ UNCHANGED <<views, bucket, request, given>>
      /\ \A m \in Requests :
            /\ media[m].unit # u => media'[m] = media[m]
            /\ media[m].unit = u => media'[m] = NoMedia /\ media[m].file \in excused'
      /\ media' \in [Requests -> PictureRows]
  BY DEF DropUnit, MediaRows, MediaInv, MediaTypeOK, PictureRows, NoMedia
<1>2. excused \subseteq excused' /\ excused' \subseteq Requests \cup {None}
  BY DEF DropUnit, MediaRows, MediaInv, MediaTypeOK, PictureRows
<1>3. NoMedia.unit = None
  BY DEF NoMedia
<1>4. \A p \in Requests : /\ Ran(p)' <=> Ran(p)
                          /\ Spent(p)' <=> Spent(p)
                          /\ Stored(p)' <=> Stored(p)
  BY <1>1 DEF Ran, Spent, Stored, At
<1>5. \A f : /\ IsShown(f)' => IsShown(f)
             /\ IsShown(f) => IsShown(f)' \/ f \in excused'
  BY <1>1, <1>3 DEF IsShown
<1>6. MediaTypeOK'
  BY <1>1, <1>2 DEF MediaInv, MediaTypeOK
<1>7. \A p \in Requests : RequestShape(p)'
  BY <1>1 DEF MediaInv, RequestShape, Deletes
<1>8. RowsAreTheirs' /\ ViewsAreTheirs' /\ UploadsAreThere' /\ FilesWereStored' /\ ShownIsThere'
  BY <1>1, <1>3, <1>4, <1>5
     DEF MediaInv, MediaTypeOK, RowsAreTheirs, ViewsAreTheirs, UploadsAreThere, FilesWereStored,
         ShownIsThere
<1>9. DeletionsAreSafe'
  <2> SUFFICES ASSUME NEW p \in Requests, Deletes(p)' PROVE DeletionIsSafe(p)'
    BY DEF DeletionsAreSafe
  <2>1. Deletes(p) /\ request'[p] = request[p]
    BY <1>1 DEF Deletes
  <2> QED
    BY <1>1, <1>2, <1>3, <1>4, <1>5, <2>1, DeletionKept
<1>10. OrphansAreHeld'
  <2>1. \A f : \A p \in Requests : Holds(p, f) => Holds(p, f)'
    BY <1>1 DEF Holds
  <2> QED
    BY <1>1, <1>2, <1>5, <2>1 DEF MediaInv, OrphansAreHeld
<1> QED
  BY <1>6, <1>7, <1>8, <1>9, <1>10 DEF MediaInv

\* A request dies at any of its steps.
LEMMA RequestDiesInv ==
    ASSUME MediaInv, NEW q \in Requests, RequestDies(q)
    PROVE  MediaInv'
<1> USE MediaAssumption, CatalogueAssumption
<1> DEFINE file == request[q].file
<1>1. /\ request' \in [Requests -> PageRequests]
      /\ request[q].op \in MediaOps /\ RequestShape(q)
      /\ request'[q].op = "done" /\ request'[q].step = "idle"
      /\ \A p \in Requests \ {q} : request'[p] = request[p]
      /\ UNCHANGED <<units, media, views, bucket, given>>
  BY EndedRequest DEF RequestDies, MediaInv
<1>2. /\ excused \subseteq excused' /\ excused' \subseteq Requests \cup {None}
      /\ request[q].step \in {"put", "refused", "gone"} => file \in excused'
  BY DEF RequestDies, MediaInv, MediaTypeOK, PageRequests
<1>3. \A p \in Requests : /\ Ran(p)' <=> Ran(p) \/ p = q
                          /\ Spent(p)' <=> Spent(p) \/ p = q
                          /\ Stored(p)' <=> Stored(p) /\ p # q
  BY <1>1 DEF Ran, Spent, Stored, At
<1>4. \A f : IsShown(f)' <=> IsShown(f)
  BY <1>1 DEF IsShown
<1>5. MediaTypeOK'
  BY <1>1, <1>2 DEF MediaInv, MediaTypeOK
<1>6. \A p \in Requests : RequestShape(p)'
  BY <1>1 DEF MediaInv, RequestShape, Deletes
<1>7. RowsAreTheirs' /\ ViewsAreTheirs' /\ UploadsAreThere' /\ FilesWereStored' /\ ShownIsThere'
  BY <1>1, <1>3, <1>4
     DEF MediaInv, MediaTypeOK, RowsAreTheirs, ViewsAreTheirs, UploadsAreThere, FilesWereStored,
         ShownIsThere
<1>8. DeletionsAreSafe'
  <2> SUFFICES ASSUME NEW p \in Requests, Deletes(p)' PROVE DeletionIsSafe(p)'
    BY DEF DeletionsAreSafe
  <2>1. Deletes(p) /\ request'[p] = request[p]
    BY <1>1 DEF Deletes
  <2> QED
    BY <1>1, <1>2, <1>3, <1>4, <2>1, DeletionKept
<1>9. OrphansAreHeld'
  <2>1. \A f : \A p \in Requests \ {q} : Holds(p, f) => Holds(p, f)'
    BY <1>1 DEF Holds
  <2>2. ASSUME NEW f \in bucket, Holds(q, f)
        PROVE  f \in excused'
    <3>1. CASE request[q].step \in {"put", "refused", "gone"}
      BY <1>2, <2>2, <3>1 DEF Holds
    <3>2. CASE request[q].step \notin {"put", "refused", "gone"}
      <4>1. ~Spent(q) /\ ~Stored(q)
        BY <1>1, <3>2 DEF Spent, Ran, Stored, At, MediaOps
      <4>2. q \notin bucket
        BY <4>1 DEF MediaInv, FilesWereStored
      <4>3. request[q].step = "sent" /\ file \in {q, None}
        BY <1>1, <2>2, <3>2 DEF Holds, RequestShape, Deletes
      <4> QED
        BY <2>2, <4>2, <4>3 DEF Holds, MediaInv, MediaTypeOK
    <3> QED BY <3>1, <3>2
  <2> QED
    BY <1>1, <1>2, <1>4, <2>1, <2>2 DEF MediaInv, OrphansAreHeld
<1> QED
  BY <1>5, <1>6, <1>7, <1>8, <1>9 DEF MediaInv

LEMMA MediaStepInv ==
    ASSUME MediaInv, [MediaNext]_mediaVars
    PROVE  MediaInv'
<1>1. ASSUME NEW q \in Requests, Ask(q)
      PROVE  MediaInv'
  <2>1. units \subseteq Units /\ bucket \subseteq Requests /\ media \in [Requests -> PictureRows]
    BY DEF MediaInv, MediaTypeOK
  <2>2. ASSUME NEW u \in units, AskUpload(q, u)
        PROVE  MediaInv'
    BY <2>1, <2>2, AskInv DEF AskUpload, MediaOps
  <2>3. ASSUME NEW u \in units, NEW f \in bucket \cup {None}, AskAdd(q, u, f)
        PROVE  MediaInv'
    BY <2>1, <2>3, AskInv DEF AskAdd, MediaOps
  <2>4. ASSUME NEW m \in Requests, NEW f \in bucket \cup {None}, AskUpdate(q, m, f)
        PROVE  MediaInv'
    BY <2>1, <2>4, AskInv DEF AskUpdate, MediaOps
  <2>5. ASSUME NEW m \in Requests, AskRemove(q, m)
        PROVE  MediaInv'
    BY <2>1, <2>5, AskInv DEF AskRemove, MediaOps
  <2>6. ASSUME NEW m \in Requests, AskReplace(q, m)
        PROVE  MediaInv'
    <3>1. media[m].unit \in Units \cup {None}
      BY <2>1 DEF PictureRows
    <3> QED
      BY <2>6, <3>1, AskInv DEF AskReplace, MediaOps
  <2>7. CASE AskImage(q)
    BY <2>7, AskInv DEF AskImage, MediaOps
  <2> QED
    BY <1>1, <2>2, <2>3, <2>4, <2>5, <2>6, <2>7 DEF Ask
<1>2. ASSUME NEW q \in Requests, Serve(q)
      PROVE  MediaInv'
  BY <1>2, AddMediaInv, UpdateMediaInv, FindMediaInv, DropRowInv, DropFileInv, PutFileInv,
     InsertMediaInv, InsertFailsInv, CleanUpInv, SaveViewInv, RequestDiesInv DEF Serve
<1>3. CASE UNCHANGED mediaVars
  <2>1. \A p \in Requests : /\ Ran(p)' <=> Ran(p)
                            /\ Spent(p)' <=> Spent(p)
                            /\ Stored(p)' <=> Stored(p)
                            /\ Deletes(p)' <=> Deletes(p)
                            /\ RequestShape(p)' <=> RequestShape(p)
                            /\ \A f : Holds(p, f)' <=> Holds(p, f)
    BY <1>3 DEF mediaVars, Ran, Spent, Stored, At, Deletes, RequestShape, Holds
  <2>2. \A f : IsShown(f)' <=> IsShown(f)
    BY <1>3 DEF mediaVars, IsShown
  <2>3. DeletionsAreSafe'
    BY <1>3, <2>1, <2>2, DeletionKept DEF mediaVars, DeletionsAreSafe
  <2> QED
    BY <1>3, <2>1, <2>2, <2>3
       DEF mediaVars, MediaInv, MediaTypeOK, RowsAreTheirs, ViewsAreTheirs, UploadsAreThere,
           FilesWereStored, ShownIsThere, OrphansAreHeld
<1> QED
  BY <1>1, <1>2, <1>3, DropUnitInv DEF MediaNext

\* The rows of "unit_media" and the bucket keep together whatever requests
\* overlap, fail or die: the picture of a row is there unless its address was
\* typed in, and no file is orphaned in silence.
THEOREM RowsAndFilesKeepTogether == Spec => []FilesMatchRows
<1>1. MediaInit => MediaInv
  BY MediaInitInv
<1>2. MediaInv /\ [MediaNext]_mediaVars => MediaInv'
  BY MediaStepInv
<1>3. MediaInv => FilesMatchRows
  BY MediaInvIsEnough
<1> QED
  BY PageIsItsSections, <1>1, <1>2, <1>3, PTL DEF MediaSpec

=============================================================================
