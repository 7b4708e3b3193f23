--------------------------- MODULE CatalogueDesk ---------------------------
(***************************************************************************)
(* The units of the catalogue (ProjectService) and the page an             *)
(* administrator edits them with, while buyers go on reserving.            *)
(*                                                                         *)
(* The page keeps a list read once, a selected unit and one form.  Each    *)
(* click starts a handler that writes through the API, reads everything    *)
(* again and fills the page with the answer, whatever the administrator    *)
(* has clicked meanwhile.  A price is named by the unit it is meant for;   *)
(* None is an empty input, which the page sends as 0.  A "Fault" is a      *)
(* plausible bug of the operation that follows it, as in UnitLedger.       *)
(***************************************************************************)
EXTENDS Catalogue, FiniteSets

CONSTANTS
    Reservations,   \* ids that rows of "reservations" may take
    Handlers,       \* bound: handlers the page ever starts
    Choices         \* bound: statuses the administrator picks in the form

Statuses == {"DISPONIBLE", "RESERVE", "VENDU", "LIVRE", "ARCHIVE"}

ASSUME DeskAssumption ==
    /\ Choices \subseteq Statuses
    /\ None \notin Reservations \cup Handlers

VARIABLES
    row,        \* per unit, its row: there, Unit.status, Unit.price
    status,     \* Reservation.status, "none" while there is no such row
    unitOf,     \* Reservation.unitId
    list,       \* page: the units it read
    loading,    \* page: loadingUnits, which hides the list and the form
    selected,   \* page: selectedUnitId
    form,       \* page: priceInput and statusInput
    call,       \* page: its handlers, and the API's part of them
    edited,     \* history: units the administrator has written
    moved,      \* history: units whose status a buyer's transaction has
                \*          changed, or the administrator picked
    foreign     \* history: units selected while the form was filled, or
                \*          left, with the values of another

deskTables  == <<row, status, unitOf>>
deskPage    == <<list, loading, selected, form>>
deskHistory == <<edited, moved, foreign>>
deskVars    == <<deskTables, deskPage, call, deskHistory>>

NoRow == [there |-> FALSE, status |-> "DISPONIBLE", price |-> None]

Blank == [price |-> None, status |-> "DISPONIBLE"]

NoCall == [op |-> "idle", step |-> "idle", unit |-> None, sent |-> Blank,
         seen |-> [u \in Units |-> NoRow]]

DeskOps == {"save", "shelve", "create", "delete", "load"}

DeskInit ==
    /\ \E catalogue \in SUBSET Units :
          row = [u \in Units |->
                    IF u \in catalogue THEN [NoRow EXCEPT !.there = TRUE, !.price = u]
                                       ELSE NoRow]
    /\ status = [r \in Reservations |-> "none"]
    /\ unitOf = [r \in Reservations |-> None]
    /\ list = row
    /\ loading = FALSE
    /\ selected = None
    /\ form = Blank
    /\ call = [q \in Handlers |-> NoCall]
    /\ edited = {} /\ moved = {} /\ foreign = {}

-----------------------------------------------------------------------------
(* The transactions of the sale.                                           *)

Bought(u) == moved' = moved \cup {u} /\ UNCHANGED <<deskPage, call, edited, foreign>>

\* Fault: the UPDATE without its condition on the status.
FaultReserveUnconditional(r, u) ==
    /\ status[r] = "none"
    /\ row[u].there
    /\ row' = [row EXCEPT ![u].status = "RESERVE"]
    /\ status' = [status EXCEPT ![r] = "EN_ATTENTE"]
    /\ unitOf' = [unitOf EXCEPT ![r] = u]
    /\ Bought(u)

\* createReservationCore: the conditional UPDATE, then the INSERT.
Reserve(r, u) ==
    /\ status[r] = "none"
    /\ row[u].there /\ row[u].status = "DISPONIBLE"
    /\ row' = [row EXCEPT ![u].status = "RESERVE"]
    /\ status' = [status EXCEPT ![r] = "EN_ATTENTE"]
    /\ unitOf' = [unitOf EXCEPT ![r] = u]
    /\ Bought(u)

\* The end of a hold, or the payment of its deposit.
Settle(r, outcome, unitBecomes) ==
    /\ status[r] = "EN_ATTENTE"
    /\ status' = [status EXCEPT ![r] = outcome]
    /\ row' = [row EXCEPT ![unitOf[r]].status = unitBecomes]
    /\ Bought(unitOf[r])
    /\ UNCHANGED unitOf

Buyers ==
    \E r \in Reservations :
        \/ \E u \in Units : Reserve(r, u)
        \/ Settle(r, "ANNULEE", "DISPONIBLE")
        \/ Settle(r, "CONFIRMEE", "VENDU")

-----------------------------------------------------------------------------
(* The page: what is shown, and what can be clicked.                       *)

Listed(u) == ~loading /\ list[u].there

Running(op) == \E q \in Handlers : call[q].op = op

StartCall(q, op, u, sent) ==
    /\ call[q] = NoCall
    /\ call' = [call EXCEPT ![q] =
                   [NoCall EXCEPT !.op = op, !.step = "sent", !.unit = u, !.sent = sent]]

\* Fault: the form keeps the values of the unit selected before.
FaultSelectKeepsForm(u) ==
    /\ Listed(u)
    /\ selected' = u
    /\ UNCHANGED <<deskTables, list, loading, form, call, deskHistory>>

\* A click on a line of the table: the form takes the values of the list.
SelectUnit(u) ==
    /\ Listed(u)
    /\ selected' = u
    /\ form' = [price |-> list[u].price, status |-> list[u].status]
    /\ UNCHANGED <<deskTables, list, loading, call, deskHistory>>

\* The form is there for a selected unit of the list.
FormShown == selected # None /\ Listed(selected)

\* The administrator corrects the price, or picks a status.
TypePrice ==
    /\ FormShown
    /\ form' = [form EXCEPT !.price = selected]
    /\ UNCHANGED <<deskTables, list, loading, selected, call, deskHistory>>

ChooseStatus(s) ==
    /\ FormShown
    /\ form' = [form EXCEPT !.status = s]
    /\ moved' = moved \cup {selected}
    /\ UNCHANGED <<deskTables, list, loading, selected, call, edited, foreign>>

\* "Enregistrer": price and status of the form, untouched inputs included;
\* one at a time (savingUnit).
SaveUnit(q) ==
    /\ FormShown /\ ~Running("save")
    /\ StartCall(q, "save", selected, form)
    /\ UNCHANGED <<deskTables, deskPage, deskHistory>>

\* "Archiver" or "Restaurer" of any line, the selected one or not.
ArchiveUnit(q, u) ==
    /\ Listed(u)
    /\ StartCall(q, "shelve", u,
             [Blank EXCEPT !.status = IF list[u].status = "ARCHIVE" THEN "DISPONIBLE"
                                                                    ELSE "ARCHIVE"])
    /\ moved' = moved \cup {u}
    /\ UNCHANGED <<deskTables, deskPage, edited, foreign>>

DeleteUnit(q, u) ==
    /\ Listed(u) /\ ~Running("delete")
    /\ StartCall(q, "delete", u, [Blank EXCEPT !.price = selected])
    /\ UNCHANGED <<deskTables, deskPage, deskHistory>>

CreateUnit(q, u) ==
    /\ ~Running("create")
    /\ ~row[u].there /\ u \notin edited
    /\ \A p \in Handlers : call[p].unit # u
    /\ StartCall(q, "create", u, Blank)
    /\ UNCHANGED <<deskTables, deskPage, deskHistory>>

\* "Recharger", and the second half of a creation.
LoadUnits(q) ==
    /\ StartCall(q, "load", None, Blank)
    /\ loading' = TRUE
    /\ UNCHANGED <<deskTables, list, selected, form, deskHistory>>

-----------------------------------------------------------------------------
(* The API.                                                                *)

CallStep(q, op, from, to) ==
    /\ call[q].op = op /\ call[q].step = from
    /\ call' = [call EXCEPT ![q].step = to]

Written(u) == edited' = edited \cup {u} /\ UNCHANGED <<status, unitOf, moved, foreign>>

\* PATCH of a unit: the fields sent; Prisma refuses a row that is gone.
UpdateUnit(q) ==
    LET u == call[q].unit IN
    /\ \/ /\ CallStep(q, "save", "sent", "stored")
          /\ row' = [row EXCEPT ![u].status = call[q].sent.status,
                                ![u].price = call[q].sent.price]
       \/ /\ CallStep(q, "shelve", "sent", "stored")
          /\ row' = [row EXCEPT ![u].status = call[q].sent.status]
    /\ row[u].there
    /\ Written(u)
    /\ UNCHANGED deskPage

\* POST of a unit, DISPONIBLE by default; the page then loads everything.
InsertUnit(q) ==
    LET u == call[q].unit IN
    /\ CallStep(q, "create", "sent", "stored")
    /\ row' = [row EXCEPT ![u] = [there |-> TRUE, status |-> "DISPONIBLE", price |-> u]]
    /\ loading' = TRUE
    /\ Written(u)
    /\ UNCHANGED <<list, selected, form>>

Booked(u) == \E r \in Reservations : unitOf[r] = u

\* deleteUnit: counts the reservations, cancelled ones included, ...
CountReservations(q) ==
    /\ CallStep(q, "delete", "sent", "counted")
    /\ row[call[q].unit].there /\ ~Booked(call[q].unit)
    /\ UNCHANGED <<deskTables, deskPage, deskHistory>>

\* ... then deletes; the foreign key of a reservation made meanwhile forbids.
RemoveUnit(q) ==
    /\ CallStep(q, "delete", "counted", "stored")
    /\ row[call[q].unit].there /\ ~Booked(call[q].unit)
    /\ row' = [row EXCEPT ![call[q].unit] = NoRow]
    /\ Written(call[q].unit)
    /\ UNCHANGED deskPage

\* GET of the projects: the whole list, at once.
ReadUnits(q) ==
    /\ \/ call[q].op \in {"save", "shelve", "create"} /\ call[q].step = "stored"
       \/ call[q].op = "load" /\ call[q].step = "sent"
    /\ call' = [call EXCEPT ![q].step = "read", ![q].seen = row]
    /\ UNCHANGED <<deskTables, deskPage, deskHistory>>

-----------------------------------------------------------------------------
(* The answers.                                                            *)

CallDone(q) == call' = [call EXCEPT ![q] = [NoCall EXCEPT !.op = "done"]]

\* The unit selected now shows, in its form, what belongs to u.
Strayed(u) == foreign' = IF selected \in {None, u} THEN foreign ELSE foreign \cup {selected}

\* refreshSelectedUnit, then the form: filled with the unit of the request,
\* whichever unit is selected now.
RefreshUnit(q) ==
    LET u == call[q].unit IN
    /\ call[q].op \in {"save", "shelve"} /\ call[q].step = "read"
    /\ CallDone(q)
    /\ list' = call[q].seen
    /\ form' = IF call[q].seen[u].there
               THEN [price |-> call[q].seen[u].price, status |-> call[q].seen[u].status]
               ELSE form
    /\ Strayed(u)
    /\ UNCHANGED <<deskTables, loading, selected, edited, moved>>

\* loadApiUnits; after a creation the new unit is selected, the form is not
\* filled.
ShowUnits(q) ==
    LET u == call[q].unit IN
    /\ \/ call[q].op \in {"load", "create"} /\ call[q].step = "read" /\ list' = call[q].seen
       \/ call[q].op \in {"create"} /\ call[q].step = "unread" /\ UNCHANGED list
    /\ CallDone(q)
    /\ loading' = FALSE
    /\ IF call[q].op = "create"
       THEN selected' = u /\ foreign' = foreign \cup {u}
       ELSE UNCHANGED <<selected, foreign>>
    /\ UNCHANGED <<deskTables, form, edited, moved>>

\* The line disappears; the selection with it, if it was on it at the click.
DropLine(q) ==
    LET u == call[q].unit IN
    /\ call[q].op = "delete" /\ call[q].step = "stored"
    /\ CallDone(q)
    /\ list' = [list EXCEPT ![u] = NoRow]
    /\ selected' = IF call[q].sent.price = u THEN None ELSE selected
    /\ UNCHANGED <<deskTables, loading, form, deskHistory>>

\* An error of the API or of the network, at any point: the handler stops.
\* A load shows its error and ends; a creation goes on without its list.
HandlerFails(q) ==
    /\ call[q].op \in DeskOps /\ call[q].step # "unread"
    /\ IF call[q].op = "create" /\ call[q].step \in {"stored", "read"}
       THEN call' = [call EXCEPT ![q].step = "unread"]
       ELSE CallDone(q)
    /\ loading' = (loading /\ call[q].op # "load")
    /\ UNCHANGED <<deskTables, list, selected, form, deskHistory>>

-----------------------------------------------------------------------------
DeskClick ==
    \/ TypePrice
    \/ \E s \in Choices : ChooseStatus(s)
    \/ \E u \in Units : SelectUnit(u)
    \/ \E q \in Handlers :
          \/ SaveUnit(q) \/ LoadUnits(q)
          \/ \E u \in Units : ArchiveUnit(q, u) \/ DeleteUnit(q, u) \/ CreateUnit(q, u)

DeskApi(q) ==
    \/ UpdateUnit(q) \/ InsertUnit(q)
    \/ CountReservations(q) \/ RemoveUnit(q)
    \/ ReadUnits(q)

DeskAnswer(q) == RefreshUnit(q) \/ ShowUnits(q) \/ DropLine(q) \/ HandlerFails(q)

DeskNext ==
    \/ Buyers
    \/ DeskClick
    \/ \E q \in Handlers : DeskApi(q) \/ DeskAnswer(q)

DeskSpec == DeskInit /\ [][DeskNext]_deskVars

-----------------------------------------------------------------------------
(* What the catalogue guarantees.                                          *)

\* The abstract specification: what the page does to a unit is one of the
\* ledger's edits, and its reservations move by the ledger's transactions
\* only; a unit without a row is one that no transaction reaches.
Ledger == INSTANCE UnitLedger WITH
    unitStatus <- [u \in Units |-> row[u].status],
    EditStatuses <- Statuses

DeskImplementsLedger == Ledger!LedgerSpec

\* A form writes what belongs to its unit: a price of its own, and, when
\* neither a buyer nor the administrator has changed its status, that status;
\* except for a unit that was selected while the answer about another filled
\* the form, or that was selected by its creation.
FormWritesItsOwn ==
    \A u \in Units : row[u].there /\ u \notin foreign =>
        /\ row[u].price = u
        /\ u \notin moved => row[u].status = "DISPONIBLE"

=============================================================================
