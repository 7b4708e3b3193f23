--------------------------- MODULE PublicCatalogue ---------------------------
(***************************************************************************)
(* The public catalogue in sales mode (app/catalogue): the window on one   *)
(* home and the reservation window, each with the request that fills it    *)
(* and the answer that may find another home there.  The grid under them   *)
(* was read once, when the page was loaded.  The visitor is signed in; a   *)
(* reservation is served at once (its races are module Reservation).       *)
(*                                                                         *)
(* A window, its spinner or its error cover the page.  "Option 48h" calls  *)
(* nothing and is left out, with the pictures, tabs and filters.           *)
(***************************************************************************)
EXTENDS Pages, FiniteSets

CONSTANTS
    Homes,              \* units whose card was read as available
    MaxFetches,         \* bound: fetchUnit under way at once
    Posts,              \* bound: createReservation under way at once
    MaxVisitErrors      \* bound: requests that fail

ASSUME PublicCatalogueAssumption ==
    None \notin Homes /\ Posts \cup {MaxFetches, MaxVisitErrors} \subseteq Nat

VARIABLES
    home,       \* Unit.status
    detail,     \* page: is3DModalOpen, selectedUnit, unitLoading, unitError
    window,     \* ReservationModal: its props and state
    fetches,    \* fetchUnit under way, for which of the two
    posts,      \* createReservation under way
    detailAsked,\* history: the home the detail window was last opened for
    strayed,    \* history: a reservation outlived the window that asked for it
    visitErrors \* bound: requests that failed

publicVars == <<home, detail, window, fetches, posts, detailAsked, strayed, visitErrors>>

HomeStatus == {"DISPONIBLE", "RESERVE"}

NoHome == [of |-> None, status |-> "RESERVE"]

Closed3D == [open |-> FALSE, shown |-> NoHome, busy |-> FALSE, error |-> FALSE]

ClosedWindow == [open |-> FALSE, for |-> None, step |-> "FORM", shown |-> NoHome,
                 busy |-> FALSE, error |-> FALSE, result |-> None]

NoPost == [of |-> None, step |-> "none"]

PublicInit ==
    /\ home \in [Homes -> HomeStatus]
    /\ detail = Closed3D /\ window = ClosedWindow
    /\ fetches = {} /\ posts = [p \in Posts |-> NoPost]
    /\ detailAsked = None /\ strayed = FALSE /\ visitErrors = 0

VisitErr == visitErrors < MaxVisitErrors /\ visitErrors' = visitErrors + 1

\* Nothing covers the page.
Uncovered == ~detail.open /\ ~window.open

Fetch(by, h) ==
    /\ Cardinality(fetches) < MaxFetches
    /\ fetches' = fetches \cup {[by |-> by, of |-> h, status |-> "asked"]}

-----------------------------------------------------------------------------
(* The window on a home.                                                   *)

\* openUnitDetail, from the overview or from a card.
OpenUnitDetail(h) ==
    /\ Uncovered
    /\ Fetch("detail", h)
    /\ detail' = [open |-> TRUE, shown |-> NoHome, busy |-> TRUE, error |-> FALSE]
    /\ detailAsked' = h
    /\ UNCHANGED <<home, window, posts, strayed, visitErrors>>

\* The home or the error has a button to close it; the spinner has none.
CloseDetail ==
    /\ detail.open /\ ~detail.busy
    /\ detail' = [detail EXCEPT !.open = FALSE]
    /\ UNCHANGED <<home, window, fetches, posts, detailAsked, strayed, visitErrors>>

\* CatalogService.getUnit.
ReadUnit(f) ==
    /\ f.status = "asked"
    /\ fetches' = (fetches \ {f}) \cup {[f EXCEPT !.status = home[f.of]]}
    /\ UNCHANGED <<home, detail, window, posts, detailAsked, strayed, visitErrors>>

Read(f) == [of |-> f.of, status |-> f.status]

ShowDetail(f) ==
    /\ f.by = "detail" /\ f.status # "asked"
    /\ detail' = [detail EXCEPT !.shown = Read(f), !.busy = FALSE]
    /\ fetches' = fetches \ {f}
    /\ UNCHANGED <<home, window, posts, detailAsked, strayed, visitErrors>>

DetailFails(f) ==
    /\ f.by = "detail" /\ VisitErr
    /\ detail' = [detail EXCEPT !.error = TRUE, !.busy = FALSE]
    /\ fetches' = fetches \ {f}
    /\ UNCHANGED <<home, window, posts, detailAsked, strayed>>

-----------------------------------------------------------------------------
(* The reservation window.                                                 *)

\* The effect of opening the window: the home it is for is fetched; the one it
\* showed before stays behind the spinner.
OpenWindow(h) ==
    /\ Fetch("window", h)
    /\ window' = [window EXCEPT !.open = TRUE, !.for = h, !.busy = TRUE, !.error = FALSE]

\* "Réserver", on a card.
ReserveFromGrid(h) ==
    /\ Uncovered
    /\ OpenWindow(h)
    /\ UNCHANGED <<home, detail, posts, detailAsked, strayed, visitErrors>>

\* "Réserver en ligne": the window on the home closes.
ReserveFromDetail ==
    /\ detail.open /\ ~detail.busy /\ detail.shown.status = "DISPONIBLE"
    /\ OpenWindow(detail.shown.of)
    /\ detail' = [detail EXCEPT !.open = FALSE]
    /\ UNCHANGED <<home, posts, detailAsked, strayed, visitErrors>>

\* Fault: the answers of a window closed since are not ignored.
FaultShowUnit(f) ==
    /\ f.by \in {"window", "ignored"} /\ f.status # "asked"
    /\ window' = [window EXCEPT !.shown = Read(f), !.busy = FALSE]
    /\ fetches' = fetches \ {f}
    /\ UNCHANGED <<home, detail, posts, detailAsked, strayed, visitErrors>>

ShowUnit(f) ==
    /\ f.by = "window" /\ f.status # "asked"
    /\ window' = [window EXCEPT !.shown = Read(f), !.busy = FALSE]
    /\ fetches' = fetches \ {f}
    /\ UNCHANGED <<home, detail, posts, detailAsked, strayed, visitErrors>>

UnitFails(f) ==
    /\ f.by = "window" /\ VisitErr
    /\ window' = [window EXCEPT !.error = TRUE, !.busy = FALSE]
    /\ fetches' = fetches \ {f}
    /\ UNCHANGED <<home, detail, posts, detailAsked, strayed>>

\* The effect was cleaned up: cancelled.
DropAnswer(f) ==
    /\ f.by = "ignored" /\ f.status # "asked"
    /\ fetches' = fetches \ {f}
    /\ UNCHANGED <<home, detail, window, posts, detailAsked, strayed, visitErrors>>

\* Fault: the step is not reset.
FaultCloseWindow ==
    /\ window.open
    /\ window' = [window EXCEPT !.open = FALSE]
    /\ fetches' = {IF f.by = "window" THEN [f EXCEPT !.by = "ignored"] ELSE f : f \in fetches}
    /\ strayed' = (strayed \/ window.step = "LOADING")
    /\ UNCHANGED <<home, detail, posts, detailAsked, visitErrors>>

\* The cross, whatever the window awaits, or "Fermer la fenêtre"; the effects
\* reset the form and give up the fetch.
CloseWindow ==
    /\ window.open
    /\ window' = [window EXCEPT !.open = FALSE, !.step = "FORM", !.result = None]
    /\ fetches' = {IF f.by = "window" THEN [f EXCEPT !.by = "ignored"] ELSE f : f \in fetches}
    /\ strayed' = (strayed \/ window.step = "LOADING")
    /\ UNCHANGED <<home, detail, posts, detailAsked, visitErrors>>

\* The button, under whatever home is shown.
FormOffers ==
    /\ window.open /\ window.step = "FORM" /\ ~window.busy
    /\ window.shown.status = "DISPONIBLE"

\* handleSubmit: the home of the window, not the one it shows.
HandleSubmit ==
    /\ FormOffers
    /\ \E p \in Posts :
          /\ IsFirst(p, {x \in Posts : posts[x] = NoPost})
          /\ posts' = [posts EXCEPT ![p] = [of |-> window.for, step |-> "sent"]]
    /\ window' = [window EXCEPT !.step = "LOADING"]
    /\ UNCHANGED <<home, detail, fetches, detailAsked, strayed, visitErrors>>

\* ReservationService.createReservation.
CreateReservation(p) ==
    /\ posts[p].step = "sent" /\ home[posts[p].of] = "DISPONIBLE"
    /\ home' = [home EXCEPT ![posts[p].of] = "RESERVE"]
    /\ posts' = [posts EXCEPT ![p].step = "served"]
    /\ UNCHANGED <<detail, window, fetches, detailAsked, strayed, visitErrors>>

\* The answer reaches the window as it is now.
ReservationDone(p) ==
    /\ posts[p].step = "served"
    /\ window' = [window EXCEPT !.step = "CONFIRMED", !.result = posts[p].of]
    /\ posts' = [posts EXCEPT ![p] = NoPost]
    /\ UNCHANGED <<home, detail, fetches, detailAsked, strayed, visitErrors>>

\* The home was taken, or the request or its answer is lost.
ReservationFails(p) ==
    /\ \/ posts[p].step = "sent" /\ home[posts[p].of] # "DISPONIBLE" /\ UNCHANGED visitErrors
       \/ posts[p].step # "none" /\ VisitErr
    /\ window' = [window EXCEPT !.step = "ERROR"]
    /\ posts' = [posts EXCEPT ![p] = NoPost]
    /\ UNCHANGED <<home, detail, fetches, detailAsked, strayed>>

\* "Réessayer".
BackToForm ==
    /\ window.open /\ window.step = "ERROR"
    /\ window' = [window EXCEPT !.step = "FORM"]
    /\ UNCHANGED <<home, detail, fetches, posts, detailAsked, strayed, visitErrors>>

\* Another buyer, a cancellation or an expiration.
HomeChanges(h) ==
    /\ \E s \in HomeStatus \ {home[h]} : home' = [home EXCEPT ![h] = s]
    /\ UNCHANGED <<detail, window, fetches, posts, detailAsked, strayed, visitErrors>>

PublicNext ==
    \/ CloseDetail
    \/ \E h \in Homes : OpenUnitDetail(h) \/ ReserveFromGrid(h) \/ HomeChanges(h)
    \/ \E f \in fetches : ReadUnit(f) \/ ShowDetail(f) \/ DetailFails(f) \/ ShowUnit(f) \/ UnitFails(f) \/ DropAnswer(f)
    \/ ReserveFromDetail \/ CloseWindow \/ HandleSubmit \/ BackToForm
    \/ \E p \in Posts : CreateReservation(p) \/ ReservationDone(p) \/ ReservationFails(p)

PublicSpec == PublicInit /\ [][PublicNext]_publicVars

-----------------------------------------------------------------------------
(* What a visitor may rely on.                                             *)

\* The reservation window reserves the home it shows, whatever it was opened
\* for before, unless its fetch failed: it then shows the previous one.
ReservesWhatItShows == FormOffers => window.shown.of = window.for \/ window.error

\* The window on a home shows the one it was opened for, and a confirmation is
\* of the home of its window, unless a window was closed while its reservation
\* was under way: the answer then reaches the next one.
WindowsAreOfTheirHome ==
    /\ detail.open /\ detail.shown # NoHome => detail.shown.of = detailAsked
    /\ window.open /\ window.step = "CONFIRMED" => window.result = window.for \/ strayed

=============================================================================
