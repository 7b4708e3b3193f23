--------------------------- MODULE SitePagesProofs ---------------------------
(***************************************************************************)
(* The pages of the web client for every number of homes, rows, requests,  *)
(* people and notices: what each of them shows, sends and lets its user    *)
(* decide.  One invariant per page, each proved of the page alone; the     *)
(* first lemma makes them theorems of a visit.                             *)
(***************************************************************************)
EXTENDS SitePages, TLAPS

-----------------------------------------------------------------------------
(* A visit of the pages is a behaviour of each of them.                    *)

LEMMA VisitIsItsPages ==
    Spec => /\ SiteSpec /\ BookingSpec /\ DocumentSpec /\ SaleSpec
            /\ KycDeskSpec /\ SurveySpec /\ PublicSpec /\ ClientSpec
<1>1. Init => /\ SiteInit /\ BookingInit /\ DocumentInit /\ SaleInit
              /\ KycDeskInit /\ SurveyInit /\ PublicInit /\ ClientInit
  BY DEF Init
<1>2. [Next]_vars => /\ [SiteNext]_siteVars /\ [BookingNext]_bookingVars
                     /\ [DocumentNext]_documentVars /\ [SaleNext]_saleVars
                     /\ [KycDeskNext]_kycDeskVars /\ [SurveyNext]_surveyVars
                     /\ [PublicNext]_publicVars /\ [ClientNext]_clientVars
  BY DEF Next, vars, buyerVars, officeVars, visitorVars
<1> QED
  BY <1>1, <1>2, PTL DEF Spec, SiteSpec, BookingSpec, DocumentSpec, SaleSpec,
                         KycDeskSpec, SurveySpec, PublicSpec, ClientSpec

-----------------------------------------------------------------------------
(* The session (module ClientSession).                                     *)

\* Every step that parts the user from the cookie leaves an excuse, or waits
\* for an answer to fetchMe: the property is inductive as it stands.
LEMMA SessionStep == MenuShowsSession /\ [ClientNext]_clientVars => MenuShowsSession'
<1> SUFFICES ASSUME MenuShowsSession, [ClientNext]_clientVars
             PROVE  MenuShowsSession'
  OBVIOUS
<1> USE DEF MenuShowsSession, Hydrated
<1>1. ASSUME NEW there, Reload(there) PROVE MenuShowsSession'
  BY <1>1 DEF Reload
<1>2. CASE CookieExpires
  BY <1>2 DEF CookieExpires
<1>3. CASE HydrateSession
  BY <1>3 DEF HydrateSession
<1>4. CASE HydrateFails
  BY <1>4 DEF HydrateFails
<1>5. CASE ClickSignOut
  BY <1>5 DEF ClickSignOut
<1>6. CASE SignedOut
  BY <1>6 DEF SignedOut, EndOfSignOut
<1>7. CASE SignOutFails
  BY <1>7 DEF SignOutFails, EndOfSignOut
<1>8. ASSUME NEW p, SendForm(p) PROVE MenuShowsSession'
  BY <1>8 DEF SendForm
<1>9. CASE SignedIn
  BY <1>9 DEF SignedIn
<1>10. CASE SignInFails
  BY <1>10 DEF SignInFails
<1>11. CASE UNCHANGED clientVars
  BY <1>11 DEF clientVars
<1> QED
  BY <1>1, <1>2, <1>3, <1>4, <1>5, <1>6, <1>7, <1>8, <1>9, <1>10, <1>11 DEF ClientNext

\* The menu shows the session that the browser has (AuthProvider, logout and
\* the forms), unless an answer came late, a call failed, or the first-run
\* page signed somebody in.
THEOREM MenuKeepsToSession == Spec => []MenuShowsSession
<1>1. ClientInit => MenuShowsSession
  BY DEF ClientInit, MenuShowsSession
<1> QED
  BY <1>1, SessionStep, VisitIsItsPages, PTL DEF ClientSpec

-----------------------------------------------------------------------------
(* The public catalogue (module PublicCatalogue).                          *)

Shown == [of : Homes, status : HomeStatus] \cup {NoHome}

Details == [open : BOOLEAN, shown : Shown, busy : BOOLEAN, error : BOOLEAN]

Windows == [open : BOOLEAN, for : Homes \cup {None},
            step : {"FORM", "LOADING", "CONFIRMED", "ERROR"}, shown : Shown,
            busy : BOOLEAN, error : BOOLEAN, result : Homes \cup {None}]

Fetches == [by : {"detail", "window", "ignored"}, of : Homes, status : {"asked"} \cup HomeStatus]

PublicTypeOK ==
    /\ home \in [Homes -> HomeStatus]
    /\ detail \in Details
    /\ window \in Windows
    /\ fetches \subseteq Fetches
    /\ posts \in [Posts -> [of : Homes, step : {"sent", "served"}] \cup {NoPost}]
    /\ strayed \in BOOLEAN

\* One window covers the page: the button of a home closes its window.
OneWindow == ~(detail.open /\ window.open)

\* The spinner of the detail window cannot be closed: its one fetch finds the
\* window open, for the home it was opened for.
DetailOfItsHome ==
    /\ detail.open /\ detail.shown # NoHome => detail.shown.of = detailAsked
    /\ \A f \in fetches : f.by = "detail" => detail.open /\ detail.busy /\ f.of = detailAsked
    /\ \A f, g \in fetches : f.by = "detail" /\ g.by = "detail" => f = g

\* A fetch of the reservation window that is not given up is of its home.
WindowOfItsHome ==
    /\ window.open => window.for \in Homes
    /\ window.open /\ ~window.busy => window.shown.of = window.for \/ window.error
    /\ \A f \in fetches : f.by = "window" => window.open /\ f.of = window.for

\* As long as no window was closed on a reservation under way, there is one at
\* most, of the home of the window that awaits it.
PostOfItsWindow ==
    ~strayed =>
        /\ \A p \in Posts : posts[p] # NoPost =>
              window.open /\ window.step = "LOADING" /\ posts[p].of = window.for
        /\ \A p, q \in Posts : posts[p] # NoPost /\ posts[q] # NoPost => p = q
        /\ window.step = "CONFIRMED" => window.open /\ window.result = window.for

\* The inductive invariant.
PublicInv == PublicTypeOK /\ OneWindow /\ DetailOfItsHome /\ WindowOfItsHome /\ PostOfItsWindow

LEMMA OpensForItsHome ==
    ASSUME PublicInv, NEW h \in Homes, OpenWindow(h), ~window.open,
           UNCHANGED <<home, posts, detailAsked, strayed>>,
           \/ UNCHANGED detail /\ ~detail.open
           \/ detail' = [detail EXCEPT !.open = FALSE] /\ \A f \in fetches : f.by # "detail"
    PROVE  PublicInv'
<1> USE PublicCatalogueAssumption
    DEF PublicInv, PublicTypeOK, OneWindow, DetailOfItsHome, WindowOfItsHome, PostOfItsWindow,
        Shown, Details, Windows, Fetches, HomeStatus, NoHome, NoPost
<1>1. /\ window' = [window EXCEPT !.open = TRUE, !.for = h, !.busy = TRUE, !.error = FALSE]
      /\ fetches' = fetches \cup {[by |-> "window", of |-> h, status |-> "asked"]}
  BY DEF OpenWindow, Fetch
<1>2. /\ window'.open = TRUE /\ window'.for = h /\ window'.busy = TRUE
      /\ window'.step = window.step
      /\ window' \in Windows
  BY <1>1
<1>3. detail' \in Details /\ detail'.open = FALSE
  OBVIOUS
<1>4. /\ fetches' \subseteq Fetches
      /\ \A f \in fetches' : f \in fetches \/ (f.by = "window" /\ f.of = h)
  BY <1>1
<1>5. \A f \in fetches : f.by # "window" /\ f.by # "detail"
  OBVIOUS
<1>6. UNCHANGED <<home, posts, detailAsked, strayed>>
  OBVIOUS
<1> HIDE DEF Shown, Details, Windows, Fetches, HomeStatus, NoHome, NoPost
<1> QED BY <1>2, <1>3, <1>4, <1>5, <1>6

LEMMA PublicStep == PublicInv /\ [PublicNext]_publicVars => PublicInv'
<1> SUFFICES ASSUME PublicInv, [PublicNext]_publicVars
             PROVE  PublicInv'
  OBVIOUS
<1> USE PublicCatalogueAssumption
    DEF PublicInv, PublicTypeOK, OneWindow, DetailOfItsHome, WindowOfItsHome, PostOfItsWindow,
        Shown, Details, Windows, Fetches, HomeStatus, NoHome, NoPost
<1>1. CASE CloseDetail
  BY <1>1 DEF CloseDetail
<1>2. ASSUME NEW h \in Homes, OpenUnitDetail(h) PROVE PublicInv'
  <2> DEFINE asked == [by |-> "detail", of |-> h, status |-> "asked"]
  <2>1. /\ ~window.open /\ ~detail.open /\ detailAsked' = h
        /\ fetches' = fetches \cup {asked}
        /\ UNCHANGED <<home, window, posts, strayed>>
    BY <1>2 DEF OpenUnitDetail, Fetch, Uncovered
  <2>2. /\ detail' \in Details /\ detail'.open = TRUE /\ detail'.busy = TRUE
        /\ detail'.shown = NoHome
    BY <1>2 DEF OpenUnitDetail
  <2>3. asked \in Fetches /\ asked.by = "detail" /\ asked.of = h
    OBVIOUS
  <2>4. \A f \in fetches : f.by # "detail"
    BY <2>1
  <2> HIDE DEF asked, Shown, Details, Windows, Fetches, HomeStatus, NoHome, NoPost
  <2> QED BY <2>1, <2>2, <2>3, <2>4
<1>3. ASSUME NEW h \in Homes, ReserveFromGrid(h) PROVE PublicInv'
  <2>1. ~detail.open /\ ~window.open /\ OpenWindow(h)
        /\ UNCHANGED <<home, detail, posts, detailAsked, strayed>>
    BY <1>3 DEF ReserveFromGrid, Uncovered
  <2> QED BY <2>1, OpensForItsHome
<1>4. ASSUME NEW h \in Homes, HomeChanges(h) PROVE PublicInv'
  BY <1>4 DEF HomeChanges
<1>5. ASSUME NEW f \in fetches, ReadUnit(f) PROVE PublicInv'
  <2> DEFINE r == [f EXCEPT !.status = home[f.of]]
  <2>1. /\ fetches' = (fetches \ {f}) \cup {r}
        /\ UNCHANGED <<home, detail, window, posts, detailAsked, strayed>>
    BY <1>5 DEF ReadUnit
  <2>2. r \in Fetches /\ r.by = f.by /\ r.of = f.of
    OBVIOUS
  <2> HIDE DEF r, Shown, Details, Windows, Fetches, HomeStatus, NoHome, NoPost
  <2>3. PublicTypeOK' /\ OneWindow' /\ WindowOfItsHome' /\ PostOfItsWindow'
    BY <2>1, <2>2
  <2>4. DetailOfItsHome'
    BY <2>1, <2>2
  <2> QED BY <2>3, <2>4
<1>6. ASSUME NEW f \in fetches, ShowDetail(f) PROVE PublicInv'
  <2>1. /\ f.by = "detail" /\ fetches' = fetches \ {f}
        /\ UNCHANGED <<home, window, posts, detailAsked, strayed>>
    BY <1>6 DEF ShowDetail
  <2>2. detail' \in Details /\ detail'.open = detail.open /\ detail'.shown.of = f.of
    BY <1>6 DEF ShowDetail, Read
  <2>3. f.of = detailAsked /\ \A g \in fetches' : g.by # "detail"
    BY <2>1
  <2> HIDE DEF Shown, Details, Windows, Fetches, HomeStatus, NoHome, NoPost
  <2> QED BY <2>1, <2>2, <2>3
<1>7. ASSUME NEW f \in fetches, DetailFails(f) PROVE PublicInv'
  <2>1. /\ f.by = "detail" /\ fetches' = fetches \ {f}
        /\ UNCHANGED <<home, window, posts, detailAsked, strayed>>
    BY <1>7 DEF DetailFails, VisitErr
  <2>2. detail' \in Details /\ detail'.open = detail.open /\ detail'.shown = detail.shown
    BY <1>7 DEF DetailFails, VisitErr
  <2>3. \A g \in fetches' : g.by # "detail"
    BY <2>1
  <2> HIDE DEF Shown, Details, Windows, Fetches, HomeStatus, NoHome, NoPost
  <2> QED BY <2>1, <2>2, <2>3
<1>8. ASSUME NEW f \in fetches, ShowUnit(f) PROVE PublicInv'
  <2>1. /\ f.by = "window" /\ fetches' = fetches \ {f}
        /\ UNCHANGED <<home, detail, posts, detailAsked, strayed>>
    BY <1>8 DEF ShowUnit
  <2>2. /\ window' \in Windows /\ window'.open = window.open /\ window'.for = window.for
        /\ window'.shown.of = f.of /\ window'.step = window.step /\ window'.result = window.result
    BY <1>8 DEF ShowUnit, Read
  <2>3. f.of = window.for
    BY <2>1
  <2> HIDE DEF Shown, Details, Windows, Fetches, HomeStatus, NoHome, NoPost
  <2> QED BY <2>1, <2>2, <2>3
<1>9. ASSUME NEW f \in fetches, UnitFails(f) PROVE PublicInv'
  <2>1. /\ fetches' = fetches \ {f}
        /\ UNCHANGED <<home, detail, posts, detailAsked, strayed>>
    BY <1>9 DEF UnitFails, VisitErr
  <2>2. /\ window' \in Windows /\ window'.open = window.open /\ window'.for = window.for
        /\ window'.error /\ window'.step = window.step /\ window'.result = window.result
    BY <1>9 DEF UnitFails, VisitErr
  <2> HIDE DEF Shown, Details, Windows, Fetches, HomeStatus, NoHome, NoPost
  <2> QED BY <2>1, <2>2
<1>10. ASSUME NEW f \in fetches, DropAnswer(f) PROVE PublicInv'
  <2>1. /\ fetches' = fetches \ {f}
        /\ UNCHANGED <<home, detail, window, posts, detailAsked, strayed>>
    BY <1>10 DEF DropAnswer
  <2> HIDE DEF Shown, Details, Windows, Fetches, HomeStatus, NoHome, NoPost
  <2> QED BY <2>1
<1>11. CASE ReserveFromDetail
  <2>1. /\ detail.open /\ ~window.open /\ detail.shown.of \in Homes /\ OpenWindow(detail.shown.of)
        /\ detail' = [detail EXCEPT !.open = FALSE]
        /\ UNCHANGED <<home, posts, detailAsked, strayed>>
    BY <1>11 DEF ReserveFromDetail
  <2>2. \A f \in fetches : f.by # "detail"
    BY <1>11 DEF ReserveFromDetail
  <2> QED BY <2>1, <2>2, OpensForItsHome
<1>12. CASE CloseWindow
  <2> DEFINE Given(f) == IF f.by = "window" THEN [f EXCEPT !.by = "ignored"] ELSE f
  <2>1. /\ window'.open = FALSE /\ window'.step = "FORM"
        /\ window' \in Windows
    BY <1>12 DEF CloseWindow
  <2>2. \A f \in Fetches : /\ Given(f) \in Fetches /\ Given(f).by # "window"
                          /\ Given(f).by = "detail" => Given(f) = f
    OBVIOUS
  <2>3. /\ fetches' \subseteq Fetches
        /\ \A f \in fetches' : f.by # "window" /\ (f.by = "detail" => f \in fetches)
    <3>1. fetches' = {Given(f) : f \in fetches}
      BY <1>12 DEF CloseWindow
    <3> QED BY <2>2, <3>1
  <2>4. /\ UNCHANGED <<home, detail, posts, detailAsked>>
        /\ strayed' = (strayed \/ window.step = "LOADING")
    BY <1>12 DEF CloseWindow
  <2> QED BY <2>1, <2>3, <2>4
<1>13. CASE HandleSubmit
  BY <1>13 DEF HandleSubmit, FormOffers
<1>14. CASE BackToForm
  BY <1>14 DEF BackToForm
<1>15. ASSUME NEW p \in Posts, CreateReservation(p) PROVE PublicInv'
  BY <1>15 DEF CreateReservation
<1>16. ASSUME NEW p \in Posts, ReservationDone(p) PROVE PublicInv'
  <2>1. /\ window' = [window EXCEPT !.step = "CONFIRMED", !.result = posts[p].of]
        /\ posts' = [posts EXCEPT ![p] = NoPost] /\ posts[p].step = "served"
        /\ UNCHANGED <<home, detail, fetches, detailAsked, strayed>>
    BY <1>16 DEF ReservationDone
  <2>2. posts[p] # NoPost /\ posts[p].of \in Homes
    BY <2>1
  <2>3. /\ window'.step = "CONFIRMED" /\ window'.result = posts[p].of
        /\ window'.open = window.open /\ window'.for = window.for /\ window'.busy = window.busy
        /\ window'.shown = window.shown /\ window'.error = window.error
        /\ window' \in Windows
    BY <2>1, <2>2
  <2>4. /\ posts' \in [Posts -> [of : Homes, step : {"sent", "served"}] \cup {NoPost}]
        /\ posts'[p] = NoPost /\ \A q \in Posts \ {p} : posts'[q] = posts[q]
    BY <2>1
  <2>5. PostOfItsWindow'
    BY <2>1, <2>2, <2>3, <2>4
  <2> QED BY <2>1, <2>3, <2>4, <2>5
<1>17. ASSUME NEW p \in Posts, ReservationFails(p) PROVE PublicInv'
  <2>1. /\ window' = [window EXCEPT !.step = "ERROR"] /\ posts[p].step # "none"
        /\ posts' = [posts EXCEPT ![p] = NoPost]
        /\ UNCHANGED <<home, detail, fetches, detailAsked, strayed>>
    BY <1>17 DEF ReservationFails, VisitErr
  <2>2. /\ window'.step = "ERROR" /\ window' \in Windows
        /\ window'.open = window.open /\ window'.for = window.for /\ window'.busy = window.busy
        /\ window'.shown = window.shown /\ window'.error = window.error
    BY <2>1
  <2>3. /\ posts' \in [Posts -> [of : Homes, step : {"sent", "served"}] \cup {NoPost}]
        /\ posts[p] # NoPost /\ posts'[p] = NoPost /\ \A q \in Posts \ {p} : posts'[q] = posts[q]
    BY <2>1
  <2>4. PostOfItsWindow'
    BY <2>1, <2>2, <2>3
  <2> QED BY <2>1, <2>2, <2>3, <2>4
<1>18. CASE UNCHANGED publicVars
  BY <1>18 DEF publicVars
<1> QED
  BY <1>1, <1>2, <1>3, <1>4, <1>5, <1>6, <1>7, <1>8, <1>9, <1>10, <1>11, <1>12, <1>13,
     <1>14, <1>15, <1>16, <1>17, <1>18 DEF PublicNext

LEMMA PublicInvariant == Spec => []PublicInv
<1>1. PublicInit => PublicInv
  <2> SUFFICES ASSUME PublicInit PROVE PublicInv
    OBVIOUS
  <2>1. PublicTypeOK
    <3>1. detail \in Details /\ window \in Windows
      BY DEF PublicInit, Details, Windows, Shown, Closed3D, ClosedWindow
    <3> QED BY <3>1 DEF PublicInit, PublicTypeOK
  <2>2. \A p \in Posts : posts[p] = NoPost
    BY DEF PublicInit
  <2>3. ~detail.open /\ ~window.open /\ window.step = "FORM" /\ fetches = {}
    BY DEF PublicInit, Closed3D, ClosedWindow
  <2> QED
    BY <2>1, <2>2, <2>3
       DEF PublicInv, OneWindow, DetailOfItsHome, WindowOfItsHome, PostOfItsWindow
<1> QED
  BY <1>1, PublicStep, VisitIsItsPages, PTL DEF PublicSpec

\* The reservation window offers to reserve the home that it shows
\* (ReservationModal: the effect that fetches, its clean-up and handleSubmit),
\* unless that fetch failed.
THEOREM WindowReservesItsHome == Spec => []ReservesWhatItShows
<1>1. PublicInv => ReservesWhatItShows
  BY DEF PublicInv, WindowOfItsHome, ReservesWhatItShows, FormOffers
<1> QED
  BY <1>1, PublicInvariant, PTL

\* The detail window shows the home it was opened for, and a confirmation is of
\* the home of its window unless one was closed on a reservation under way.
THEOREM WindowsKeepToTheirHome == Spec => []WindowsAreOfTheirHome
<1>1. PublicInv => WindowsAreOfTheirHome
  BY DEF PublicInv, PublicTypeOK, DetailOfItsHome, PostOfItsWindow, WindowsAreOfTheirHome
<1> QED
  BY <1>1, PublicInvariant, PTL

-----------------------------------------------------------------------------
(* The buyer's reservations (module BuyerReservations).                    *)

\* A session that this visit has opened is the one of the payment that is not
\* over, or an error was shown for it; and a button is free only when no
\* payment is under way.
SessionsAccounted ==
    /\ opened \in Nat /\ payErrors \in Nat
    /\ payCall \in {"none", "sent", "opened", "kept"}
    /\ paying = None <=> payCall = "none"
    /\ opened <= payErrors + (IF payCall \in {"opened", "kept"} THEN 1 ELSE 0)

LEMMA SessionsStep == SessionsAccounted /\ [BookingNext]_bookingVars => SessionsAccounted'
<1> SUFFICES ASSUME SessionsAccounted, [BookingNext]_bookingVars
             PROVE  SessionsAccounted'
  OBVIOUS
<1> USE BookingsAssumption DEF SessionsAccounted
<1>1. CASE UNCHANGED payState
  BY <1>1 DEF payState
<1>2. ASSUME NEW r \in Bookings, Pay(r) PROVE SessionsAccounted'
  BY <1>2 DEF Pay
<1>3. CASE OpenSession
  BY <1>3 DEF OpenSession
<1>4. CASE LeaveOrReload
  BY <1>4 DEF LeaveOrReload, Mount
<1>5. CASE BackToKeptPage
  BY <1>5 DEF BackToKeptPage
<1>6. CASE PayFails
  BY <1>6 DEF PayFails
<1> HIDE DEF SessionsAccounted
<1>7. ASSUME RetryList \/ GetDashboard \/ ShowDashboards \/ ListFails
             \/ SayNo \/ ServeCancel \/ Cancelled \/ CancelFails
      PROVE  UNCHANGED payState
  BY <1>7 DEF RetryList, GetDashboard, ShowDashboards, ListFails, SayNo, ServeCancel, Cancelled,
              CancelFails
<1>8. ASSUME NEW r \in Bookings,
             \/ \E n \in {"last", "older"} : LoadSchedule(r, n)
             \/ RetryPlan(r) \/ AskConfirmation(r) \/ Cancel(r) \/ DepositPaid(r) \/ OthersDecide(r)
      PROVE  UNCHANGED payState
  BY <1>8 DEF LoadSchedule, GetPlan, ShowPlan, PlanFails, RetryPlan, AskConfirmation, Cancel,
              DepositPaid, OthersDecide
<1>9. ASSUME UNCHANGED bookingVars PROVE UNCHANGED payState
  BY <1>9 DEF bookingVars, payState
<1> QED
  BY <1>1, <1>2, <1>3, <1>4, <1>5, <1>6, <1>7, <1>8, <1>9 DEF BookingNext

\* Whatever the buyer clicks (handlePay, its button and the page kept by the
\* browser), a visit opens one Stripe session more than the errors it showed,
\* at most.
THEOREM OneSessionPerVisit == Spec => []OneSessionUnlessError
<1>1. BookingInit => SessionsAccounted
  BY DEF BookingInit, SessionsAccounted
<1>2. SessionsAccounted => OneSessionUnlessError
  BY DEF SessionsAccounted, OneSessionUnlessError
<1> QED
  BY <1>1, <1>2, SessionsStep, VisitIsItsPages, PTL DEF BookingSpec

-----------------------------------------------------------------------------
(* The reservations of the back office (module ReservationsPage).          *)

ContractSteps == {"none", "unsigned", "buyer", "both"}

SaleRows == UNION {[R -> ContractSteps] : R \in SUBSET Sales}

PageLoadRecords == [for : SaleViews, step : {"none", "asked", "read"}, rows : SaleRows,
                    after : PageCalls \cup {None}]

PageCallRecords == [op : {"none", "generate", "download", "cancel", "sign"},
                    of : Sales \cup {None}, view : SaleViews,
                    step : {"none", "sent", "served", "reload", "done"}]

SaleRecords ==
    [Sales -> [status : {"EN_ATTENTE", "CONFIRMEE", "ANNULEE"}, contract : ContractSteps]]

Dialogs == [kind : {"none", "cancel", "sign"}, of : Sales \cup {None}]

SaleTypeOK ==
    /\ sale \in SaleRecords
    /\ view \in SaleViews
    /\ loads \in [PageLoads -> PageLoadRecords]
    /\ calls \in [PageCalls -> PageCallRecords]
    /\ pending \in Dialogs

\* Unless something was mixed up, the load under way is for the view that is
\* selected: whichever it is, its answer shows that view.
LoadsOfView == ~mixed => \A l \in PageLoads : loads[l] # NoPageLoad => loads[l].for = view

SaleInv == SaleTypeOK /\ LoadsOfView /\ RowsAreOfView

LEMMA LoadRecords ==
    /\ NoPageLoad \in PageLoadRecords /\ NoPageLoad.for = "confirmee"
    /\ [NoPageLoad EXCEPT !.step = "asked"] \in PageLoadRecords
    /\ [NoPageLoad EXCEPT !.step = "asked"].for = "confirmee"
    /\ \A target \in SaleViews, k \in PageCalls \cup {None} :
          LET new == [NoPageLoad EXCEPT !.for = target, !.step = "asked", !.after = k]
          IN  new \in PageLoadRecords /\ new.for = target
<1>1. NoTable.rows \in SaleRows
  <2>1. NoTable.rows \in [{} -> ContractSteps] /\ {} \in SUBSET Sales
    BY DEF NoTable
  <2> QED BY <2>1 DEF SaleRows
<1> DEFINE rows == NoTable.rows
<1>2. NoPageLoad = [for |-> "confirmee", step |-> "none", rows |-> rows, after |-> None]
  BY DEF NoPageLoad
<1> HIDE DEF rows
<1> QED
  BY <1>1, <1>2 DEF PageLoadRecords, SaleViews, rows

\* What load() does to the table.
LEMMA LoadStep ==
    ASSUME SaleInv, NEW l \in PageLoads, NEW target \in SaleViews, NEW k \in PageCalls \cup {None},
           Load(l, target, k), view' \in SaleViews
    PROVE  loads' \in [PageLoads -> PageLoadRecords] /\ LoadsOfView' /\ RowsAreOfView'
<1>1. /\ loads' = [loads EXCEPT ![l] =
                     [NoPageLoad EXCEPT !.for = target, !.step = "asked", !.after = k]]
      /\ busy' = TRUE
      /\ mixed' = (target # view' \/ \E x \in PageLoads : loads[x] # NoPageLoad)
  BY DEF Load
<1> DEFINE new == [NoPageLoad EXCEPT !.for = target, !.step = "asked", !.after = k]
<1>2. new \in PageLoadRecords /\ new.for = target
  BY LoadRecords
<1>3. /\ loads' \in [PageLoads -> PageLoadRecords] /\ loads'[l].for = target
      /\ \A x \in PageLoads \ {l} : loads'[x] = loads[x]
  BY <1>1, <1>2 DEF SaleInv, SaleTypeOK
<1> QED
  BY <1>1, <1>3 DEF LoadsOfView, RowsAreOfView

\* What the end of a load does to it; the table is then that of the load.
LEMMA EndLoadStep ==
    ASSUME SaleInv, NEW l \in PageLoads, loads[l] # NoPageLoad, EndLoad(l), UNCHANGED view,
           mixed' \/ (mixed' = mixed /\ table'.for = loads[l].for)
    PROVE  /\ loads' \in [PageLoads -> PageLoadRecords]
           /\ calls' \in [PageCalls -> PageCallRecords]
           /\ LoadsOfView' /\ RowsAreOfView'
<1>1. loads' = [loads EXCEPT ![l] = NoPageLoad] /\ busy' = FALSE
  BY DEF EndLoad
<1>2. NoPageLoad \in PageLoadRecords
  BY LoadRecords
<1>3. calls' \in [PageCalls -> PageCallRecords]
  <2>1. loads[l].after \in PageCalls \cup {None}
    BY DEF SaleInv, SaleTypeOK, PageLoadRecords
  <2> QED BY <2>1 DEF EndLoad, SaleInv, SaleTypeOK, PageCallRecords
<1> QED
  BY <1>1, <1>2, <1>3 DEF SaleInv, SaleTypeOK, LoadsOfView, RowsAreOfView

LEMMA SaleStep == SaleInv /\ [SaleNext]_saleVars => SaleInv'
<1> SUFFICES ASSUME SaleInv, [SaleNext]_saleVars
             PROVE  SaleInv'
  OBVIOUS
<1> USE PageAssumption DEF SaleInv
<1>1. ASSUME NEW l \in PageLoads, SwitchView(l) PROVE SaleInv'
  BY <1>1, LoadStep DEF SwitchView, SaleTypeOK
<1>2. ASSUME NEW l \in PageLoads, RetryLoad(l) PROVE SaleInv'
  BY <1>2, LoadStep DEF RetryLoad, SaleTypeOK
<1>3. ASSUME NEW l \in PageLoads, ReadSales(l) PROVE SaleInv'
  <2> DEFINE listed == {r \in Sales : sale[r].status = StatusOf[loads[l].for]}
             rows == [r \in listed |-> sale[r].contract]
             read == [loads[l] EXCEPT !.step = "read", !.rows = rows]
  <2>1. rows \in SaleRows
    <3>1. listed \in SUBSET Sales
      OBVIOUS
    <3>2. \A r \in listed : sale[r].contract \in ContractSteps
      BY <3>1 DEF SaleTypeOK, SaleRecords
    <3> HIDE DEF listed
    <3>3. rows \in [listed -> ContractSteps]
      BY <3>2
    <3> QED BY <3>1, <3>3 DEF SaleRows
  <2>2. /\ loads[l].step = "asked" /\ loads' = [loads EXCEPT ![l] = read]
        /\ UNCHANGED <<sale, view, table, busy, mixed, calls, pending>>
    BY <1>3 DEF ReadSales, SaleTypeOK
  <2> HIDE DEF rows
  <2>3. read \in PageLoadRecords /\ read.for = loads[l].for
    BY <2>1 DEF SaleTypeOK, PageLoadRecords
  <2> HIDE DEF read
  <2>4. loads[l] # NoPageLoad
    BY <2>2 DEF NoPageLoad
  <2> QED BY <2>2, <2>3, <2>4 DEF SaleTypeOK, LoadsOfView, RowsAreOfView
<1>4. ASSUME NEW l \in PageLoads, ShowSales(l) PROVE SaleInv'
  <2>1. /\ loads[l].step = "read" /\ EndLoad(l) /\ table'.for = loads[l].for
        /\ UNCHANGED <<sale, view, mixed, pending>>
    BY <1>4 DEF ShowSales
  <2>2. loads[l] # NoPageLoad
    BY <2>1 DEF NoPageLoad
  <2> QED BY <2>1, <2>2, EndLoadStep DEF SaleTypeOK
<1>5. ASSUME NEW l \in PageLoads, LoadFails(l) PROVE SaleInv'
  BY <1>5, EndLoadStep DEF LoadFails, SaleTypeOK
<1>6. ASSUME NEW k \in PageCalls, NEW l \in PageLoads, CallAnswered(k, l) PROVE SaleInv'
  <2>1. /\ Load(l, calls[k].view, k) /\ UNCHANGED <<view, sale>>
        /\ calls' = [calls EXCEPT ![k].step = "reload"]
        /\ pending' \in {pending, NoDialog}
    BY <1>6 DEF CallAnswered
  <2>2. calls[k].view \in SaleViews
    BY DEF SaleTypeOK, PageCallRecords
  <2>3. calls' \in [PageCalls -> PageCallRecords]
    BY <2>1 DEF SaleTypeOK, PageCallRecords
  <2> QED BY <2>1, <2>2, <2>3, LoadStep DEF SaleTypeOK, NoDialog, Dialogs
<1>7. ASSUME RowNext PROVE SaleInv'
  <2>1. UNCHANGED tableState
    BY <1>7 DEF RowNext, RequestCancel, RequestSign, OthersActOnSale, Generate, Download,
                CloseRowDialog, RunCancel, RunSign
  <2> SUFFICES /\ calls' \in [PageCalls -> PageCallRecords]
               /\ pending' \in Dialogs
               /\ sale' \in SaleRecords
    BY <2>1 DEF tableState, SaleTypeOK, LoadsOfView, RowsAreOfView
  <2>2. pending \in Dialogs /\ NoDialog \in Dialogs /\ pending.of \in Sales \cup {None}
    BY DEF SaleTypeOK, Dialogs, NoDialog
  <2>3. \A k \in PageCalls, op \in {"generate", "download", "cancel", "sign"}, of \in Sales \cup {None} :
             Send(k, op, of) => calls' \in [PageCalls -> PageCallRecords]
    <3>1. \A op \in {"generate", "download", "cancel", "sign"}, of \in Sales \cup {None} :
             [op |-> op, of |-> of, view |-> view, step |-> "sent"] \in PageCallRecords
      BY DEF PageCallRecords, SaleTypeOK
    <3> QED BY <3>1 DEF Send, SaleTypeOK
  <2>4. ASSUME NEW r \in Sales,
               \/ RequestCancel(r) \/ RequestSign(r)
               \/ \E k \in PageCalls : Generate(k, r) \/ Download(k, r)
        PROVE  /\ calls' \in [PageCalls -> PageCallRecords] /\ pending' \in Dialogs
               /\ UNCHANGED sale
    <3>1. CASE RequestCancel(r) \/ RequestSign(r)
      BY <3>1 DEF RequestCancel, RequestSign, SaleTypeOK, Dialogs
    <3>2. CASE \E k \in PageCalls : Generate(k, r) \/ Download(k, r)
      BY <3>2, <2>2, <2>3 DEF Generate, Download
    <3> QED BY <2>4, <3>1, <3>2
  <2>5. ASSUME NEW r \in Sales, OthersActOnSale(r)
        PROVE  sale' \in SaleRecords /\ UNCHANGED <<calls, pending>>
    <3>1. CASE \E s \in {"CONFIRMEE", "ANNULEE"} : sale' = [sale EXCEPT ![r].status = s]
      BY <2>5, <3>1 DEF OthersActOnSale, SaleTypeOK, SaleRecords
    <3>2. CASE sale' = [sale EXCEPT ![r].contract = "buyer"]
      BY <2>5, <3>2 DEF OthersActOnSale, SaleTypeOK, SaleRecords, ContractSteps
    <3> QED BY <2>5, <3>1, <3>2 DEF OthersActOnSale
  <2>6. ASSUME CloseRowDialog \/ \E k \in PageCalls : RunCancel(k) \/ RunSign(k)
        PROVE  /\ calls' \in [PageCalls -> PageCallRecords] /\ pending' \in Dialogs
               /\ UNCHANGED sale
    BY <2>6, <2>2, <2>3 DEF CloseRowDialog, RunCancel, RunSign, SaleTypeOK
  <2> QED
    BY <1>7, <2>4, <2>5, <2>6 DEF RowNext, SaleTypeOK
<1>8. ASSUME NEW k \in PageCalls, ServeCall(k) \/ Downloaded(k) \/ CallFails(k)
      PROVE  SaleInv'
  <2>1. UNCHANGED <<tableState, pending>> /\ calls' \in [PageCalls -> PageCallRecords]
    BY <1>8 DEF ServeCall, Downloaded, CallFails, SaleTypeOK, PageCallRecords
  <2>2. sale' \in SaleRecords
    BY <1>8 DEF ServeCall, Effect, Downloaded, CallFails, SaleTypeOK, SaleRecords, ContractSteps
  <2> QED BY <2>1, <2>2 DEF tableState, SaleTypeOK, LoadsOfView, RowsAreOfView
<1>9. CASE UNCHANGED saleVars
  BY <1>9 DEF saleVars, SaleTypeOK, LoadsOfView, RowsAreOfView
<1> QED
  BY <1>1, <1>2, <1>3, <1>4, <1>5, <1>6, <1>7, <1>8, <1>9 DEF SaleNext

\* The table shows the view that is selected (switchView, load and the actions
\* that call it), unless a load failed, crossed another or was for a view left.
THEOREM TableIsOfItsView == Spec => []RowsAreOfView
<1>1. SaleInit => SaleInv
  <2> SUFFICES ASSUME SaleInit PROVE SaleInv
    OBVIOUS
  <2>1. /\ NoPageLoad \in PageLoadRecords /\ NoPageCall \in PageCallRecords
        /\ [NoPageLoad EXCEPT !.step = "asked"] \in PageLoadRecords
        /\ [NoPageLoad EXCEPT !.step = "asked"].for = "confirmee"
    BY LoadRecords DEF NoPageCall, PageCallRecords, SaleViews
  <2>2. /\ loads \in [PageLoads -> PageLoadRecords] /\ calls \in [PageCalls -> PageCallRecords]
        /\ \A l \in PageLoads : loads[l] # NoPageLoad => loads[l].for = view
    BY <2>1 DEF SaleInit
  <2> QED
    BY <2>2 DEF SaleInit, SaleInv, SaleTypeOK, LoadsOfView, RowsAreOfView, NoDialog, Dialogs,
       SaleRecords,
                SaleViews, ContractSteps
<1>2. SaleInv => RowsAreOfView
  BY DEF SaleInv
<1> QED
  BY <1>1, <1>2, SaleStep, VisitIsItsPages, PTL DEF SaleSpec

-----------------------------------------------------------------------------
(* The identity files (module KycDesk).                                    *)

ClientFiles == [Clients -> [status : {"EN_ATTENTE", "VALIDE", "REJETE"}, batch : Nat,
                            rejected : BOOLEAN]]

FileDialogs == [of : Clients, batch : Nat] \cup {NoFile}

Decisions == [op : {"approve", "reject"}, of : Clients, batch : Nat,
              step : {"sent", "served", "reload"}] \cup {NoDecision}

KycDeskTypeOK ==
    /\ file \in ClientFiles
    /\ entries \in ClientFiles \cup {NoEntries}
    /\ fileLoad \in [step : {"asked", "read"}, seen : ClientFiles \cup {NoEntries}] \cup {NoFileLoad}
    /\ approving \in Clients \cup {None}
    /\ confirm \in FileDialogs /\ reject \in FileDialogs
    /\ rejecting \in BOOLEAN
    /\ decision \in Decisions

\* A dialog covers a list that is not being read, and its entry is still there
\* as it was when it opened.
Covers(d) ==
    d # NoFile => /\ fileLoad = NoFileLoad /\ approving = None
                  /\ d.of \in DOMAIN entries /\ entries[d.of].batch = d.batch

\* One dialog at a time; that of an approval closes when it is sent, that of a
\* rejection stays until it is answered.
OneDialog ==
    /\ Covers(confirm) /\ Covers(reject)
    /\ confirm # NoFile => reject = NoFile /\ decision = NoDecision
    /\ reject # NoFile => decision.op \in {"none", "reject"}

\* What a decision under way holds: its flag, its dialog, and the list that it
\* awaits at the end, when it has succeeded.
DecisionHolds ==
    /\ decision.op = "approve" => approving # None
    /\ decision.op = "reject" /\ decision.step # "reload" => reject # NoFile /\ rejecting
    /\ decision.step = "reload" => fileLoad # NoFileLoad
    /\ decision.step = "reload" /\ decision.op = "approve" => approved # {}
    /\ decision.step = "reload" /\ decision.op = "reject" => anyRejected

\* The inductive invariant.
KycDeskInv == KycDeskTypeOK /\ OneDialog /\ DecisionHolds /\ StuckAfterSuccessOnly

LEMMA KycDeskStep == KycDeskInv /\ [KycDeskNext]_kycDeskVars => KycDeskInv'
<1> SUFFICES ASSUME KycDeskInv, [KycDeskNext]_kycDeskVars
             PROVE  KycDeskInv'
  OBVIOUS
<1> USE KycDeskAssumption
    DEF KycDeskInv, KycDeskTypeOK, OneDialog, Covers, DecisionHolds, StuckAfterSuccessOnly,
        ClientFiles, FileDialogs, Decisions, NoFile, NoDecision, NoFileLoad, AskFiles
<1>1. CASE ReadFiles
  BY <1>1 DEF ReadFiles, dialogs, decided
<1>2. CASE ShowFiles
  BY <1>2 DEF ShowFiles, EndDecision, dialogs, decided
<1>3. CASE FilesFail
  BY <1>3 DEF FilesFail, EndDecision, dialogs, decided
<1>4. CASE ReloadFiles
  BY <1>4 DEF ReloadFiles, dialogs, decided
<1>5. CASE DocumentViewed
  BY <1>5 DEF DocumentViewed, fileState, dialogs, decided
<1>6. ASSUME NEW c \in Clients, ViewDocument(c) PROVE KycDeskInv'
  BY <1>6 DEF ViewDocument, fileState, dialogs, decided
<1>7. ASSUME NEW c \in Clients, AskApproval(c) PROVE KycDeskInv'
  <2>1. /\ confirm = NoFile /\ reject = NoFile /\ fileLoad = NoFileLoad /\ approving = None
        /\ c \in DOMAIN entries /\ confirm' = [of |-> c, batch |-> entries[c].batch]
    BY <1>7 DEF AskApproval, CanReview, TableShown
  <2>2. UNCHANGED <<file, entries, fileLoad, approving, reject, rejecting, decision, approved,
                    anyRejected>>
    BY <1>7 DEF AskApproval, fileState, decided
  <2>3. entries[c].batch \in Nat
    BY <2>1 DEF NoEntries
  <2>4. decision = NoDecision
    BY <2>1
  <2> QED BY <2>1, <2>2, <2>3, <2>4
<1>8. ASSUME NEW c \in Clients, AskRejection(c) PROVE KycDeskInv'
  <2>1. /\ confirm = NoFile /\ reject = NoFile /\ fileLoad = NoFileLoad /\ approving = None
        /\ c \in DOMAIN entries /\ reject' = [of |-> c, batch |-> entries[c].batch]
    BY <1>8 DEF AskRejection, CanReview, TableShown
  <2>2. UNCHANGED <<file, entries, fileLoad, approving, confirm, rejecting, decision, approved,
                    anyRejected>>
    BY <1>8 DEF AskRejection, fileState, decided
  <2>3. entries[c].batch \in Nat
    BY <2>1 DEF NoEntries
  <2>4. decision = NoDecision
    BY <2>1
  <2> QED BY <2>1, <2>2, <2>3, <2>4
<1>9. ASSUME NEW c \in Clients, SubmitBatch(c) PROVE KycDeskInv'
  BY <1>9 DEF SubmitBatch, fileState, dialogs, decided
<1>10. ASSUME NEW c \in Clients, OtherReview(c) PROVE KycDeskInv'
  BY <1>10 DEF OtherReview, fileState, dialogs, decided
<1>11. CASE CloseApproval
  BY <1>11 DEF CloseApproval, fileState, decided
<1>12. CASE HandleApprove
  BY <1>12 DEF HandleApprove, fileState, decided
<1>13. CASE ServeApproval
  BY <1>13 DEF ServeApproval, fileState, dialogs, decided
<1>14. CASE ApprovalDone
  <2>1. /\ decision.op = "approve" /\ decision.step = "served" /\ decision.of \in Clients
        /\ approved' = approved \cup {decision.of} /\ fileLoad' = AskFiles
        /\ UNCHANGED <<file, entries, approving, confirm, reject, rejecting, anyRejected>>
    BY <1>14 DEF ApprovalDone, dialogs
  <2>2. /\ decision'.op = "approve" /\ decision'.step = "reload" /\ decision' \in Decisions
    BY <1>14 DEF ApprovalDone
  <2>3. confirm = NoFile /\ reject = NoFile
    BY <2>1
  <2>4. approved' # {} /\ fileLoad' # NoFileLoad
    BY <2>1
  <2> QED BY <2>1, <2>2, <2>3, <2>4
<1>15. CASE ApprovalFails
  BY <1>15 DEF ApprovalFails, DecisionFails, fileState, dialogs, decided
<1>16. CASE CloseRejection
  BY <1>16 DEF CloseRejection, fileState, decided
<1>17. CASE HandleReject
  BY <1>17 DEF HandleReject, fileState, dialogs, decided
<1>18. CASE ServeRejection
  BY <1>18 DEF ServeRejection, fileState, dialogs, decided
<1>19. CASE RejectionDone
  BY <1>19 DEF RejectionDone
<1>20. CASE RejectionFails
  BY <1>20 DEF RejectionFails, DecisionFails, fileState, dialogs, decided
<1>21. CASE UNCHANGED kycDeskVars
  BY <1>21 DEF kycDeskVars
<1> HIDE DEF KycDeskInv
<1> QED
  BY <1>1, <1>2, <1>3, <1>4, <1>5, <1>6, <1>7, <1>8, <1>9, <1>10, <1>11, <1>12, <1>13, <1>14,
     <1>15, <1>16, <1>17, <1>18, <1>19, <1>20, <1>21 DEF KycDeskNext

LEMMA KycDeskInvariant == Spec => []KycDeskInv
<1>1. KycDeskInit => KycDeskInv
  <2> SUFFICES ASSUME KycDeskInit PROVE KycDeskInv
    OBVIOUS
  <2>1. KycDeskTypeOK
    BY KycDeskAssumption
       DEF KycDeskInit, KycDeskTypeOK, ClientFiles, FileDialogs, Decisions, AskFiles
  <2> QED
    BY <2>1 DEF KycDeskInit, KycDeskInv, OneDialog, Covers, DecisionHolds, StuckAfterSuccessOnly,
                NoDecision
<1> QED
  BY <1>1, KycDeskStep, VisitIsItsPages, PTL DEF KycDeskSpec

\* The buttons of the page come back after every decision (handleApprove and
\* handleReject, whose flags are put back in their catch only) but a successful
\* one.
THEOREM StuckBySuccessAlone == Spec => []StuckAfterSuccessOnly
<1>1. KycDeskInv => StuckAfterSuccessOnly
  BY DEF KycDeskInv
<1> QED
  BY <1>1, KycDeskInvariant, PTL

\* A decision is sent for the document whose entry its dialog was opened on,
\* though the handlers look it up again in the list.
THEOREM DecidesAsListed == Spec => DecidesOnWhatWasListed
<1> DEFINE AsListed ==
      \A d \in {confirm, reject} :
          d # NoFile /\ decision = NoDecision /\ decision'.of = d.of => decision'.batch = d.batch
<1>1. KycDeskInv /\ KycDeskInv' /\ [KycDeskNext]_kycDeskVars => [AsListed]_kycDeskVars
  <2> SUFFICES ASSUME KycDeskInv, KycDeskInv', KycDeskNext, NEW d \in {confirm, reject},
                      d # NoFile, decision = NoDecision, decision'.of = d.of
               PROVE  decision'.batch = d.batch
    OBVIOUS
  <2>1. d.of \in Clients /\ d.of # None
    BY KycDeskAssumption DEF KycDeskInv, KycDeskTypeOK, FileDialogs
  <2>2. decision' # NoDecision
    BY <2>1 DEF NoDecision
  <2>3. HandleApprove \/ HandleReject
    BY <2>2 DEF KycDeskNext, ReadFiles, ShowFiles, FilesFail, EndDecision, ReloadFiles,
       DocumentViewed, ViewDocument, AskApproval, AskRejection, SubmitBatch, OtherReview,
       CloseApproval, ServeApproval, ApprovalDone, ApprovalFails, CloseRejection, ServeRejection,
       RejectionDone, RejectionFails, NoDecision
  <2>4. CASE HandleApprove
    BY <2>4 DEF HandleApprove, KycDeskInv, OneDialog, Covers
  <2>5. CASE HandleReject
    <3>1. confirm = NoFile /\ reject # NoFile
      BY <2>5 DEF HandleReject, KycDeskInv, OneDialog
    <3>2. decision'.batch = entries[reject.of].batch
      BY <2>5 DEF HandleReject
    <3> QED BY <3>1, <3>2 DEF KycDeskInv, OneDialog, Covers
  <2> QED BY <2>3, <2>4, <2>5
<1> QED
  BY <1>1, KycDeskInvariant, VisitIsItsPages, PTL DEF KycDeskSpec, DecidesOnWhatWasListed

-----------------------------------------------------------------------------
(* The survey (module Survey).                                             *)

AnswerRecords ==
    [residence : SUBSET {"LOME", "AUTRE"}, blockers : SUBSET {"PRIX", "AUTRE"},
     reassurances : SUBSET {"AUTRE"}, intentBefore : 0 .. 2, topAtouts : 0 .. 3,
     others : SUBSET {"residence", "freins", "reassurances"}, mail : Mails, whatsapp : Numbers,
     consent : BOOLEAN]

SurveyTypeOK ==
    /\ phase \in {"intro", "form", "done"} /\ screen \in 1 .. 7
    /\ answers \in AnswerRecords
    /\ sending \in [step : {"none", "sent", "stored"}, payload : AnswerRecords]
    /\ blind \in 0 .. 2

\* Once the selling points were shown, the screen of the blind note is behind.
NoteIsBehind == blind # 0 => screen >= 5 /\ phase # "intro" /\ answers.intentBefore = blind

\* What the screens that are behind have checked still holds: an answer is
\* changed on its own screen only.
ScreensComplete ==
    /\ screen > 1 => answers.residence # {}
    /\ screen > 2 => answers.blockers # {}
    /\ screen > 3 => answers.reassurances # {}

\* What was sent is what the API asks for, but for the pattern of the address.
PayloadComplete ==
    sending.step # "none" =>
        LET p == sending.payload
        IN  /\ p.residence # {} /\ p.blockers # {} /\ p.reassurances # {}
            /\ p.others \subseteq AllowedKeys
            /\ p.mail # "wrong" /\ p.whatsapp # "wrong"
            /\ HasContact(p) => p.consent

\* The inductive invariant.
SurveyInv ==
    /\ SurveyTypeOK /\ NoteIsBehind /\ ScreensComplete /\ PayloadComplete
    /\ RefusedForMailOnly

LEMMA ScreenOfKey ==
    ASSUME screen \in 1 .. 7
    PROVE  /\ SurveySteps[screen] = "residence" <=> screen = 1
           /\ SurveySteps[screen] = "blockers" <=> screen = 2
           /\ SurveySteps[screen] = "reassurances" <=> screen = 3
           /\ SurveySteps[screen] = "intentBefore" <=> screen = 4
           /\ SurveySteps[screen] = "atouts" <=> screen = 5
           /\ SurveySteps[screen] = "topAtouts" <=> screen = 6
           /\ SurveySteps[screen] = "contact" <=> screen = 7
<1>1. /\ SurveySteps[1] = "residence" /\ SurveySteps[2] = "blockers"
      /\ SurveySteps[3] = "reassurances" /\ SurveySteps[4] = "intentBefore"
      /\ SurveySteps[5] = "atouts" /\ SurveySteps[6] = "topAtouts" /\ SurveySteps[7] = "contact"
  BY DEF SurveySteps
<1>2. screen \in {1, 2, 3, 4, 5, 6, 7}
  OBVIOUS
<1> QED BY <1>1, <1>2

\* An answer that is given on its screen undoes nothing behind it.
LEMMA AnswerStep ==
    ASSUME SurveyInv, answers' \in AnswerRecords,
           UNCHANGED <<phase, screen, sending, serverState, blind>>,
           blind # 0 => answers'.intentBefore = answers.intentBefore,
           screen > 1 => answers'.residence # {},
           screen > 2 => answers'.blockers # {},
           screen > 3 => answers'.reassurances # {}
    PROVE  SurveyInv'
BY DEF SurveyInv, SurveyTypeOK, NoteIsBehind, ScreensComplete, PayloadComplete, RefusedForMailOnly,
       serverState

\* buildSubmission, when every screen was passed.
LEMMA SubmissionComplete ==
    ASSUME SurveyInv, screen = 7, ContactComplete
    PROVE  /\ BuildSubmission \in AnswerRecords
           /\ BuildSubmission.residence # {} /\ BuildSubmission.blockers # {}
           /\ BuildSubmission.reassurances # {} /\ BuildSubmission.others \subseteq AllowedKeys
           /\ BuildSubmission.mail # "wrong" /\ BuildSubmission.whatsapp # "wrong"
           /\ HasContact(BuildSubmission) => BuildSubmission.consent
<1> DEFINE texts == {k \in answers.others \cap AllowedKeys :
                       /\ k = "freins" => "AUTRE" \in answers.blockers
                       /\ k = "reassurances" => "AUTRE" \in answers.reassurances}
           agreed == answers.consent /\ HasContact(answers)
<1>1. /\ texts \subseteq AllowedKeys /\ texts \in SUBSET {"residence", "freins", "reassurances"}
      /\ agreed \in BOOLEAN
      /\ answers \in AnswerRecords
      /\ HasContact(answers) => agreed
      /\ answers.mail # "wrong" /\ answers.whatsapp # "wrong"
  BY DEF SurveyInv, SurveyTypeOK, AnswerRecords, ContactComplete, HasContact
<1>2. BuildSubmission = [answers EXCEPT !.others = texts, !.consent = agreed]
  BY <1>1 DEF BuildSubmission, AnswerRecords
<1> HIDE DEF texts, agreed
<1>3. /\ BuildSubmission \in AnswerRecords
      /\ BuildSubmission.residence = answers.residence /\ BuildSubmission.blockers = answers.blockers
      /\ BuildSubmission.reassurances = answers.reassurances /\ BuildSubmission.mail = answers.mail
      /\ BuildSubmission.whatsapp = answers.whatsapp
      /\ BuildSubmission.others = texts /\ BuildSubmission.consent = agreed
  BY <1>1, <1>2 DEF AnswerRecords
<1> QED
  BY <1>1, <1>3 DEF SurveyInv, ScreensComplete, HasContact

LEMMA SurveyStep == SurveyInv /\ [SurveyNext]_surveyVars => SurveyInv'
<1> SUFFICES ASSUME SurveyInv, [SurveyNext]_surveyVars
             PROVE  SurveyInv'
  OBVIOUS
<1>0. /\ SurveyTypeOK /\ NoteIsBehind /\ ScreensComplete /\ PayloadComplete /\ RefusedForMailOnly
      /\ screen \in 1 .. 7 /\ answers \in AnswerRecords
  BY DEF SurveyInv, SurveyTypeOK
<1>1. CASE Start
  <2>1. blind = 0
    BY <1>0, <1>1 DEF Start, NoteIsBehind
  <2> QED
    BY <1>0, <1>1, <2>1 DEF Start, SurveyInv, SurveyTypeOK, NoteIsBehind, ScreensComplete,
                            PayloadComplete, RefusedForMailOnly, serverState
<1>2. CASE GoNext
  <2>1. /\ screen < 7 /\ screen' = screen + 1 /\ StepComplete
        /\ UNCHANGED <<phase, answers, sending, serverState>> /\ phase = "form"
        /\ blind' = IF screen = 4 /\ blind = 0 THEN answers.intentBefore ELSE blind
    BY <1>0, <1>2, ScreenOfKey DEF GoNext, SurveySteps
  <2>2. ScreensComplete'
    <3>1. DOMAIN Ticks = {"residence", "blockers", "reassurances"}
      BY DEF Ticks
    <3>2. screen \in {1, 2, 3} => answers[SurveySteps[screen]] # {}
      BY <1>0, <2>1, <3>1, ScreenOfKey DEF StepComplete
    <3>3. /\ screen = 1 => answers.residence # {}
          /\ screen = 2 => answers.blockers # {}
          /\ screen = 3 => answers.reassurances # {}
      BY <1>0, <3>2, ScreenOfKey
    <3>4. /\ screen' > 1 => screen = 1 \/ screen > 1
          /\ screen' > 2 => screen = 2 \/ screen > 2
          /\ screen' > 3 => screen = 3 \/ screen > 3
      BY <1>0, <2>1
    <3> QED BY <1>0, <2>1, <3>3, <3>4 DEF ScreensComplete
  <2>3. NoteIsBehind' /\ blind' \in 0 .. 2
    BY <1>0, <2>1 DEF NoteIsBehind, SurveyTypeOK, AnswerRecords
  <2> QED
    BY <1>0, <2>1, <2>2, <2>3 DEF SurveyInv, SurveyTypeOK, PayloadComplete, RefusedForMailOnly,
                                  serverState
<1>3. CASE GoBack
  <2>1. /\ screen > 1 /\ screen # 5 /\ screen' = screen - 1
        /\ UNCHANGED <<phase, answers, sending, serverState, blind>>
    BY <1>0, <1>3, ScreenOfKey DEF GoBack
  <2> QED
    BY <1>0, <2>1 DEF SurveyInv, SurveyTypeOK, NoteIsBehind, ScreensComplete, PayloadComplete,
                      RefusedForMailOnly, serverState
<1>4. CASE EditContact
  <2>1. screen = 7 /\ UNCHANGED <<phase, screen, sending, serverState, blind>>
    BY <1>0, <1>4, ScreenOfKey DEF EditContact, On, Answer
  <2>2. /\ answers' \in AnswerRecords /\ answers'.residence = answers.residence
        /\ answers'.blockers = answers.blockers /\ answers'.reassurances = answers.reassurances
        /\ answers'.intentBefore = answers.intentBefore
    <3>1. CASE \E mail \in Mails : Answer("mail", mail)
      BY <1>0, <3>1 DEF Answer, AnswerRecords
    <3>2. CASE \E number \in Numbers : Answer("whatsapp", number)
      BY <1>0, <3>2 DEF Answer, AnswerRecords
    <3>3. CASE Answer("consent", ~answers.consent)
      BY <1>0, <3>3 DEF Answer, AnswerRecords
    <3> QED BY <1>4, <3>1, <3>2, <3>3 DEF EditContact
  <2> QED BY <1>0, <2>1, <2>2, AnswerStep DEF ScreensComplete
<1>5. ASSUME NEW v \in Ticks.residence, Choose(v) PROVE SurveyInv'
  <2>1. screen = 1 /\ UNCHANGED <<phase, screen, sending, serverState, blind>>
    BY <1>0, <1>5, ScreenOfKey DEF Choose, On
  <2>2. answers' \in AnswerRecords /\ answers'.intentBefore = answers.intentBefore
    BY <1>0, <1>5 DEF Choose, Ticks, AnswerRecords
  <2> QED BY <2>1, <2>2, AnswerStep
<1>6. ASSUME NEW key \in {"blockers", "reassurances"}, NEW v \in Ticks[key], ToggleMulti(key, v)
      PROVE  SurveyInv'
  <2>1. CASE key = "blockers"
    <3>1. /\ screen = 2
          /\ UNCHANGED <<phase, screen, sending, serverState, blind>>
          /\ v \in {"PRIX", "AUTRE"}
      <4>1. SurveySteps[screen] = "blockers"
        BY <1>6, <2>1 DEF ToggleMulti, On
      <4>2. v \in {"PRIX", "AUTRE"}
        BY <1>6, <2>1 DEF Ticks
      <4> QED BY <1>0, <1>6, <4>1, <4>2, ScreenOfKey DEF ToggleMulti
    <3>2. /\ answers' \in AnswerRecords /\ answers'.intentBefore = answers.intentBefore
          /\ answers'.residence = answers.residence
      <4>1. CASE v \in answers.blockers
        <5> DEFINE ticks == answers.blockers \ {v}
                   others == IF v = "AUTRE" THEN answers.others \ {"freins"} ELSE answers.others
        <5>1. answers' = [answers EXCEPT !.blockers = ticks, !.others = others]
          BY <1>0, <1>6, <2>1, <4>1 DEF ToggleMulti, AnswerRecords
        <5>2. /\ ticks \in SUBSET {"PRIX", "AUTRE"}
              /\ others \in SUBSET {"residence", "freins", "reassurances"}
          BY <1>0 DEF AnswerRecords
        <5> HIDE DEF ticks, others
        <5> QED BY <1>0, <5>1, <5>2 DEF AnswerRecords
      <4>2. CASE v \notin answers.blockers
        <5>1. answers' = [answers EXCEPT !.blockers = answers.blockers \cup {v}]
          BY <1>0, <1>6, <2>1, <4>2 DEF ToggleMulti, AnswerRecords
        <5> QED BY <1>0, <3>1, <5>1 DEF AnswerRecords
      <4> QED BY <4>1, <4>2
    <3> QED BY <1>0, <3>1, <3>2, AnswerStep DEF ScreensComplete
  <2>2. CASE key = "reassurances"
    <3>1. screen = 3 /\ UNCHANGED <<phase, screen, sending, serverState, blind>> /\ v = "AUTRE"
      <4>1. SurveySteps[screen] = "reassurances"
        BY <1>6, <2>2 DEF ToggleMulti, On
      <4>2. v = "AUTRE"
        BY <1>6, <2>2 DEF Ticks
      <4> QED BY <1>0, <1>6, <4>1, <4>2, ScreenOfKey DEF ToggleMulti
    <3>2. /\ answers' \in AnswerRecords /\ answers'.intentBefore = answers.intentBefore
          /\ answers'.residence = answers.residence /\ answers'.blockers = answers.blockers
      <4>1. \/ answers' = [answers EXCEPT !.reassurances = answers.reassurances \ {v},
                                       !.others = answers.others]
            \/ answers' = [answers EXCEPT !.reassurances = answers.reassurances \cup {v}]
        BY <1>0, <1>6, <2>2 DEF ToggleMulti, AnswerRecords
      <4>2. CASE answers' = [answers EXCEPT !.reassurances = answers.reassurances \ {v},
                                            !.others = answers.others]
        <5> DEFINE ticks == answers.reassurances \ {v}
        <5>1. ticks \in SUBSET {"AUTRE"}
          BY <1>0 DEF AnswerRecords
        <5>2. answers' = [answers EXCEPT !.reassurances = ticks, !.others = answers.others]
          BY <4>2
        <5> HIDE DEF ticks
        <5> QED BY <1>0, <5>1, <5>2 DEF AnswerRecords
      <4>3. CASE answers' = [answers EXCEPT !.reassurances = answers.reassurances \cup {v}]
        BY <1>0, <3>1, <4>3 DEF AnswerRecords
      <4> QED BY <4>1, <4>2, <4>3
    <3> QED BY <1>0, <3>1, <3>2, AnswerStep DEF ScreensComplete
  <2> QED BY <2>1, <2>2
<1>7. ASSUME NEW key \in DOMAIN Ticks, TypeOther(key) PROVE SurveyInv'
  <2>1. OtherKey[key] \in {"residence", "freins", "reassurances"}
    BY DEF Ticks, OtherKey
  <2>2. PICK others \in SUBSET {"residence", "freins", "reassurances"} : Answer("others", others)
    BY <1>0, <1>7, <2>1 DEF TypeOther, AnswerRecords
  <2>3. /\ answers' \in AnswerRecords /\ answers'.residence = answers.residence
        /\ answers'.blockers = answers.blockers /\ answers'.reassurances = answers.reassurances
        /\ answers'.intentBefore = answers.intentBefore
    BY <1>0, <2>2 DEF Answer, AnswerRecords
  <2> QED BY <1>0, <2>2, <2>3, AnswerStep DEF Answer, ScreensComplete
<1>8. ASSUME NEW note \in Notes, SetIntent(note) PROVE SurveyInv'
  <2>1. screen = 4 /\ Answer("intentBefore", note) /\ blind = 0
    BY <1>0, <1>8, ScreenOfKey DEF SetIntent, On, NoteIsBehind
  <2>2. /\ answers' \in AnswerRecords /\ answers'.residence = answers.residence
        /\ answers'.blockers = answers.blockers /\ answers'.reassurances = answers.reassurances
    BY <1>0, <2>1 DEF Answer, AnswerRecords, Notes
  <2> QED BY <1>0, <2>1, <2>2, AnswerStep DEF Answer, ScreensComplete
<1>9. CASE ToggleTopAtouts
  <2>1. PICK n \in 0 .. 3 : Answer("topAtouts", n)
    BY <1>0, <1>9, SurveyAssumption DEF ToggleTopAtouts, AnswerRecords
  <2>2. /\ answers' \in AnswerRecords /\ answers'.residence = answers.residence
        /\ answers'.blockers = answers.blockers /\ answers'.reassurances = answers.reassurances
        /\ answers'.intentBefore = answers.intentBefore
    BY <1>0, <2>1 DEF Answer, AnswerRecords
  <2> QED BY <1>0, <2>1, <2>2, AnswerStep DEF Answer, ScreensComplete
<1>10. CASE Submit
  <2>1. /\ screen = 7 /\ ContactComplete
        /\ sending' = [step |-> "sent", payload |-> BuildSubmission]
        /\ UNCHANGED <<phase, screen, answers, serverState, blind>>
    BY <1>0, <1>10, ScreenOfKey DEF Submit, On
  <2>2. sending'.payload = BuildSubmission
        /\ sending' \in [step : {"none", "sent", "stored"}, payload : AnswerRecords]
    BY <2>1, SubmissionComplete
  <2>3. PayloadComplete'
    BY <2>1, <2>2, SubmissionComplete DEF PayloadComplete
  <2> QED
    BY <1>0, <2>1, <2>2, <2>3 DEF SurveyInv, SurveyTypeOK, NoteIsBehind, ScreensComplete,
                                  RefusedForMailOnly, serverState
<1>11. CASE Create
  <2>1. /\ sending.step = "sent" /\ sending' = [sending EXCEPT !.step = "stored"]
        /\ UNCHANGED <<phase, screen, answers, refused, blind>>
    BY <1>11 DEF Create
  <2>2. /\ sending' \in [step : {"none", "sent", "stored"}, payload : AnswerRecords]
        /\ sending'.payload = sending.payload
    BY <1>0, <2>1 DEF SurveyTypeOK
  <2> QED
    BY <1>0, <2>1, <2>2 DEF SurveyInv, SurveyTypeOK, NoteIsBehind, ScreensComplete,
                            PayloadComplete, RefusedForMailOnly
<1>12. ASSUME sending' = Unsent, UNCHANGED <<screen, answers, blind>>, phase' \in {phase, "done"},
              refused' \in {None, "loose"}
       PROVE  SurveyInv'
  <2>1. /\ sending'.step = "none"
        /\ sending' \in [step : {"none", "sent", "stored"}, payload : AnswerRecords]
    <3>1. InitialAnswers \in AnswerRecords
      BY DEF InitialAnswers, AnswerRecords, Mails, Numbers
    <3> QED BY <1>12, <3>1 DEF Unsent
  <2> QED
    BY <1>0, <1>12, <2>1 DEF SurveyInv, SurveyTypeOK, NoteIsBehind, ScreensComplete,
                             PayloadComplete, RefusedForMailOnly
<1>13. CASE Refuse
  <2>1. /\ sending.step = "sent" /\ ~Accepted(sending.payload) /\ refused' = sending.payload.mail
        /\ sending' = Unsent /\ UNCHANGED <<phase, screen, answers, blind>>
    BY <1>13 DEF Refuse
  <2>2. sending.payload \in AnswerRecords
    BY <1>0 DEF SurveyTypeOK
  <2>3. /\ \A key \in DOMAIN Ticks : sending.payload[key] # {}
        /\ sending.payload.others \subseteq AllowedKeys
        /\ HasContact(sending.payload) => sending.payload.consent
        /\ sending.payload.mail # "wrong" /\ sending.payload.whatsapp # "wrong"
    BY <1>0, <2>1 DEF PayloadComplete, Ticks
  <2>4. sending.payload.intentBefore \in 0 .. 5 /\ sending.payload.topAtouts <= 3
    BY <2>2 DEF AnswerRecords
  <2>5. sending.payload.mail = "loose"
    <3>1. sending.payload.mail \notin {"none", "valid"}
      BY <2>1, <2>3, <2>4 DEF Accepted
    <3>2. sending.payload.mail \in Mails
      BY <2>2 DEF AnswerRecords
    <3> QED BY <2>3, <3>1, <3>2 DEF Mails
  <2> QED BY <1>12, <2>1, <2>5
<1>14. CASE Thank
  BY <1>0, <1>12, <1>14 DEF Thank, serverState, RefusedForMailOnly
<1>15. CASE SendFails
  BY <1>0, <1>12, <1>15 DEF SendFails, serverState, RefusedForMailOnly
<1>16. CASE UNCHANGED surveyVars
  BY <1>0, <1>16 DEF surveyVars, SurveyInv, SurveyTypeOK, NoteIsBehind, ScreensComplete,
                     PayloadComplete, RefusedForMailOnly
<1> QED
  BY <1>1, <1>2, <1>3, <1>4, <1>5, <1>6, <1>7, <1>8, <1>9, <1>10, <1>11, <1>13, <1>14, <1>15, <1>16
     DEF SurveyNext

LEMMA SurveyInvariant == Spec => []SurveyInv
<1>1. SurveyInit => SurveyInv
  <2> SUFFICES ASSUME SurveyInit PROVE SurveyInv
    OBVIOUS
  <2>1. InitialAnswers \in AnswerRecords
    BY DEF InitialAnswers, AnswerRecords, Mails, Numbers
  <2> QED
    BY <2>1 DEF SurveyInit, SurveyInv, SurveyTypeOK, NoteIsBehind, ScreensComplete,
                PayloadComplete, RefusedForMailOnly, Unsent
<1> QED
  BY <1>1, SurveyStep, VisitIsItsPages, PTL DEF SurveySpec

\* The note given blind is kept: the way back stops at the selling points
\* (canGoBack and goBack).
THEOREM BlindNoteIsKept == Spec => []BlindNoteStays
<1>1. SurveyInv => BlindNoteStays
  BY DEF SurveyInv, NoteIsBehind, BlindNoteStays
<1> QED
  BY <1>1, SurveyInvariant, PTL

\* Answers that passed every screen (isStepComplete, contactError and
\* buildSubmission) are refused by CreateSurveyDto for the address alone.
THEOREM ScreensCheckWhatApiAsks == Spec => []RefusedForMailOnly
<1>1. SurveyInv => RefusedForMailOnly
  BY DEF SurveyInv
<1> QED
  BY <1>1, SurveyInvariant, PTL

-----------------------------------------------------------------------------
(* The buyer's documents (module BuyerDocuments).                          *)

SignatureSends == [of : Contracts, drawing : Contracts,
                   step : {"blob", "sent", "signed", "done"}] \cup {NoSend}

DocumentTypeOK ==
    /\ contract \in Rows
    /\ signing \in Contracts \cup {None}
    /\ sends \in [Sends -> SignatureSends]

\* The pad is emptied with its dialog, and an image keeps the contract that it
\* was drawn under.
DrawnUnderItsContract ==
    /\ ink \in {None, signing}
    /\ \A s \in Sends : sends[s].drawing = sends[s].of

SignatureInv == DocumentTypeOK /\ DrawnUnderItsContract /\ SignsWhatWasDrawn

\* As long as no upload has ended with an error, a dossier under review is
\* shown as such, or the form is hidden by what is read or by an error.
ReviewIsShown ==
    identity = "EN_ATTENTE" /\ ~uncertain =>
        /\ upload # "sent"
        /\ upload = "reload" => kycLoad \in {"asked", "EN_ATTENTE"}
        /\ upload = "none" => kycLoad = None /\ (kycError \/ kyc = "EN_ATTENTE")

LEMMA SignatureStep == SignatureInv /\ [DocumentNext]_documentVars => SignatureInv'
<1> SUFFICES ASSUME SignatureInv, [DocumentNext]_documentVars
             PROVE  SignatureInv'
  OBVIOUS
<1> USE ContractsAssumption
    DEF SignatureInv, DocumentTypeOK, DrawnUnderItsContract, SignsWhatWasDrawn, Rows,
        SignatureSends, NoSend
<1>1. ASSUME NEW d \in Contracts, OpenDialog(d) PROVE SignatureInv'
  BY <1>1 DEF OpenDialog, documentRows
<1>2. ASSUME NEW d \in Contracts, ReservationCancelled(d) PROVE SignatureInv'
  BY <1>2 DEF ReservationCancelled, dialog
<1>3. CASE Draw
  BY <1>3 DEF Draw, documentRows
<1>4. CASE Clear
  BY <1>4 DEF Clear, documentRows
<1>5. CASE CloseDialog
  BY <1>5 DEF CloseDialog, documentRows
<1>6. ASSUME NEW s \in Sends, Confirm(s) PROVE SignatureInv'
  <2>1. ink = signing /\ signing \in Contracts
    BY <1>6 DEF Confirm
  <2> QED BY <1>6, <2>1 DEF Confirm, documentRows, dialog
<1>7. ASSUME NEW s \in Sends, SendSignature(s) PROVE SignatureInv'
  BY <1>7 DEF SendSignature, documentRows, dialog
<1>8. ASSUME NEW s \in Sends, ServeSignature(s) PROVE SignatureInv'
  <2>1. sends[s].of \in Contracts /\ sends[s].drawing = sends[s].of
    BY <1>8 DEF ServeSignature
  <2>2. /\ contract' = [contract EXCEPT ![sends[s].of].drawing = sends[s].drawing]
        /\ sends' = [sends EXCEPT ![s].step = "signed"] /\ UNCHANGED <<signing, ink>>
    BY <1>8 DEF ServeSignature, dialog
  <2>3. contract' \in Rows /\ SignsWhatWasDrawn'
    BY <2>1, <2>2
  <2>4. sends' \in [Sends -> SignatureSends] /\ \A x \in Sends : sends'[x].drawing = sends'[x].of
    <3>1. sends[s] # NoSend
      BY <1>8 DEF ServeSignature
    <3> QED BY <2>2, <3>1
  <2> QED BY <2>2, <2>3, <2>4
<1>9. ASSUME NEW s \in Sends, Signed(s) PROVE SignatureInv'
  BY <1>9 DEF Signed, documentRows
<1>10. ASSUME NEW s \in Sends, SignatureFails(s) PROVE SignatureInv'
  BY <1>10 DEF SignatureFails, documentRows, dialog
<1>11. CASE UNCHANGED <<contract, signing, ink, sends>>
  BY <1>11
<1> HIDE DEF SignatureInv
<1>12. ASSUME \/ RetryDocuments \/ IdentityNext \/ UNCHANGED documentVars
              \/ \E n \in {"last", "older"} : ListDocuments(n) \/ ShowDocuments(n) \/ DocumentsFail(n)
       PROVE  UNCHANGED <<contract, signing, ink, sends>>
  BY <1>12 DEF RetryDocuments, ListDocuments, ShowDocuments, DocumentsFail, IdentityNext, GetKyc,
     ShowKyc, KycFails, FillForm, Transmit, ServeUpload, Uploaded, UploadFails, Reviewed,
     documentRows, dialog, documentVars
<1> QED
  BY <1>1, <1>2, <1>3, <1>4, <1>5, <1>6, <1>7, <1>8, <1>9, <1>10, <1>11, <1>12
     DEF DocumentNext, SignNext

\* A contract carries the drawing made under it (SignaturePad, onConfirm and
\* handleConfirmSignature), whatever dialogs are closed and opened meanwhile.
THEOREM ContractCarriesItsDrawing == Spec => []SignsWhatWasDrawn
<1>1. DocumentInit => SignatureInv
  BY DEF DocumentInit, SignatureInv, DocumentTypeOK, DrawnUnderItsContract, SignsWhatWasDrawn,
         Rows, SignatureSends, NoSend
<1>2. SignatureInv => SignsWhatWasDrawn
  BY DEF SignatureInv
<1> QED
  BY <1>1, <1>2, SignatureStep, VisitIsItsPages, PTL DEF DocumentSpec

LEMMA ReviewStep == ReviewIsShown /\ [DocumentNext]_documentVars => ReviewIsShown'
<1> SUFFICES ASSUME ReviewIsShown, [DocumentNext]_documentVars
             PROVE  ReviewIsShown'
  OBVIOUS
<1> USE NullAssumption DEF ReviewIsShown, Identities
<1>1. CASE GetKyc
  BY <1>1 DEF GetKyc, documentRows
<1>2. CASE ShowKyc
  BY <1>2 DEF ShowKyc, EndUpload, documentRows
<1>3. CASE KycFails
  BY <1>3 DEF KycFails, EndUpload, documentRows
<1>4. CASE Transmit
  BY <1>4 DEF Transmit, FormOpen, FormShown, documentRows
<1>5. CASE ServeUpload
  BY <1>5 DEF ServeUpload
<1>6. CASE Uploaded
  BY <1>6 DEF Uploaded, documentRows
<1>7. CASE UploadFails
  BY <1>7 DEF UploadFails, documentRows
<1>8. CASE Reviewed
  BY <1>8 DEF Reviewed
<1>9. CASE UNCHANGED <<identity, kyc, kycLoad, kycError, upload, uncertain>>
  BY <1>9
<1> HIDE DEF ReviewIsShown
<1>10. ASSUME \/ RetryDocuments \/ SignNext \/ FillForm \/ UNCHANGED documentVars
              \/ \E n \in {"last", "older"} : ListDocuments(n) \/ ShowDocuments(n) \/ DocumentsFail(n)
       PROVE  UNCHANGED <<identity, kyc, kycLoad, kycError, upload, uncertain>>
  BY <1>10 DEF RetryDocuments, ListDocuments, ShowDocuments, DocumentsFail, SignNext, OpenDialog,
     ReservationCancelled, Draw, Clear, CloseDialog, Confirm, SendSignature, ServeSignature, Signed,
     SignatureFails, FillForm, documentRows, kycState, documentVars
<1> QED
  BY <1>1, <1>2, <1>3, <1>4, <1>5, <1>6, <1>7, <1>8, <1>9, <1>10 DEF DocumentNext, IdentityNext

\* uploadKyc takes a dossier whatever its status was, without the 409 that
\* lib/api.ts:832-834 speaks of: the page sends another over one under review
\* only after an upload that ended with an error.
THEOREM ResubmitsUncertainOnly == Spec => ResubmitsAfterErrorOnly
<1>1. DocumentInit => ReviewIsShown
  BY DEF DocumentInit, ReviewIsShown
<1>2. ReviewIsShown => [ServeUpload /\ identity = "EN_ATTENTE" => uncertain]_documentVars
  BY DEF ReviewIsShown, ServeUpload
<1> QED
  BY <1>1, <1>2, ReviewStep, VisitIsItsPages, PTL DEF DocumentSpec, ResubmitsAfterErrorOnly

-----------------------------------------------------------------------------
(* The building site (module SiteFollowUp).                                *)

SiteCallRecords ==
    [op : SiteOps \cup {"idle", "done"},
     step : {"idle", "sent", "allowed", "open", "inserted", "copied", "created", "proposed",
             "read", "cut"},
     by : Artisans \cup {None}, of : Artisans \cup Assignments \cup Quotes \cup {None},
     yes : BOOLEAN]

SiteTypeOK ==
    /\ updates \in Seq(SiteCalls)
    /\ assignment \in [Assignments -> [by : Artisans \cup {None},
                                       status : {"NONE", "PROPOSEE", "ACCEPTEE", "ANNULEE"}]]
    /\ quote \in [Quotes -> {"NONE", "ENVOYE", "ACCEPTE", "REFUSE"}]
    /\ siteCall \in [SiteCalls -> SiteCallRecords]

\* What a request is about, and where one that died has stopped.
RequestOK(r) ==
    /\ r.op \in {"propose", "respond"} => r.of \in Assignments
    /\ r.op \in {"quote", "review"} => r.of \in Quotes
    /\ r.step = "cut" => r.op = "done"

\* The row that a request has read, and will update by its id, is undecided.
Undecided(r) ==
    /\ r.op = "respond" /\ r.step = "read" => assignment[r.of].status = "PROPOSEE"
    /\ r.op = "review" /\ r.step = "read" => quote[r.of] = "ENVOYE"

\* The inductive invariant.
SiteInv ==
    /\ SiteTypeOK
    /\ \A c \in SiteCalls : RequestOK(siteCall[c]) /\ (Undecided(siteCall[c]) \/ c \in overlapped)
    /\ BlockShowsLastUpdate

\* A step of requests that touches neither the block nor a decision: it keeps
\* the invariant if no copy that is awaited, or was cut, is forgotten, and what
\* it reads is undecided.
LEMMA QuietStep ==
    ASSUME SiteInv,
           UNCHANGED <<updates, progress, assignment, quote, lateCopies, overlapped>>,
           siteCall' \in [SiteCalls -> SiteCallRecords],
           \A c \in SiteCalls :
              \/ siteCall'[c] = siteCall[c]
              \/ /\ ~Serving(c, "publish", "inserted") /\ siteCall[c].step # "cut"
                 /\ RequestOK(siteCall'[c]) /\ Undecided(siteCall'[c])
    PROVE  SiteInv'
<1>1. SiteTypeOK'
  BY DEF SiteInv, SiteTypeOK
<1>2. \A r : Undecided(r) <=> Undecided(r)'
  BY DEF Undecided
<1>3. \A c \in SiteCalls : RequestOK(siteCall'[c]) /\ (Undecided(siteCall'[c]) \/ c \in overlapped)
  BY DEF SiteInv
<1>4. \A c \in SiteCalls : /\ Serving(c, "publish", "inserted") => Serving(c, "publish", "inserted")'
                           /\ siteCall[c].step = "cut" => siteCall'[c].step = "cut"
  BY DEF Serving
<1>5. updates # <<>> => Last(updates) \in SiteCalls
  BY DEF SiteInv, SiteTypeOK, Last
<1>6. BlockShowsLastUpdate'
  BY <1>4, <1>5 DEF SiteInv, BlockShowsLastUpdate, Serving
<1> QED BY <1>1, <1>2, <1>3, <1>6 DEF SiteInv, Undecided, RequestOK

\* A request that was sent, goes on to its next step, or has been answered.
LEMMA RequestSteps ==
    ASSUME SiteInv, NEW c \in SiteCalls
    PROVE  /\ \A op \in SiteOps, by \in Artisans \cup {None},
                 of \in Artisans \cup Assignments \cup Quotes \cup {None}, yes \in BOOLEAN :
                 LET r == [op |-> op, step |-> "sent", by |-> by, of |-> of, yes |-> yes]
                 IN  Calls(c, op, by, of, yes) =>
                        /\ siteCall' \in [SiteCalls -> SiteCallRecords]
                        /\ siteCall[c] = NoSiteCall /\ siteCall'[c] = r
                        /\ \A x \in SiteCalls \ {c} : siteCall'[x] = siteCall[x]
           /\ \A step \in {"allowed", "open", "inserted", "copied", "created", "proposed", "read"} :
                 Onward(c, step) =>
                        /\ siteCall' \in [SiteCalls -> SiteCallRecords]
                        /\ siteCall'[c].op = siteCall[c].op /\ siteCall'[c].of = siteCall[c].of
                        /\ siteCall'[c].step = step
                        /\ \A x \in SiteCalls \ {c} : siteCall'[x] = siteCall[x]
           /\ Answered(c) =>
                        /\ siteCall' \in [SiteCalls -> SiteCallRecords]
                        /\ siteCall'[c].op = "done" /\ siteCall'[c].step = "idle"
                        /\ \A x \in SiteCalls \ {c} : siteCall'[x] = siteCall[x]
<1>1. siteCall \in [SiteCalls -> SiteCallRecords]
  BY DEF SiteInv, SiteTypeOK
<1>2. ASSUME NEW op \in SiteOps, NEW by \in Artisans \cup {None},
             NEW of \in Artisans \cup Assignments \cup Quotes \cup {None}, NEW yes \in BOOLEAN,
             Calls(c, op, by, of, yes)
      PROVE  /\ siteCall' \in [SiteCalls -> SiteCallRecords] /\ siteCall[c] = NoSiteCall
             /\ siteCall'[c] = [op |-> op, step |-> "sent", by |-> by, of |-> of, yes |-> yes]
             /\ \A x \in SiteCalls \ {c} : siteCall'[x] = siteCall[x]
  <2>1. [op |-> op, step |-> "sent", by |-> by, of |-> of, yes |-> yes] \in SiteCallRecords
    BY DEF SiteCallRecords
  <2> QED BY <1>1, <1>2, <2>1 DEF Calls, IsFirst
<1>3. ASSUME NEW step \in {"allowed", "open", "inserted", "copied", "created", "proposed", "read"},
             Onward(c, step)
      PROVE  /\ siteCall' \in [SiteCalls -> SiteCallRecords]
             /\ siteCall'[c].op = siteCall[c].op /\ siteCall'[c].of = siteCall[c].of
             /\ siteCall'[c].step = step
             /\ \A x \in SiteCalls \ {c} : siteCall'[x] = siteCall[x]
  BY <1>1, <1>3 DEF Onward, SiteCallRecords
<1>4. ASSUME Answered(c)
      PROVE  /\ siteCall' \in [SiteCalls -> SiteCallRecords]
             /\ siteCall'[c].op = "done" /\ siteCall'[c].step = "idle"
             /\ \A x \in SiteCalls \ {c} : siteCall'[x] = siteCall[x]
  <2> DEFINE r == [NoSiteCall EXCEPT !.op = "done"]
  <2>1. NoSiteCall \in SiteCallRecords /\ NoSiteCall.step = "idle"
    BY DEF NoSiteCall, SiteCallRecords
  <2>2. r \in SiteCallRecords /\ r.op = "done" /\ r.step = "idle"
    BY <2>1 DEF SiteCallRecords
  <2>3. siteCall' = [siteCall EXCEPT ![c] = r]
    BY <1>4 DEF Answered
  <2> HIDE DEF r
  <2> QED BY <1>1, <2>2, <2>3
<1> QED BY <1>2, <1>3, <1>4

\* A row that another request decides is decided for those that had read it.
LEMMA DecisionStep ==
    ASSUME SiteInv, NEW c \in SiteCalls, NEW op \in {"respond", "review"},
           Serving(c, op, "read"), Decides(c, op),
           UNCHANGED <<updates, progress, lateCopies>>,
           assignment' \in [Assignments -> [by : Artisans \cup {None},
                                            status : {"NONE", "PROPOSEE", "ACCEPTEE", "ANNULEE"}]],
           quote' \in [Quotes -> {"NONE", "ENVOYE", "ACCEPTE", "REFUSE"}],
           \A s \in Assignments : assignment'[s] = assignment[s] \/ (op = "respond" /\ s = siteCall[c].of),
           \A d \in Quotes : quote'[d] = quote[d] \/ (op = "review" /\ d = siteCall[c].of)
    PROVE  SiteInv'
<1>1. /\ siteCall' \in [SiteCalls -> SiteCallRecords]
      /\ siteCall'[c].op = "done" /\ siteCall'[c].step = "idle"
      /\ \A x \in SiteCalls \ {c} : siteCall'[x] = siteCall[x]
      /\ overlapped' = (overlapped \ {c}) \cup
            {x \in SiteCalls \ {c} : Serving(x, op, "read") /\ siteCall[x].of = siteCall[c].of}
  BY RequestSteps DEF Decides
<1>2. SiteTypeOK'
  BY <1>1 DEF SiteInv, SiteTypeOK
<1>3. RequestOK(siteCall[c])' /\ Undecided(siteCall[c])'
  BY <1>1 DEF RequestOK, Undecided
<1>4. ASSUME NEW x \in SiteCalls \ {c} PROVE Undecided(siteCall[x])' \/ x \in overlapped'
  <2>1. /\ siteCall'[x] = siteCall[x]
        /\ RequestOK(siteCall[x])
        /\ (Undecided(siteCall[x]) \/ x \in overlapped)
    BY <1>1 DEF SiteInv
  <2>2. CASE x \in overlapped
    BY <1>1, <2>2
  <2>3. CASE Serving(x, op, "read") /\ siteCall[x].of = siteCall[c].of
    BY <1>1, <2>3
  <2>4. CASE Undecided(siteCall[x]) /\ ~(Serving(x, op, "read") /\ siteCall[x].of = siteCall[c].of)
    <3>1. siteCall[x].op = "respond" /\ siteCall[x].step = "read" =>
             assignment'[siteCall[x].of] = assignment[siteCall[x].of]
      BY <2>1, <2>4 DEF RequestOK, Serving
    <3>2. siteCall[x].op = "review" /\ siteCall[x].step = "read" =>
             quote'[siteCall[x].of] = quote[siteCall[x].of]
      BY <2>1, <2>4 DEF RequestOK, Serving
    <3> QED BY <2>1, <2>4, <3>1, <3>2 DEF Undecided
  <2> QED BY <2>1, <2>2, <2>3, <2>4
<1>5. \A x \in SiteCalls \ {c} : RequestOK(siteCall[x])'
  BY <1>1 DEF SiteInv, RequestOK
<1>6. BlockShowsLastUpdate'
  <2>1. updates # <<>> => Last(updates) \in SiteCalls
    BY DEF SiteInv, SiteTypeOK, Last
  <2>2. \A x \in SiteCalls : /\ Serving(x, "publish", "inserted") => Serving(x, "publish", "inserted")'
                             /\ siteCall[x].step = "cut" => siteCall'[x].step = "cut"
    BY <1>1 DEF Serving
  <2> QED BY <2>1, <2>2 DEF SiteInv, BlockShowsLastUpdate, Serving
<1> QED BY <1>2, <1>3, <1>4, <1>5, <1>6 DEF SiteInv

LEMMA SiteStep == SiteInv /\ [SiteNext]_siteVars => SiteInv'
<1> SUFFICES ASSUME SiteInv, [SiteNext]_siteVars
             PROVE  SiteInv'
  OBVIOUS
<1>0. /\ siteCall \in [SiteCalls -> SiteCallRecords]
      /\ \A c \in SiteCalls : RequestOK(siteCall[c])
  BY DEF SiteInv, SiteTypeOK
<1>1. ASSUME NEW c \in SiteCalls, AskSite(c) PROVE SiteInv'
  <2>1. PICK op \in SiteOps, by \in Artisans \cup {None},
             of \in Artisans \cup Assignments \cup Quotes \cup {None}, yes \in BOOLEAN :
          /\ Calls(c, op, by, of, yes)
          /\ op \in {"propose", "respond"} => of \in Assignments
          /\ op \in {"quote", "review"} => of \in Quotes
    BY <1>1 DEF AskSite, SiteOps
  <2> DEFINE r == [op |-> op, step |-> "sent", by |-> by, of |-> of, yes |-> yes]
  <2>2. /\ siteCall' \in [SiteCalls -> SiteCallRecords]
        /\ siteCall[c] = NoSiteCall /\ siteCall'[c] = r
        /\ \A x \in SiteCalls \ {c} : siteCall'[x] = siteCall[x]
    BY <2>1, RequestSteps
  <2>3. RequestOK(r) /\ Undecided(r)
    BY <2>1 DEF RequestOK, Undecided
  <2>4. ~Serving(c, "publish", "inserted") /\ siteCall[c].step # "cut"
    BY <2>2 DEF Serving, NoSiteCall
  <2>5. UNCHANGED <<updates, progress, assignment, quote, lateCopies, overlapped>>
    BY <2>1 DEF Calls, SiteRows
  <2> HIDE DEF r
  <2> QED BY <2>2, <2>3, <2>4, <2>5, QuietStep
<1>2. ASSUME NEW c \in SiteCalls,
             NEW step \in {"allowed", "open", "created", "proposed", "read"}, Onward(c, step),
             UNCHANGED <<updates, progress, assignment, quote, lateCopies, overlapped>>,
             siteCall[c].step \in {"sent", "allowed"},
             step = "read" => Undecided([siteCall[c] EXCEPT !.step = "read"])
      PROVE  SiteInv'
  <2>1. /\ siteCall' \in [SiteCalls -> SiteCallRecords]
        /\ siteCall'[c].op = siteCall[c].op /\ siteCall'[c].of = siteCall[c].of
        /\ siteCall'[c].step = step
        /\ \A x \in SiteCalls \ {c} : siteCall'[x] = siteCall[x]
    BY <1>2, RequestSteps
  <2>2. RequestOK(siteCall'[c])
    BY <1>0, <2>1 DEF RequestOK
  <2>3. Undecided(siteCall'[c])
    BY <1>0, <1>2, <2>1 DEF Undecided, SiteCallRecords
  <2>4. ~Serving(c, "publish", "inserted") /\ siteCall[c].step # "cut"
    BY <1>2 DEF Serving
  <2> QED BY <1>2, <2>1, <2>2, <2>3, <2>4, QuietStep
<1>3. ASSUME NEW c \in SiteCalls, MayPublish(c) \/ CheckSite(c) PROVE SiteInv'
  BY <1>2, <1>3 DEF MayPublish, CheckSite, Serving, SiteRows
<1>4. ASSUME NEW c \in SiteCalls, InsertUpdate(c) PROVE SiteInv'
  <2>1. /\ Serving(c, "publish", "open") /\ updates' = Append(updates, c)
        /\ UNCHANGED <<assignment, quote, overlapped>> /\ updates \in Seq(SiteCalls)
    BY <1>4 DEF InsertUpdate, SiteInv, SiteTypeOK
  <2>2. /\ siteCall' \in [SiteCalls -> SiteCallRecords]
        /\ siteCall'[c].op = "publish" /\ siteCall'[c].step = "inserted"
        /\ \A x \in SiteCalls \ {c} : siteCall'[x] = siteCall[x]
    BY <1>4, <2>1, RequestSteps DEF InsertUpdate, Serving
  <2>3. updates' \in Seq(SiteCalls) /\ Last(updates') = c
    BY <2>1 DEF Last
  <2>4. SiteTypeOK'
    BY <2>1, <2>2, <2>3 DEF SiteInv, SiteTypeOK
  <2>5. \A x \in SiteCalls : RequestOK(siteCall[x])' /\ (Undecided(siteCall[x])' \/ x \in overlapped')
    BY <2>1, <2>2 DEF SiteInv, RequestOK, Undecided
  <2>6. BlockShowsLastUpdate'
    BY <2>2, <2>3 DEF BlockShowsLastUpdate, Serving
  <2> QED BY <2>4, <2>5, <2>6 DEF SiteInv
<1>5. ASSUME NEW c \in SiteCalls, CopyToBlock(c) PROVE SiteInv'
  <2>1. /\ Serving(c, "publish", "inserted") /\ progress' = c
        /\ UNCHANGED <<updates, assignment, quote, overlapped>>
        /\ Last(updates) # c => c \in lateCopies'
    BY <1>5 DEF CopyToBlock
  <2>2. /\ siteCall' \in [SiteCalls -> SiteCallRecords]
        /\ siteCall'[c].op = "publish" /\ siteCall'[c].step = "copied"
        /\ \A x \in SiteCalls \ {c} : siteCall'[x] = siteCall[x]
    BY <1>5, <2>1, RequestSteps DEF CopyToBlock, Serving
  <2>3. SiteTypeOK'
    BY <2>1, <2>2 DEF SiteInv, SiteTypeOK
  <2>4. \A x \in SiteCalls : RequestOK(siteCall[x])' /\ (Undecided(siteCall[x])' \/ x \in overlapped')
    BY <2>1, <2>2 DEF SiteInv, RequestOK, Undecided
  <2>5. BlockShowsLastUpdate'
    BY <2>1 DEF BlockShowsLastUpdate
  <2> QED BY <2>3, <2>4, <2>5 DEF SiteInv
<1>6. ASSUME NEW c \in SiteCalls, Answered(c), ~Serving(c, "publish", "inserted"),
             siteCall[c].op # "done",
             UNCHANGED <<updates, progress, assignment, quote, lateCopies, overlapped>>
      PROVE  SiteInv'
  <2>1. /\ siteCall' \in [SiteCalls -> SiteCallRecords]
        /\ siteCall'[c].op = "done" /\ siteCall'[c].step = "idle"
        /\ \A x \in SiteCalls \ {c} : siteCall'[x] = siteCall[x]
    BY <1>6, RequestSteps
  <2>2. RequestOK(siteCall'[c]) /\ Undecided(siteCall'[c]) /\ siteCall[c].step # "cut"
    BY <1>0, <1>6, <2>1 DEF RequestOK, Undecided
  <2> QED BY <1>6, <2>1, <2>2, QuietStep
<1>7. ASSUME UNCHANGED <<updates, progress, assignment, quote, lateCopies, overlapped, siteCall>>
      PROVE  SiteInv'
  BY <1>0, <1>7, QuietStep
<1>8. ASSUME NEW c \in SiteCalls, NEW r, RecordNotice(c, r) \/ QueueNotice(c, r) PROVE SiteInv'
  <2>1. CASE UNCHANGED siteCall
    BY <1>7, <1>8, <2>1 DEF RecordNotice, QueueNotice
  <2>2. CASE Answered(c) /\ QueueNotice(c, r)
    BY <1>6, <2>2 DEF QueueNotice, Serving
  <2> QED BY <1>8, <2>1, <2>2 DEF RecordNotice, QueueNotice
<1>9. ASSUME NEW c \in SiteCalls, CreateArtisan(c) PROVE SiteInv'
  BY <1>2, <1>9 DEF CreateArtisan, Serving
<1>10. ASSUME NEW a \in Artisans, GiveAccess(a) PROVE SiteInv'
  <2> DEFINE done == [NoSiteCall EXCEPT !.op = "done"]
  <2>1. done \in SiteCallRecords /\ done.op = "done" /\ done.step = "idle"
    <3>1. NoSiteCall \in SiteCallRecords /\ NoSiteCall.step = "idle"
      BY DEF NoSiteCall, SiteCallRecords
    <3> QED BY <3>1 DEF SiteCallRecords
  <2>2. siteCall' = [c \in SiteCalls |-> IF siteCall[c].op = "create" /\ siteCall[c].of = a
                                          THEN done ELSE siteCall[c]]
    BY <1>10 DEF GiveAccess
  <2> HIDE DEF done
  <2>3. /\ siteCall' \in [SiteCalls -> SiteCallRecords]
        /\ \A c \in SiteCalls : siteCall'[c] = siteCall[c] \/ (siteCall[c].op = "create" /\ siteCall'[c] = done)
    BY <1>0, <2>1, <2>2
  <2>4. RequestOK(done) /\ Undecided(done)
    BY <2>1 DEF RequestOK, Undecided
  <2>5. \A c \in SiteCalls :
           siteCall[c].op = "create" => ~Serving(c, "publish", "inserted") /\ siteCall[c].step # "cut"
    BY <1>0 DEF Serving, RequestOK
  <2>6. UNCHANGED <<updates, progress, assignment, quote, lateCopies, overlapped>>
    BY <1>10 DEF GiveAccess
  <2> QED BY <2>3, <2>4, <2>5, <2>6, QuietStep
<1>11. ASSUME NEW c \in SiteCalls, ProposeAssignment(c) PROVE SiteInv'
  <2> DEFINE s == siteCall[c].of
  <2>1. /\ Serving(c, "propose", "sent") /\ assignment[s] = NoAssignment
        /\ assignment' = [assignment EXCEPT ![s] = [by |-> siteCall[c].by, status |-> "PROPOSEE"]]
        /\ UNCHANGED <<updates, progress, quote, lateCopies, overlapped>>
    BY <1>11 DEF ProposeAssignment
  <2>2. s \in Assignments /\ siteCall[c].by \in Artisans \cup {None}
    BY <1>0, <2>1 DEF RequestOK, Serving, SiteCallRecords
  <2> HIDE DEF s
  <2>3. /\ siteCall' \in [SiteCalls -> SiteCallRecords]
        /\ siteCall'[c].op = "propose" /\ siteCall'[c].of = siteCall[c].of
        /\ siteCall'[c].step = "proposed"
        /\ \A x \in SiteCalls \ {c} : siteCall'[x] = siteCall[x]
    BY <1>11, <2>1, RequestSteps DEF ProposeAssignment, Serving
  <2>4. SiteTypeOK' /\ assignment'[s].status = "PROPOSEE"
        /\ \A x \in Assignments \ {s} : assignment'[x] = assignment[x]
    BY <2>1, <2>2, <2>3 DEF SiteInv, SiteTypeOK
  <2>5. \A x \in SiteCalls : RequestOK(siteCall[x])' /\ (Undecided(siteCall[x])' \/ x \in overlapped')
    <3>1. RequestOK(siteCall[c])' /\ Undecided(siteCall[c])'
      BY <1>0, <2>1, <2>3 DEF RequestOK, Undecided, Serving
    <3>2. ASSUME NEW x \in SiteCalls \ {c}
          PROVE  RequestOK(siteCall[x])' /\ (Undecided(siteCall[x])' \/ x \in overlapped')
      <4>1. /\ siteCall'[x] = siteCall[x] /\ RequestOK(siteCall[x])
            /\ Undecided(siteCall[x]) \/ x \in overlapped'
        BY <2>1, <2>3 DEF SiteInv
      <4>2. Undecided(siteCall[x]) => Undecided(siteCall[x])'
        BY <2>1, <2>4, <4>1 DEF Undecided, RequestOK
      <4> QED BY <4>1, <4>2 DEF RequestOK
    <3> QED BY <3>1, <3>2
  <2>6. BlockShowsLastUpdate'
    <3>1. updates # <<>> => Last(updates) \in SiteCalls
      BY DEF SiteInv, SiteTypeOK, Last
    <3>2. \A x \in SiteCalls : /\ Serving(x, "publish", "inserted") => Serving(x, "publish", "inserted")'
                               /\ siteCall[x].step = "cut" => siteCall'[x].step = "cut"
      BY <2>1, <2>3 DEF Serving
    <3> QED BY <2>1, <3>1, <3>2 DEF SiteInv, BlockShowsLastUpdate, Serving
  <2> QED BY <2>4, <2>5, <2>6 DEF SiteInv
<1>12. ASSUME NEW c \in SiteCalls, SubmitQuote(c) PROVE SiteInv'
  <2> DEFINE d == siteCall[c].of
  <2>1. /\ Serving(c, "quote", "sent") /\ quote[d] = "NONE"
        /\ quote' = [quote EXCEPT ![d] = "ENVOYE"] /\ Answered(c)
        /\ UNCHANGED <<updates, progress, assignment, lateCopies, overlapped>>
    BY <1>12 DEF SubmitQuote
  <2>2. d \in Quotes
    BY <1>0, <2>1 DEF RequestOK, Serving
  <2> HIDE DEF d
  <2>3. /\ siteCall' \in [SiteCalls -> SiteCallRecords]
        /\ siteCall'[c].op = "done" /\ siteCall'[c].step = "idle"
        /\ \A x \in SiteCalls \ {c} : siteCall'[x] = siteCall[x]
    BY <2>1, RequestSteps
  <2>4. SiteTypeOK' /\ quote'[d] = "ENVOYE" /\ \A x \in Quotes \ {d} : quote'[x] = quote[x]
    BY <2>1, <2>2, <2>3 DEF SiteInv, SiteTypeOK
  <2>5. \A x \in SiteCalls : RequestOK(siteCall[x])' /\ (Undecided(siteCall[x])' \/ x \in overlapped')
    BY <1>0, <2>1, <2>3, <2>4 DEF SiteInv, RequestOK, Undecided
  <2>6. BlockShowsLastUpdate'
    <3>1. updates # <<>> => Last(updates) \in SiteCalls
      BY DEF SiteInv, SiteTypeOK, Last
    <3>2. \A x \in SiteCalls : /\ Serving(x, "publish", "inserted") => Serving(x, "publish", "inserted")'
                               /\ siteCall[x].step = "cut" => siteCall'[x].step = "cut"
      BY <2>1, <2>3 DEF Serving
    <3> QED BY <2>1, <3>1, <3>2 DEF SiteInv, BlockShowsLastUpdate, Serving
  <2> QED BY <2>4, <2>5, <2>6 DEF SiteInv
<1>13. ASSUME NEW c \in SiteCalls, ReadAssignment(c) PROVE SiteInv'
  <2>1. /\ Serving(c, "respond", "sent") /\ assignment[siteCall[c].of].status = "PROPOSEE"
        /\ Onward(c, "read")
        /\ UNCHANGED <<updates, progress, assignment, quote, lateCopies, overlapped>>
    BY <1>13 DEF ReadAssignment, SiteRows
  <2>2. Undecided([siteCall[c] EXCEPT !.step = "read"])
    BY <1>0, <2>1 DEF Undecided, Serving, SiteCallRecords
  <2> QED BY <1>2, <2>1, <2>2 DEF Serving
<1>14. ASSUME NEW c \in SiteCalls, ReadQuote(c) PROVE SiteInv'
  <2>1. /\ Serving(c, "review", "sent") /\ quote[siteCall[c].of] = "ENVOYE" /\ Onward(c, "read")
        /\ UNCHANGED <<updates, progress, assignment, quote, lateCopies, overlapped>>
    BY <1>14 DEF ReadQuote, SiteRows
  <2>2. Undecided([siteCall[c] EXCEPT !.step = "read"])
    BY <1>0, <2>1 DEF Undecided, Serving, SiteCallRecords
  <2> QED BY <1>2, <2>1, <2>2 DEF Serving
<1>15. ASSUME NEW c \in SiteCalls, DecideAssignment(c) PROVE SiteInv'
  <2>1. siteCall[c].of \in Assignments
    BY <1>0, <1>15 DEF DecideAssignment, Serving, RequestOK
  <2>2. /\ assignment' \in [Assignments -> [by : Artisans \cup {None},
                                            status : {"NONE", "PROPOSEE", "ACCEPTEE", "ANNULEE"}]]
        /\ \A s \in Assignments : assignment'[s] = assignment[s] \/ s = siteCall[c].of
    BY <1>15, <2>1 DEF DecideAssignment, SiteInv, SiteTypeOK
  <2>3. /\ UNCHANGED <<updates, progress, quote, lateCopies>>
        /\ quote \in [Quotes -> {"NONE", "ENVOYE", "ACCEPTE", "REFUSE"}]
    BY <1>15 DEF DecideAssignment, SiteInv, SiteTypeOK
  <2>4. Serving(c, "respond", "read") /\ Decides(c, "respond")
    BY <1>15 DEF DecideAssignment
  <2> QED BY <2>2, <2>3, <2>4, DecisionStep
<1>16. ASSUME NEW c \in SiteCalls, DecideQuote(c) PROVE SiteInv'
  <2>1. siteCall[c].of \in Quotes
    BY <1>0, <1>16 DEF DecideQuote, Serving, RequestOK
  <2>2. /\ quote' \in [Quotes -> {"NONE", "ENVOYE", "ACCEPTE", "REFUSE"}]
        /\ \A d \in Quotes : quote'[d] = quote[d] \/ d = siteCall[c].of
    BY <1>16, <2>1 DEF DecideQuote, SiteInv, SiteTypeOK
  <2>3. /\ UNCHANGED <<updates, progress, assignment, lateCopies>>
        /\ assignment \in [Assignments -> [by : Artisans \cup {None},
                                           status : {"NONE", "PROPOSEE", "ACCEPTEE", "ANNULEE"}]]
    BY <1>16 DEF DecideQuote, SiteInv, SiteTypeOK
  <2>4. Serving(c, "review", "read") /\ Decides(c, "review")
    BY <1>16 DEF DecideQuote
  <2> QED BY <2>2, <2>3, <2>4, DecisionStep
<1>17. ASSUME NEW c \in SiteCalls, SiteCallDies(c) PROVE SiteInv'
  <2> DEFINE at == IF Serving(c, "publish", "inserted") THEN "cut" ELSE "idle"
             over == [NoSiteCall EXCEPT !.op = "done", !.step = at]
  <2>1. over \in SiteCallRecords /\ over.op = "done" /\ over.step = at
    <3>1. NoSiteCall \in SiteCallRecords /\ at \in {"cut", "idle"}
      BY DEF NoSiteCall, SiteCallRecords
    <3> HIDE DEF at
    <3> QED BY <3>1 DEF SiteCallRecords
  <2>2. /\ siteCall' = [siteCall EXCEPT ![c] = over] /\ siteCall[c].op \in SiteOps
        /\ overlapped' = overlapped \ {c}
        /\ UNCHANGED <<updates, progress, assignment, quote, lateCopies>>
    BY <1>17 DEF SiteCallDies, SiteRows
  <2> HIDE DEF over
  <2>3. /\ siteCall' \in [SiteCalls -> SiteCallRecords] /\ siteCall'[c] = over
        /\ \A x \in SiteCalls \ {c} : siteCall'[x] = siteCall[x]
    BY <1>0, <2>1, <2>2
  <2>4. SiteTypeOK'
    BY <2>2, <2>3 DEF SiteInv, SiteTypeOK
  <2>5. \A x \in SiteCalls : RequestOK(siteCall[x])' /\ (Undecided(siteCall[x])' \/ x \in overlapped')
    BY <1>0, <2>1, <2>2, <2>3 DEF SiteInv, RequestOK, Undecided
  <2>6. BlockShowsLastUpdate'
    <3>1. updates # <<>> => Last(updates) \in SiteCalls
      BY DEF SiteInv, SiteTypeOK, Last
    <3>2. siteCall[c].step # "cut"
      BY <1>0, <2>2 DEF RequestOK, SiteOps
    <3>3. \A x \in SiteCalls :
             /\ Serving(x, "publish", "inserted") => Serving(x, "publish", "inserted")' \/ siteCall'[x].step = "cut"
             /\ siteCall[x].step = "cut" => siteCall'[x].step = "cut"
      BY <2>1, <2>3, <3>2 DEF Serving
    <3> QED BY <2>2, <3>1, <3>3 DEF SiteInv, BlockShowsLastUpdate, Serving
  <2> QED BY <2>4, <2>5, <2>6 DEF SiteInv
<1>18. CASE StartBuilding
  BY <1>7, <1>18 DEF StartBuilding
<1>19. CASE UNCHANGED siteVars
  BY <1>7, <1>19 DEF siteVars
<1> QED
  BY <1>1, <1>3, <1>4, <1>5, <1>8, <1>9, <1>10, <1>11, <1>12, <1>13, <1>14, <1>15, <1>16, <1>17,
     <1>18, <1>19 DEF SiteNext, ServeSite

LEMMA SiteInvariant == Spec => []SiteInv
<1>1. SiteInit => SiteInv
  <2> SUFFICES ASSUME SiteInit PROVE SiteInv
    OBVIOUS
  <2>1. NoSiteCall \in SiteCallRecords /\ NoSiteCall.op = "idle" /\ NoSiteCall.step = "idle"
    BY DEF NoSiteCall, SiteCallRecords
  <2>2. \A c \in SiteCalls : siteCall[c] = NoSiteCall
    BY DEF SiteInit
  <2>3. SiteTypeOK
    BY <2>1 DEF SiteInit, SiteTypeOK, NoAssignment
  <2> QED BY <2>1, <2>2, <2>3 DEF SiteInit, SiteInv, RequestOK, Undecided, BlockShowsLastUpdate
<1> QED
  BY <1>1, SiteStep, VisitIsItsPages, PTL DEF SiteSpec

\* "Le bloc reflète toujours son dernier avancement" (publishUpdate), except
\* while its copy is awaited or cut, or after a late copy of an older one.
THEOREM BlockFollowsItsUpdates == Spec => []BlockShowsLastUpdate
<1>1. SiteInv => BlockShowsLastUpdate
  BY DEF SiteInv
<1> QED
  BY <1>1, SiteInvariant, PTL

\* An artisan's answer and the review of a quote (respondToAssignment,
\* reviewQuote) are final but for a request that had read the row before.
THEOREM DecisionsAreFinal == Spec => DecidedAgainByOverlapOnly
<1> DEFINE Again == \/ \E s \in Assignments :
                          /\ assignment[s].status \in {"ACCEPTEE", "ANNULEE"}
                          /\ assignment'[s] # assignment[s]
                    \/ \E d \in Quotes : quote[d] \in {"ACCEPTE", "REFUSE"} /\ quote'[d] # quote[d]
           ByOverlap == \E c \in overlapped : siteCall'[c].op = "done" /\ siteCall[c].op \in SiteOps
<1>1. SiteInv /\ [SiteNext]_siteVars => [Again => ByOverlap]_siteVars
  <2> SUFFICES ASSUME SiteInv, SiteNext, Again
               PROVE  ByOverlap
    OBVIOUS
  <2>1. ~UNCHANGED <<assignment, quote>>
    OBVIOUS
  <2>2. PICK c \in SiteCalls : \/ ProposeAssignment(c) \/ SubmitQuote(c)
                               \/ DecideAssignment(c) \/ DecideQuote(c)
    BY <2>1 DEF SiteNext, ServeSite, AskSite, Calls, MayPublish, CheckSite, InsertUpdate,
       CopyToBlock, RecordNotice, QueueNotice, CreateArtisan, ReadAssignment, ReadQuote,
       SiteCallDies, GiveAccess, StartBuilding, SiteRows
  <2>3. RequestOK(siteCall[c]) /\ (Undecided(siteCall[c]) \/ c \in overlapped)
    BY DEF SiteInv
  <2>4. Answered(c) => siteCall'[c].op = "done"
    BY RequestSteps
  <2>5. CASE ProposeAssignment(c)
    <3>1. ~Again
      BY <2>5 DEF ProposeAssignment, NoAssignment, SiteInv, SiteTypeOK
    <3> QED BY <3>1
  <2>6. CASE SubmitQuote(c)
    <3>1. ~Again
      BY <2>6 DEF SubmitQuote, SiteInv, SiteTypeOK
    <3> QED BY <3>1
  <2>7. CASE DecideAssignment(c)
    <3>1. PICK s \in Assignments : /\ assignment[s].status \in {"ACCEPTEE", "ANNULEE"}
                                   /\ assignment'[s] # assignment[s]
      BY <2>7 DEF DecideAssignment
    <3>2. s = siteCall[c].of /\ siteCall[c].op = "respond" /\ siteCall[c].step = "read"
      BY <2>7, <3>1 DEF DecideAssignment, Serving, SiteInv, SiteTypeOK
    <3>3. c \in overlapped
      BY <2>3, <3>1, <3>2 DEF Undecided
    <3> QED BY <2>4, <2>7, <3>2, <3>3 DEF DecideAssignment, Decides, SiteOps
  <2>8. CASE DecideQuote(c)
    <3>1. PICK d \in Quotes : quote[d] \in {"ACCEPTE", "REFUSE"} /\ quote'[d] # quote[d]
      BY <2>8 DEF DecideQuote
    <3>2. d = siteCall[c].of /\ siteCall[c].op = "review" /\ siteCall[c].step = "read"
      BY <2>8, <3>1 DEF DecideQuote, Serving, SiteInv, SiteTypeOK
    <3>3. c \in overlapped
      BY <2>3, <3>1, <3>2 DEF Undecided
    <3> QED BY <2>4, <2>8, <3>2, <3>3 DEF DecideQuote, Decides, SiteOps
  <2> QED BY <2>2, <2>5, <2>6, <2>7, <2>8
<1> QED
  BY <1>1, SiteInvariant, VisitIsItsPages, PTL DEF SiteSpec, DecidedAgainByOverlapOnly

=============================================================================
