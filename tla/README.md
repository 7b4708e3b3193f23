# Les Terrasses: a verification project

TLA+ modules for the sale of apartments in *App-Les-Terrasses* (a NestJS API
over PostgreSQL/Prisma, Redis and BullMQ, with a Next.js client): how a unit is
reserved, held, paid, confirmed and put under contract, how a block goes from
commercialisation to construction, how identities are checked and sessions
kept, and the pages from which buyers, visitors and the back office do all
this.  The modules are checked by TLC on small instances; what matters most is
proved by TLAPS for every value of the constants.  `PROJECT.json` relates every
definition to the lines it models.

Contents: [the system](#1-the-system) · [the modules](#2-the-modules) ·
[the runs](#3-the-runs) · [fairness](#4-fairness) · [proofs](#5-proofs) ·
[disagreements found](#6-where-code-and-comments-disagree) ·
[not modelled](#7-what-is-not-modelled) · [plan](#8-plan).

## 1. The system

One API process (a single instance, `docker-compose.prod.yml`), whose handlers
are asynchronous: each `await` lets the others run.  PostgreSQL runs at READ
COMMITTED; there is no optimistic version, no `SELECT ... FOR UPDATE`.  So a
value read before an `await` may be stale when it is used after it, and only
what the `WHERE` of an update, a unique index or a foreign key says is checked
at the time of the write.  The pages are React components: what a handler
captured at the click, what is on the screen and what is in the database are
three different things while a call is in flight.

| component | its state | its operations | module |
|---|---|---|---|
| reservation (`reservation.service.ts`, its processor, `redis-lock.service.ts`) | `Reservation.status`, `Unit.status`, the Redis lock of a unit, the delayed BullMQ job | reserve (lock, transaction, job, release, schedule), expire after 48 h, cancel, confirm, override by an admin | UnitLedger, Reservation |
| payment (`payment.service.ts`, CinetPay and Stripe clients) | `PaymentInstallment.status` and `providerRef`; the providers' own sessions | generate a schedule, initiate a payment, two webhooks, mark paid and confirm | Payment |
| installment plan (`installment-plan.ts`) | none (pure) | cut a price in a deposit and four tranches | InstallmentPlan |
| contract (`contract.service.ts`, `contract-pdf.service.ts`) | `Document` rows, `ContractSignature` rows, PDF objects in the storage | generate, regenerate, sign (owner, then administration), countersign | Contract |
| launch (`launch.service.ts`) | `Block.launchStatus`, `fundingThresholdPercent` | check the threshold after a sale, submit and secure the financing, change the threshold | Launch |
| KYC (`kyc.service.ts`, `uploadKyc` of `auth.service.ts`, retention job) | `User.kycStatus`, identity documents by batch, their objects, the purge jobs | submit, approve, reject, purge 15 days after a rejection | Kyc |
| authentication (`auth.service.ts`) | accounts, refresh token chains, reset links | register, log in, refresh with rotation and reuse detection, log out, reset, change, first-run admin | AuthSessions |
| project administration and its page (`project.service.ts`, `admin/catalogue/page.tsx`) | units, pictures and files, views of a project and of its blocks; the page's list, form, draft and windows | create, edit, archive, delete; upload, attach, replace, remove; edit, reload and save | Catalogue, CatalogueDesk, CatalogueMedia, CatalogueViews, CataloguePage |
| construction and artisan (`construction.service.ts`, `artisan.service.ts`), notification | site updates and the copy on the block; artisans, assignments, quotes; notices | publish, propose, answer, quote, review, notify | SiteFollowUp |
| buyer page (`suivi/page.tsx`) | lists as last read, dialogs, calls in flight | pay the deposit, cancel, sign, submit an identity document | BuyerReservations, BuyerDocuments |
| back office pages (`admin/reservations`, `admin/kyc`) | two views of a table; a list and two dialogs | generate, countersign, cancel; approve, reject | ReservationsPage, KycDesk |
| market survey (`avis/page.tsx`, `survey.service.ts`) | the answers, the screen | go through the screens, submit, retry | Survey |
| public catalogue (`catalogue/page.tsx`, `ReservationModal.tsx`) | the window on a home, the reservation window | open, close, fetch, reserve | PublicCatalogue |
| session of the web client (`AuthProvider.tsx`, sign-in, registration and first-run pages, guards) | the cookie, the user the page believes in | load, sign in, register, sign out, redirect | ClientSession |
| other pages, guards of the API, statistics, service worker | | | not modelled (section 7) |

**How they interact.**  A payment notification ends in `markInstallmentPaid`,
which, for the deposit, calls `confirmReservation` (reservation), which calls
`checkFundingThreshold` (launch); then it generates the contract (contract).
The expiration job reads the buyer's KYC status and postpones itself while it
is under review; paying the deposit and signing as owner require `VALIDE`.
Cancelling is refused once confirmed, paying and signing once cancelled.  All
meet in two tables, `units` and `reservations`, which the catalogue page also
edits.  The pages call the services and keep copies of what they answered.

**What is hard.**

- *Stale reads.*  Every handler reads, awaits, then writes unconditionally,
  except `createReservationCore`, whose `updateMany` carries the condition
  `status: DISPONIBLE`.
- *Late events.*  The providers report a payment when they like: after the
  hold has expired, twice, or for a session nobody refers to any more.
- *Crashes between two writes.*  Commit then `queue.add`; PAYE then
  confirmation; signature then countersigned PDF; object then row.
- *Timeouts.*  The lock has a TTL of 10 s; a job may die with its worker and
  is run again once; a job that fails is not retried (no `attempts`).
- *Answers out of order.*  A page starts a call from what it shows and uses the
  answer on what it shows then: another unit, view, home or dialog.
- *Numbers.*  Rounded shares of small prices.

**What makes each component correct.**  Units: a unit is sold once, never held
by nobody.  Reservation: a hold ends; a payable hold has its job.  Payment:
only what a provider accepted is recorded and confirms; what it accepted is
credited and confirms.  Plan: the tranches add up to the price.  Contract: a
listed contract has its file, a signed one is countersigned, a signature is not
erased.  Launch: no crossing of the threshold is missed, the life cycle goes
forward.  KYC: rows and objects keep together, a rejected batch is erased in the
end, a validated account stands on its last submission.  Sessions: what is revoked stays
revoked, a token has one successor, a link one use.  Pages: what is on the
screen is what an action is about, and nothing is asked twice.

## 2. The modules

```
UnitLedger ──── implemented by ── Reservation, CatalogueDesk, Payment, Launch
    ├── extended by Reservation, Payment  (reservations and units are its own)
    └── extended by Launch                (the sales are the ledger's)
Contract      InstallmentPlan      Kyc      AuthSessions
M ── extended by MHistory         (M: Reservation, Payment, Contract, Launch)
Catalogue ── CatalogueDesk, CatalogueMedia, CatalogueViews ── CataloguePage
Pages ── SiteFollowUp, BuyerReservations, BuyerDocuments, ReservationsPage,
         KycDesk, Survey, PublicCatalogue, ClientSession ── SitePages
```

A module `M` that is run on its own, `CataloguePage` and `SitePages` have an
`MCM` (symmetry, bounds) with its `.cfg`.  The theorems of a service, of its
history and of the ledger are in `MProofs`; `PaymentProofs` has those of
InstallmentPlan as well, `AccountProofs` those of Kyc and AuthSessions,
`CataloguePageProofs` and `SitePagesProofs` those of the pages.  An operator called `Fault...` is a plausible bug of the
operation that follows it; it is part of no specification, and is there to show
that each property notices the bug it is about (`PROJECT.json`, `mutants`).

**UnitLedger** is the abstract specification: the tables `units` and
`reservations` seen through committed transactions only, with the `WHERE` the
code gives each of them.  `ReserveTx` has one (the unit is DISPONIBLE);
`ConfirmTx`, `CancelTx`, `SetStatusTx` and `UpdateUnit` have none.

**Reservation** is the service itself.  `attempt[r]` is the progress of one
call of `createReservationCore` (the id of the row it creates also names the
call and its random lock token): `AcquireLock`, `CommitReservation` or
`UnitNotAvailable`, `EnqueueExpiration` or `EnqueueFails`, `ReleaseLock` (the
`finally`), `GenerateSchedule`; `AttemptAborts` is a crash anywhere.
`LockExpires` may happen at any time.  The worker runs one job at a time
(`ExpireRead`, `ExpireSkip`, `ExpireCommit`, and `WorkerDies`, `JobFails`).
`cancelReservation` and `adminSetStatus` are a read and a commit each, held in
`call[h]`.  The deposit is `OpenDeposit` and `ConfirmReservation`, the latter
at any later time.  The admin route that creates a reservation for a client
runs the same core and then the same `generateSchedule`.

**Payment** has one action per step of `initiatePayment` and of the two
webhooks, the providers' sessions as external state (`Settle`), and the
reservation as ledger transactions at any time (`LedgerStep`), which is all
that module Reservation ever commits (theorem `ReservationImplementsLedger`).
Two installments, the deposit and a later one, stand for the five.

**Contract** is the contracts of one reservation.  A document is named by the
key of its PDF, and keys are numbered in the order of rendering.
`StartGenerate`, `FindContract`, `RenderContract`, `InsertContract`;
`RegenerateRead`, `DeleteContract` (with the cascade on the signatures),
`PurgeFile`; `SignRead`, `CheckIdentity`, `InsertSignature` (unique per
signer), `RereadSignatures`, `Countersign`.

**Launch** is one block: `ConfirmSale` is a ledger transaction followed by
`ReadBlock`, `ReadUnits`, `WriteReached`; `SubmitRead/Write` and
`SecureRead/Write` are the financing; `EditUnit` and `SetThreshold` change what
the check looks at without calling it.

**InstallmentPlan** is `buildInstallmentPlan`, one iteration per step.

**ReservationHistory, PaymentHistory, ContractHistory, LaunchHistory** add to
each of these a history variable that no guard reads: which handlers in flight
were *overtaken* by another write since their read, or which deposits were
*confirmed* or *dropped* by the death of a delivery.  They turn what the code
does not guarantee into what it does: an exception happens through an overtaken
handler and in no other way.

**Kyc** is one buyer.  A submission stores the faces one by one (`PutFace`,
`PutFails`, `CleanFaces`), then inserts the rows, then sets EN_ATTENTE.  A
review is a read, a check that the batch is the latest, and an unconditional
write; a rejection then queues the purge of the face it was about.  The worker
erases the object, then the row, face by face, of the whole batch; its job may
fail, and it may die and run again once.  `overtaken` and `unqueued` are
histories: the reviews another write overtook, the rejections cut before they
queued their purge.

**AuthSessions** is accounts, chains of refresh tokens and reset links.  Each
request checks its caller (`LoginCheck`, `RefreshRead`, `ResetRead`,
`ChangeRead`, `SetupRead`) and writes in later steps; a revocation of all the
sessions of a user remembers in `cut` what it has found.

**CatalogueDesk** is the list, the selected unit and the form of the catalogue
page; a handler writes, reloads the list and fills the page with the answer,
whatever is selected by then, while buyers reserve.  It implements UnitLedger
(`DeskImplementsLedger`).  **CatalogueMedia** is the rows of `unit_media` and
the files of the bucket, with the requests that add, attach, replace and remove
them, fail and die.  **CatalogueViews** is the draft of the views, the window
that edits a copy of one, and the reload, upload and save that may cross.
**CataloguePage** joins them: they share no state, so a behaviour works in one.

**SiteFollowUp** is the building site of a block, with the requests of artisans
and of the administration in steps.  **BuyerReservations** and
**BuyerDocuments** are two halves of the buyer's page, each with the API at the
other end.  **ReservationsPage** and **KycDesk** are two pages of the back
office.  **Survey** is the questionnaire, its validation in the page and in the
API.  **PublicCatalogue** is the two windows of the sales catalogue.
**ClientSession** is the cookie and the user that `AuthProvider` believes in.
**SitePages** joins them in the same way: one page is visited per behaviour,
and the others stay in their initial state.

Decisions worth knowing:

- Refused requests (404, 403, 409) and the postponement of the job under review
  change nothing and are stuttering steps.
- A stalled job is rerun once (BullMQ's default `maxStalledCount`), then
  fails.  A worker wrongly taken for dead is not modelled.  `moveToDelayed` is
  modelled as the postponement it is meant to be.
- Sales mode is on; the market-study mode refuses every sale.
- Prices and amounts are left out of Reservation and Payment: a provider
  reports `accepted` (exact amount) or `mispaid` (any other).  Stripe's payment
  intent is identified with its session.
- `ConfirmReservation` of module Reservation may repeat, as a redelivered or a
  second payment would; Payment says when it can.
- In Launch the units of the block are fixed; the percentage is exact where the
  code computes in floating point (they differ only on ties such as 57/200).
- In InstallmentPlan shares are exact fractions of 9000, and a share halfway
  between two francs may be rounded either way.
- A price in CatalogueDesk is named by the unit it is meant for, an update in
  SiteFollowUp by its request, a drawing in BuyerDocuments by the contract it
  was made under: what the properties tell apart.
- The survey has one question of each kind (single choice, note, selling
  points, e-mail, WhatsApp number); the identity form is filled or not.
- In the page modules the API answers in one step, since its races are the
  service's module; what the page does with a late, lost or failed answer is
  kept.  The call may be served and its answer lost.
- The confirmation of "palier 2" of the reservations page is left out: no
  contract is signed by the administration alone (`OwnerSignsFirst`).

## 3. The runs

Each run asks one question of a component; one that is meant to pass checks
several properties on the same instance.

| run | instance | what it shows |
|---|---|---|
| `reservation` | 1 unit, 2 reservations, 1 call, worker, KYC, admin | The service implements the ledger (`LedgerSpec`); no unit is held for nobody (`NoPhantomHold`); a double sale starts with a write to an ANNULEE reservation (`DoubleSaleNeedsLateWrite`); `PayableHoldIsArmed`; a confirmation is undone by the administration or by a handler it overtook (`UndoneByOvertakenOnly`). |
| `live_reservation` | 1 reservation, 1 call, edits | `ArmedHoldSettles`: a hold whose job is queued is settled (or is under review, or its job failed). |
| `payment` | 2 sessions, 2 requests, 2 installments | `PaidMeansAccepted`, `ConfirmationIsBacked` with references replaced and deliveries racing. |
| `live_payment` | 2 sessions, 1 delivery at a time | Under redelivery an accepted payment is credited, but for a replaced CinetPay reference (`AcceptedPaymentIsCredited`), and a paid deposit confirms, but for the death of the delivery that recorded it (`PaidDepositConfirms`). |
| `contract` | 3 contracts, 2 requests | `ListedContractHasFile`; `SignedIsCountersigned` (but for the death of the last signing request); an owner's signature is lost to a regeneration it overtook only (`ErasedByOvertakenOnly`). |
| `launch` | 2 units, 2 handlers, thresholds 50 and 100, edits | `CrossingIsNoticed`; a block leaves the order of its stages through an overtaken handler only (`OffCourseByOvertakenOnly`). |
| `plan` | prices 0 to 60 and 251 to 270, deposits 1 to 100 % | `DefaultPlanIsExact` at 10 %; `LargePlanIsExact` for every deposit. |
| `kyc` | 2 batches of one or two faces, 2 reviewers, worker | Rows and objects keep together through failures and crashes (`FacesMatchObjects`); a rejected batch has its purge to come, and a finished purge has erased (`RejectedIsErased`); a validated account stands on its last submission, but for three named ways (`UnbackedInNamedWaysOnly`). |
| `sessions` | 2 addresses, 3 tokens, 1 link, 2 requests | `RevokedForGood`; a token has a second successor (`SuccessorsNeedOverlap`), a link a second use (`LinkUsesNeedOverlap`), by overlapping requests only. |
| `catalogue` | 2 units, 1 buyer, 2 handlers; 3 requests on pictures; 2 views, 1 revision | The page implements the ledger (`DeskImplementsLedger`); a form writes what belongs to its unit (`FormWritesItsOwn`); no picture without file, no file without picture but for the failures named (`FilesMatchRows`); what a window shows is what is saved (`WindowShowsDraft`). |
| `pages` | two rows of what a page shows, two or three calls in flight | `BlockShowsLastUpdate` and `DecidedAgainByOverlapOnly` (site); `OneSessionUnlessError`, `SignsWhatWasDrawn`, `ResubmitsAfterErrorOnly` (buyer); `RowsAreOfView`, `StuckAfterSuccessOnly`, `DecidesOnWhatWasListed` (back office); `BlindNoteStays`, `RefusedForMailOnly` (survey); `ReservesWhatItShows`, `WindowsAreOfTheirHome` (public catalogue); `MenuShowsSession` (session). |
| `double_sale` | the smallest that shows it | expected violation: section 6. |

**Bounds.**  One unit is enough for a race on a unit, two reservations for a
double sale (two buyers are needed only by the ownership check, and one can
make both reservations).  One HTTP call in flight besides the attempts, the
worker and the payments gives every race of two handlers.  Two sessions give a
replaced reference; two requests give a delivery racing an initiation or
another delivery.  Two contract requests and three documents give a
regeneration that races a signature and is followed by a new contract.  Two
handlers and two units with thresholds 50 and 100 give crossings at the first
and at the last sale.  The rounding of the default plan depends on the price
modulo 20; 0 to 60 covers each residue and the prices too small for four
tranches.  Two batches give a resubmission under review and an older batch that
becomes the latest when a purge erases the newer; two reviewers give a decision
that overtakes another.  Three tokens and two requests give a rotation of a
rotated token, its reuse, and a refresh found by a revocation.  Two handlers of
the catalogue page give an answer about one unit while another is selected;
three requests on pictures give one that shares the file of another.  On the
pages, two rows and two calls give an answer that comes back to the wrong row;
`MaxErrors`, `MaxFailures`, `MaxSendErrors`, `MaxVisitErrors` (one) and
`MaxDeskErrors` (two) bound the calls of a visit that fail, `MaxFetches` the
loads under way at once, `MaxSessions` the sessions of a deposit, `MaxBatches`
the submissions of a client, `MaxAtouts` the selling points (one more than the
three a visitor may choose), `MaxText` the revisions of a view, `MaxSignOuts`
the sign-outs under way at once, `MaxReloads` the loads after the first.  `EditStatuses` and
`Choices` bound the statuses an admin writes by hand; `Thresholds`, `Totals`
and `DownPayments` the numbers.  The proofs of section 5 have no bounds.

**Deadlock** is disabled where everything the bounds allow may be done: the
plan is computed once, batches, handlers and requests are finite in number, a
visit of a page ends.

**Exceptions.**  A property that names an exception (`...Only`, `...Unless...`,
`...Need...`) has been seen to fail without it: the exception is a behaviour
the code has, and section 6 says against which comment.

## 4. Fairness

- Reservation: weak fairness of the steps of an attempt, of the job
  (`ExpireRead/Skip/Commit`), of the commit of a call in flight, and of the
  lock's TTL: Node goes on with what it started, BullMQ runs a job whose delay is
  over, Redis expires keys.  Nothing is assumed of buyers, admins, reviewers;
  crashes may happen (`AttemptAborts`, `WorkerDies`) and are never required to.
- Payment: weak fairness of a request's steps or its death; strong fairness of
  the providers' notifications and of the steps they cause: CinetPay and Stripe
  redeliver until they get an answer, and not every delivery dies at the same
  place.
- Contract: weak fairness of the steps of a signature, each of which may also
  be the one where the request dies; the history variable `unsealed` keeps the
  contracts whose last signing request did.
- The other modules state safety only: what a visitor, an administrator or a
  reviewer does next is up to them, and the code promises nothing about when.

## 5. Proofs

Proved for all constants that satisfy the named assumptions, which say that
`None` is not a member of the sets (nor the status or the mark `"asked"` of the
identity that the buyer's page loads), that ids of different kinds differ, that
sets counted are finite, that bounds and whatever is ordered by age are natural
numbers, and that statuses and percentages are what the schema allows.  Types
are proved here and not checked in the runs again.  Every safety property and every
action property that a passing run checks is a theorem.

**Services.**

| module | theorems | argument |
|---|---|---|
| UnitLedgerProofs | `LedgerType`, `LedgerNoPhantomHold`, `LedgerDoubleSale` | `NoPhantomHold` is inductive with the types: every transaction that takes a reservation out of the live ones frees its unit.  The double sale is an action property: one step breaks exclusivity only if its reservation was ANNULEE. |
| ReservationProofs | `ReservationType`, `PayableIsArmed`, `ReservationImplementsLedger`, `ReservationDoubleSale`, `ForeignLockIsKept`, `HoldEndsWithItsJob`, `ConfirmationUndone` | `IInv` adds to the types that a call past its start has a unit (`AttemptHasUnit`) and that one past the enqueueing has its job (`QueuedAttemptIsArmed`), without which `GenerateSchedule` could break the property.  The refinement maps every step to a transaction or a stutter (`Quiet`); the ledger's theorems are then inherited.  `SettledInv`: a job has its row, so that no insertion comes after it, and a job completes only over a status it has looked at or written. |
| PaymentProofs | `PaymentType`, `PaidIsAccepted`, `ConfirmationsAreBacked`, `PaymentImplementsLedger`, `PaymentDoubleSale`, `PaidDepositStaysInHand`; `DefaultPlanAddsUp`, `LargePlanAddsUp` | `IInv` follows the payment from its session to the confirmation: a reference and a request belong to a session of their installment, a session being opened has one request, a delivery about to mark has an accepted session, one about to confirm has marked.  `PaidDepositStaysInHand`: only `MarkPaid` makes a deposit PAYE (`DepositMarked`), and the delivery that did stays about to confirm until it is over (`ConfirmingStays`).  The plan: each rounded tranche exceeds its share of what the deposit leaves (`Left`) by half a franc at most, so that the first four fit in the price under a 10 % deposit, or from 251 francs on, and the balance is never negative. |
| ContractProofs | `ContractType`, `AdminSignsLast`, `CountersignedHasBoth`, `ContractsHaveFiles`, `SignedStaysInHand`, `DuplicatesAreBounded`, `SignatureErased` | `RowInv`: a key is rendered once, requests work on rendered keys, a purge follows a deletion.  `SignInv`: signatures have a row, a signature of the administration in flight follows the owner's if the contract still exists, a countersignature in flight is due.  `SignedIsInHand` is inductive with both: the request that rereads the signatures finds them both, or was not the last.  `OverlapBound`: contracts and requests about to insert one are at most the requests, or a single contract. |
| LaunchProofs | `LaunchType`, `NoCrossingIsMissed`, `LaunchImplementsLedger`, `LifeCycleLeft` | `CrossingIsNoticed` is inductive with the types; the lemma is that the percentage of sold units grows with the set of sold units (`PercentMonotone`), so that only a confirmation can cross, and it carries its own check. |
| AccountProofs, identities | `KycType`, `ListedFacesAreStored`, `StoredFacesAreListed`, `RowsAndObjectsMatch`, `RejectedAreErased`, `ValidatedOnLastBatch` | `IInv` is in layers: what a submission has stored at each step (`UploadInv`), that rows are those of finished submissions, with their dates (`RowInv`), that a review works on a batch with a date (`ReviewInv`) and a purge on a rejected batch (`PurgeInv`); then where a face may be without its row or its object (`FaceInv`) and what a finished job has left (`DoneInv`).  On top of it, `QueueInv`: a rejected batch has its job, a request about to add it, or is in `unqueued`.  `DateInv`: batches are dated in the order of their insertion.  `StandInv`: a review that nothing overtook is of an unrejected batch and, past its check, no later batch has rows. |
| AccountProofs, sessions | `AuthType`, `ReplacedTokensAreRevoked`, `RevocationIsFinal`, `SessionsSplitByOverlap`, `AdminsByOverlap`, `LinkUsesByOverlap` | The invariant gives each step of a handler its shape, each token an owner, and says that what `cut` holds is dead or in flight.  The three bounds count: successors plus refreshes in flight never exceed the requests, since a token read unrevoked is revoked before its successor is inserted (`OverlapStep`; `FewerOfBoth` and `OneMoves` are the lemmas on cardinality). |

The three theorems on histories (`ConfirmationUndone`, `SignatureErased`,
`LifeCycleLeft`) have the same shape.  A first lemma says that the history
variable constrains nothing (`HistoryIsService`), which gives the service's
invariant.  A second shows that `OvertakenInv` is inductive: a handler past its
check finds what it has read, or is in `overtaken`.  The property, a statement
about one step, then follows.

**Pages.**  A first lemma (`PageIsItsSections`, `VisitIsItsPages`) turns the
composition into its parts: whichever page is visited, each page's own
specification holds.  Each invariant is proved of its page alone.

| module | theorems | argument |
|---|---|---|
| CataloguePageProofs | `CatalogueImplementsLedger` | Each write of a handler is an `UpdateUnit`, each buyer's step a transaction on the unit it is about, all others stutters.  `DeskInv`: handlers and the form name units. |
| | `FormKeepsToItsUnit` | `OwnInv`: a unit's own price and status are in its row, in the list, in the form while it is selected, in what a handler has read and in what it is about to write.  The histories `moved` and `foreign` only grow. |
| | `RowsAndFilesKeepTogether` | `MediaInv`: rows and views show stored files only, an upload has its file, and a deletion under way is safe: the row it has found still shows the file it has read, if it is there, and the file it is about to delete is shown no more and, since its upload is over, never again. |
| | `WindowShowsWhatIsSaved` | `ViewsInv`: an open window is on a view that exists. |
| SitePagesProofs | `MenuKeepsToSession` | inductive as it stands. |
| | `WindowReservesItsHome`, `WindowsKeepToTheirHome` | `PublicInv`: one window covers the page; a fetch that is not given up is of the home of its window; as long as nothing is stray there is one reservation under way at most, of the home of the window. |
| | `OneSessionPerVisit` | `SessionsAccounted`: a session that was opened is the one of the payment that is not over, or an error was shown for it. |
| | `TableIsOfItsView` | `SaleInv`: unless something was mixed up, the load under way is for the view selected. |
| | `StuckBySuccessAlone`, `DecidesAsListed` | `KycDeskInv`: one dialog at a time, over a list that still has its entry (`Covers`); a decision under way holds its flag and its dialog (`DecisionHolds`). |
| | `BlindNoteIsKept`, `ScreensCheckWhatApiAsks` | `SurveyInv`: what the screens behind have checked still holds (`ScreensComplete`), and what was sent is what the API asks for, but for the pattern of the address (`PayloadComplete`). |
| | `ContractCarriesItsDrawing`, `ResubmitsUncertainOnly` | `SignatureInv`: an image keeps the contract it was drawn under, and the pad is emptied with its dialog.  `ReviewIsShown`: a dossier under review is shown as such, or the form is hidden by a load or an error. |
| | `BlockFollowsItsUpdates`, `DecisionsAreFinal` | `SiteInv`: what a request is about (`RequestOK`), and that the row it has read is undecided or was decided over it (`Undecided`).  `QuietStep`, `RequestSteps` and `DecisionStep` factor the steps of the six kinds of requests. |

Every invariant named here was checked by TLC on the instance of its run before
it was proved.

Proved and in no run, because they would only repeat there what the proof says:
the types, `ForeignLockKept`, `OwnerSignsFirst`, `CountersignedIsComplete`,
`DuplicatesNeedOverlap`, `ReplacedIsRevoked`, `AdminsNeedOverlap`, and the
safety halves of three of the liveness properties: `CompletedJobSettled`,
`PaidDepositIsInHand`, `SignedIsInHand`.

Only model-checked: the four liveness properties, `ArmedHoldSettles`,
`AcceptedPaymentIsCredited`, `PaidDepositConfirms` and `SignedIsCountersigned`
(the prover does neither fairness nor ENABLED).  `HoldEndsWithItsJob`,
`PaidDepositStaysInHand` and `SignedStaysInHand` prove for every instance what
each but the second needs besides fairness: that what should happen is at any
time in somebody's hands, or was dropped in the way the property names.
Nothing rests on induction over data, and no module declares a RECURSIVE
operator.

## 6. Where code and comments disagree

`double_sale` is a run that TLC ends with a counterexample: a deposit reported
after the expiration confirms the ANNULEE reservation while another buyer holds
the unit (`reservation.service.ts:170`, against `schema.prisma:399`).

The others show in the exceptions that the passing properties make.

*Services.*

- The expiration job, or a cancellation, that read EN_ATTENTE commits after the
  confirmation and undoes it (`UndoneByOvertakenOnly`).
- A delivery dies after PAYE and before the confirmation; redeliveries stop at
  PAYE (`payment.service.ts:249`; `PaidDepositConfirms`).
- A regeneration deletes a contract signed since it was read, against "on
  n'écrase jamais une signature acheteur" (`ErasedByOvertakenOnly`).
- A late threshold check, or a second submission, takes a block back a stage
  (`OffCourseByOvertakenOnly`).
- A failure between the commit and `queue.add` (`reservation.service.ts:103`)
  leaves a hold that nobody ends, against the comment of line 102
  (`ArmedHoldSettles` speaks of holds whose job is queued; `PayableHoldIsArmed`
  says that the others cannot be paid).
- A second initiation replaces the reference by which the payment of a first
  CinetPay session would be found (`payment.service.ts:174`, against 294-295;
  `AcceptedPaymentIsCredited`).
- Two overlapping generations make two contracts (`contract.service.ts:56`,
  against `payment.service.ts:264-265`; `DuplicatesNeedOverlap`).
- The request of the last signature dies before the countersigned PDF, and
  nothing makes it later (`contract.service.ts:340`, against 242-243;
  `SignedIsCountersigned`).
- Below 251 francs the balance may be negative and be dropped
  (`installment-plan.ts:99`, against 55-56 and 103; `LargePlanIsExact`): 5
  francs with a 50 % deposit give 3+1+1+1.
- Nothing stops a submission over a batch under review: `AuthService.uploadKyc`
  (`auth.service.ts:336-394`) writes EN_ATTENTE whatever the status was, against
  the comment of `uploadKyc` in `apps/web/lib/api.ts:832-834`, "une nouvelle
  soumission est possible après rejet (le serveur lève 409 tant que le lot
  précédent est en cours)".  The page is the only barrier: it hides its form
  once it has read EN_ATTENTE, and a second submission passes when the answer to
  the first was lost (`ResubmitsAfterErrorOnly`).
- An approval that checked its batch before it was rejected writes VALIDE over
  REJETE, and one that checked it before a later submission validates a batch
  that is not the last (`kyc.service.ts:176`).  An older batch that was never
  rejected is the latest again once the later ones are purged
  (`kyc.service.ts:262`).  Both against "seul le lot le plus récent d'un user est
  actionnable" (`kyc.service.ts:257`).  A submission that dies between its rows
  and the status leaves the account VALIDE on the batch before
  (`auth.service.ts:378`).  `UnbackedInNamedWaysOnly` names these three ways.
- A rejection that dies before `retentionQueue.add` (`kyc.service.ts:226`) leaves
  documents that nothing purges; the purge that fails is not retried, the queue
  having no `attempts`, against the "retry BullMQ" of `kyc.service.ts:76`
  (`RejectedIsErased` excepts both).
- Two refreshes of one token that overlap both read it unrevoked and both
  replace it, so that the reuse is not detected and one session becomes two
  (`auth.service.ts:154`; `SuccessorsNeedOverlap` bounds the successors of a
  token by the requests in flight).
- A reset link changes the password twice when two requests overlap, against
  "token à usage unique" (`auth.service.ts:260`, 278; `LinkUsesNeedOverlap`).
- Two first-run set-ups that overlap make two administrators, against "ne
  fonctionne qu'une seule fois" (`auth.service.ts:69`, 77; `AdminsNeedOverlap`).
- A request in flight across a revocation of all the sessions, which the
  comment of `auth.service.ts:262-264` promises, opens one that survives it
  (`RevokedForGood` speaks of the tokens it found).
- An update of a site inserted first and copied last is what the block shows,
  against "le bloc reflète toujours son dernier avancement"
  (`construction.service.ts:40`; `BlockShowsLastUpdate`).
- An assignment answered twice at once, or a quote reviewed twice, is decided by
  the last write (`DecidedAgainByOverlapOnly`).
- A file may be left without a row, silently, by the death of a request or a
  committed insertion reported as failed, against "jamais de blob orphelin
  silencieux" (`FilesMatchRows`, whose `excused` names the ways).

*Pages.*

- After a success the identity page does not put its flags back: no other file
  can be approved, and after a rejection the next dialog can be neither sent
  nor closed until a reload (`StuckAfterSuccessOnly`).
- When the fetch of a home fails, the reservation window offers the previous
  one again (`ReservesWhatItShows`); a confirmation that arrives late shows in
  the next window (`WindowsAreOfTheirHome`).
- An action on a row reloads the view of its click: after a change of view the
  table holds the rows of the other (`RowsAreOfView`).
- The form of a unit may be filled with the answer about another
  (`FormWritesItsOwn`), and a reload replaces the draft under an open window
  (`WindowShowsDraft`).
- An address such as `a@b.c1` passes the page's pattern and is refused by
  `IsEmail`: the visitor is told to try again for ever (`RefusedForMailOnly`).
- A payment whose answer was lost opens a second session
  (`OneSessionUnlessError`).
- The answer to the `fetchMe` of the load, overtaken by a sign-in, signs the
  page out again; a sign-out that fails forgets the user and keeps the cookie;
  the first-run page signs its administrator in without telling `AuthProvider`,
  and the guard of `/admin` sends them to the sign-in page (`MenuShowsSession`).

Seen on the way, and part of no property: the confirmation of palier 2 has both
its buttons disabled by the flag that opening it sets
(`admin/reservations/page.tsx:188`, 589, 600); the text of "Précisez" for the
residence is dropped by the API's list of keys; "Option 48h" calls nothing; the
survey cannot go back to its introduction; saving a client closes the editor of
another row (`admin/clients`).

## 7. What is not modelled

- The other pages of the web client (forgotten and new password, clients and
  survey administration, portal of an artisan): forms with one call each.  The
  service worker, and a second tab that changes the cookie of the first.
- The creation and deletion of projects and blocks (one statement each), and
  the fields of a unit other than its status and price.
- Contracts of artisans; the image of a signature left behind by a double
  click (`contract.service.ts:309`).
- The reading of notifications, e-mails, dates, wording, layout, filters and
  galleries: no other state depends on them.  Statistics and exports change
  nothing.
- Guards and roles, and the conversion of currencies: stateless.
- Passwords, hashes, the expiry of tokens and links: a token that expires is
  one that is presented no more.
- Collisions of transaction ids (`payment.service.ts:159`).
- Liveness of the pages: nothing in the code makes a visitor go on.

## 8. Plan

Done: the ledger and its services, the identity documents and the sessions, the
catalogue page, the pages of buyers, visitors and the back office, the session
of the client; proofs of every safety and action property of the runs.  What
would come next:

1. **More of what services promise**: bounds that only the proofs reach, such
   as how many double sales a late write can start, and the lock of a unit with
   respect to the transaction it is meant to protect.
2. **A composition** of Reservation, Payment and Contract, for the path of one
   buyer end to end, and the liveness that only it can state.
