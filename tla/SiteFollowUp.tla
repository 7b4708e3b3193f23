---------------------------- MODULE SiteFollowUp ----------------------------
(***************************************************************************)
(* The building site of one block: artisans, their assignments and quotes, *)
(* the updates they and the administration publish, and the notifications  *)
(* these send (ConstructionService, ArtisanService, NotificationService).  *)
(*                                                                         *)
(* Requests are steps between awaits and may die at each.  An update is    *)
(* named by its request: phase, percentage and photos are left out, and so *)
(* are trade, scope, dates and amounts.  An artisan has one account.       *)
(***************************************************************************)
EXTENDS Pages, Sequences, SequencesExt

CONSTANTS
    Artisans, Assignments, Quotes,  \* ids that rows may take
    Buyers,                         \* holders of a confirmed reservation
    SiteCalls                       \* bound: requests

ASSUME SiteAssumption == None \notin Artisans \cup Assignments \cup Quotes /\ SiteCalls \subseteq Nat

VARIABLES
    building,       \* Block.launchStatus = EN_CONSTRUCTION
    updates,        \* rows of "construction_updates", by publishedAt
    progress,       \* the update that the block's phase and percentage copy
    artisan,        \* rows of "artisans": absent, created, or with access
    assignment,     \* rows of "artisan_assignments"
    quote,          \* rows of "quotes"
    told,           \* rows of "notifications": the update, its reader, read
    dispatched,     \* jobs of the queue "notification-dispatch"
    siteCall,       \* requests
    lateCopies,     \* history: updates copied when another was the last
    overlapped      \* history: requests that read a decision another took since

siteVars == <<building, updates, progress, artisan, assignment, quote, told,
              dispatched, siteCall, lateCopies, overlapped>>

NoAssignment == [by |-> None, status |-> "NONE"]

NoSiteCall == [op |-> "idle", step |-> "idle", by |-> None, of |-> None, yes |-> FALSE]

SiteOps == {"publish", "respond", "propose", "quote", "review", "create"}

SiteInit ==
    /\ building = FALSE
    /\ updates = <<>> /\ progress = None
    /\ artisan \in [Artisans -> {"none", "access"}]
    /\ assignment \in [Assignments ->
          [by : {a \in Artisans : artisan[a] = "access"}, status : {"PROPOSEE"}] \cup {NoAssignment}]
    /\ quote = [d \in Quotes |-> "NONE"]
    /\ told = {} /\ dispatched = {}
    /\ siteCall = [c \in SiteCalls |-> NoSiteCall]
    /\ lateCopies = {} /\ overlapped = {}

-----------------------------------------------------------------------------
(* Requests.                                                               *)

Active(a) == \E s \in Assignments : assignment[s] = [by |-> a, status |-> "ACCEPTEE"]

SiteRows == <<building, updates, progress, artisan, assignment, quote, told, dispatched>>

Calls(c, op, by, of, yes) ==
    /\ IsFirst(c, {x \in SiteCalls : siteCall[x] = NoSiteCall})
    /\ siteCall' = [siteCall EXCEPT ![c] =
                       [op |-> op, step |-> "sent", by |-> by, of |-> of, yes |-> yes]]
    /\ UNCHANGED <<SiteRows, lateCopies, overlapped>>

\* The routes: an artisan has an artisanId once their account gives access.
AskSite(c) ==
    \/ Calls(c, "publish", None, None, FALSE)
    \/ \E a \in Artisans :
          \/ artisan[a] = "none" /\ Calls(c, "create", None, a, FALSE)
          \/ /\ artisan[a] # "none"
             /\ \E s \in Assignments : Calls(c, "propose", a, s, FALSE)
          \/ /\ artisan[a] = "access"
             /\ \/ Calls(c, "publish", a, None, FALSE)
                \/ \E s \in Assignments, yes \in BOOLEAN : Calls(c, "respond", a, s, yes)
                \/ \E d \in Quotes : Calls(c, "quote", a, d, FALSE)
    \/ \E d \in Quotes, yes \in BOOLEAN : Calls(c, "review", None, d, yes)

Serving(c, op, step) == siteCall[c].op = op /\ siteCall[c].step = step

Onward(c, step) == siteCall' = [siteCall EXCEPT ![c].step = step]

Answered(c) == siteCall' = [siteCall EXCEPT ![c] = [NoSiteCall EXCEPT !.op = "done"]]

-----------------------------------------------------------------------------
(* publishUpdate.                                                          *)

\* assertCanPublishUpdate: an administrator, or an artisan with an active
\* assignment.
MayPublish(c) ==
    /\ Serving(c, "publish", "sent")
    /\ siteCall[c].by = None \/ Active(siteCall[c].by)
    /\ Onward(c, "allowed")
    /\ UNCHANGED <<SiteRows, lateCopies, overlapped>>

\* The block must be under construction.
CheckSite(c) ==
    /\ Serving(c, "publish", "allowed")
    /\ building
    /\ Onward(c, "open")
    /\ UNCHANGED <<SiteRows, lateCopies, overlapped>>

InsertUpdate(c) ==
    /\ Serving(c, "publish", "open")
    /\ updates' = Append(updates, c)
    /\ Onward(c, "inserted")
    /\ UNCHANGED <<building, progress, artisan, assignment, quote, told, dispatched,
                   lateCopies, overlapped>>

\* Fault: the block copies an update only if the percentage has grown.
FaultCopyFirstOnly(c) ==
    /\ Serving(c, "publish", "inserted")
    /\ progress' = IF progress = None THEN c ELSE progress
    /\ lateCopies' = IF Last(updates) # c THEN lateCopies \cup {c} ELSE lateCopies
    /\ Onward(c, "copied")
    /\ UNCHANGED <<building, updates, artisan, assignment, quote, told, dispatched, overlapped>>

\* Dénormalisation: the block copies the update, whichever is the last.
CopyToBlock(c) ==
    /\ Serving(c, "publish", "inserted")
    /\ progress' = c
    /\ lateCopies' = IF Last(updates) # c THEN lateCopies \cup {c} ELSE lateCopies
    /\ Onward(c, "copied")
    /\ UNCHANGED <<building, updates, artisan, assignment, quote, told, dispatched, overlapped>>

Notice(c, r) == [of |-> c, reader |-> r]

\* notifyUser: the row, ...
RecordNotice(c, r) ==
    /\ \/ Serving(c, "publish", "copied") /\ r \in Buyers
       \/ Serving(c, "propose", "proposed") /\ r = siteCall[c].by
    /\ Notice(c, r) \notin told
    /\ told' = told \cup {Notice(c, r)}
    /\ UNCHANGED <<building, updates, progress, artisan, assignment, quote, dispatched,
                   siteCall, lateCopies, overlapped>>

\* ... then the job; the call answers when the jobs of all are queued.
QueueNotice(c, r) ==
    LET readers == IF siteCall[c].op = "publish" THEN Buyers ELSE {siteCall[c].by} IN
    /\ Serving(c, "publish", "copied") \/ Serving(c, "propose", "proposed")
    /\ Notice(c, r) \in told \ dispatched
    /\ dispatched' = dispatched \cup {Notice(c, r)}
    /\ IF \A x \in readers : Notice(c, x) \in dispatched'
       THEN Answered(c) ELSE UNCHANGED siteCall
    /\ UNCHANGED <<building, updates, progress, artisan, assignment, quote, told,
                   lateCopies, overlapped>>

-----------------------------------------------------------------------------
(* Assignments and quotes.                                                 *)

\* createArtisan: account and profile in one transaction, then the token that
\* gives access; without it, requestPasswordReset gives one on demand.
CreateArtisan(c) ==
    /\ Serving(c, "create", "sent")
    /\ artisan[siteCall[c].of] = "none"
    /\ artisan' = [artisan EXCEPT ![siteCall[c].of] = "created"]
    /\ Onward(c, "created")
    /\ UNCHANGED <<building, updates, progress, assignment, quote, told, dispatched,
                   lateCopies, overlapped>>

GiveAccess(a) ==
    /\ artisan[a] = "created"
    /\ artisan' = [artisan EXCEPT ![a] = "access"]
    /\ siteCall' = [c \in SiteCalls |->
          IF siteCall[c].op = "create" /\ siteCall[c].of = a
          THEN [NoSiteCall EXCEPT !.op = "done"] ELSE siteCall[c]]
    /\ UNCHANGED <<building, updates, progress, assignment, quote, told, dispatched,
                   lateCopies, overlapped>>

ProposeAssignment(c) ==
    LET s == siteCall[c].of IN
    /\ Serving(c, "propose", "sent")
    /\ assignment[s] = NoAssignment
    /\ assignment' = [assignment EXCEPT ![s] = [by |-> siteCall[c].by, status |-> "PROPOSEE"]]
    /\ Onward(c, "proposed")
    /\ UNCHANGED <<building, updates, progress, artisan, quote, told, dispatched,
                   lateCopies, overlapped>>

\* submitQuote: any assignment of the artisan, even a cancelled one.
SubmitQuote(c) ==
    LET d == siteCall[c].of IN
    /\ Serving(c, "quote", "sent")
    /\ \E s \in Assignments : assignment[s].by = siteCall[c].by
    /\ quote[d] = "NONE"
    /\ quote' = [quote EXCEPT ![d] = "ENVOYE"]
    /\ Answered(c)
    /\ UNCHANGED <<building, updates, progress, artisan, assignment, told, dispatched,
                   lateCopies, overlapped>>

\* The others that have read the same row undecided are overtaken.
Decides(c, op) ==
    /\ overlapped' = (overlapped \ {c}) \cup
          {x \in SiteCalls \ {c} : Serving(x, op, "read") /\ siteCall[x].of = siteCall[c].of}
    /\ Answered(c)

\* Fault: the answer is not checked against the status.
FaultRespondAgain(c) ==
    /\ Serving(c, "respond", "sent")
    /\ assignment[siteCall[c].of].by = siteCall[c].by
    /\ Onward(c, "read")
    /\ UNCHANGED <<SiteRows, lateCopies, overlapped>>

\* respondToAssignment: reads the assignment proposed to the caller, ...
ReadAssignment(c) ==
    /\ Serving(c, "respond", "sent")
    /\ assignment[siteCall[c].of] = [by |-> siteCall[c].by, status |-> "PROPOSEE"]
    /\ Onward(c, "read")
    /\ UNCHANGED <<SiteRows, lateCopies, overlapped>>

\* ... then updates it by its id.
DecideAssignment(c) ==
    /\ Serving(c, "respond", "read")
    /\ assignment' = [assignment EXCEPT ![siteCall[c].of].status =
                         IF siteCall[c].yes THEN "ACCEPTEE" ELSE "ANNULEE"]
    /\ Decides(c, "respond")
    /\ UNCHANGED <<building, updates, progress, artisan, quote, told, dispatched, lateCopies>>

\* reviewQuote: reads a quote submitted, ...
ReadQuote(c) ==
    /\ Serving(c, "review", "sent")
    /\ quote[siteCall[c].of] = "ENVOYE"
    /\ Onward(c, "read")
    /\ UNCHANGED <<SiteRows, lateCopies, overlapped>>

\* ... then updates it by its id.
DecideQuote(c) ==
    /\ Serving(c, "review", "read")
    /\ quote' = [quote EXCEPT ![siteCall[c].of] =
                    IF siteCall[c].yes THEN "ACCEPTE" ELSE "REFUSE"]
    /\ Decides(c, "review")
    /\ UNCHANGED <<building, updates, progress, artisan, assignment, told, dispatched, lateCopies>>

-----------------------------------------------------------------------------

\* LaunchService.markFinancingSecured.
StartBuilding ==
    /\ ~building
    /\ building' = TRUE
    /\ UNCHANGED <<updates, progress, artisan, assignment, quote, told, dispatched,
                   siteCall, lateCopies, overlapped>>

\* A check refuses, the database fails or the process dies: the rest of the
\* handler is lost.
SiteCallDies(c) ==
    /\ siteCall[c].op \in SiteOps
    /\ siteCall' = [siteCall EXCEPT ![c] =
          [NoSiteCall EXCEPT !.op = "done", !.step =
              IF Serving(c, "publish", "inserted") THEN "cut" ELSE "idle"]]
    /\ overlapped' = overlapped \ {c}
    /\ UNCHANGED <<SiteRows, lateCopies>>

ServeSite(c) ==
    \/ MayPublish(c) \/ CheckSite(c) \/ InsertUpdate(c) \/ CopyToBlock(c)
    \/ \E r \in Buyers \cup Artisans : RecordNotice(c, r) \/ QueueNotice(c, r)
    \/ CreateArtisan(c) \/ ProposeAssignment(c) \/ SubmitQuote(c)
    \/ ReadAssignment(c) \/ DecideAssignment(c) \/ ReadQuote(c) \/ DecideQuote(c)
    \/ SiteCallDies(c)

SiteNext ==
    \/ \E c \in SiteCalls : AskSite(c) \/ ServeSite(c)
    \/ \E a \in Artisans : GiveAccess(a)
    \/ StartBuilding

SiteSpec == SiteInit /\ [][SiteNext]_siteVars

-----------------------------------------------------------------------------
(* What the site promises.                                                 *)

\* "Le bloc reflète toujours son dernier avancement": except while its copy
\* is awaited, after it was cut, or when an older update is copied after it.
BlockShowsLastUpdate ==
    updates # <<>> =>
        \/ progress = Last(updates)
        \/ Serving(Last(updates), "publish", "inserted")
        \/ siteCall[Last(updates)].step = "cut"
        \/ progress \in lateCopies

\* An artisan's answer and the review of a quote are final: only a request
\* that had read the row undecided, before the decision, changes it again.
DecidedAgainByOverlapOnly ==
    [][ \/ \E s \in Assignments :
              /\ assignment[s].status \in {"ACCEPTEE", "ANNULEE"}
              /\ assignment'[s] # assignment[s]
        \/ \E d \in Quotes : quote[d] \in {"ACCEPTE", "REFUSE"} /\ quote'[d] # quote[d]
        => \E c \in overlapped : siteCall'[c].op = "done" /\ siteCall[c].op \in SiteOps
      ]_siteVars

=============================================================================
