---------------------------- MODULE ClientSession ----------------------------
(***************************************************************************)
(* The session of the web client: the cookie, which only the API sets and  *)
(* clears, and the user that AuthProvider believes to be signed in, read   *)
(* once per load of the page and changed by the answers to a sign-in, a    *)
(* registration or a sign-out.  One tab; the first-run page calls the API  *)
(* behind the provider's back.                                             *)
(*                                                                         *)
(* Links reload the page; forms and guards do not.  Accounts and tokens    *)
(* are module AuthSessions: here a call succeeds if its account allows it, *)
(* or fails.                                                               *)
(***************************************************************************)
EXTENDS Pages, Naturals

CONSTANTS
    People,         \* who may have an account
    Promoters,      \* those who work for the administration
    MaxSignOuts,    \* bound: sign-outs under way at once
    MaxReloads      \* bound: loads of the page after the first

ASSUME ClientAssumption ==
    None \notin People /\ Promoters \subseteq People /\ {MaxSignOuts, MaxReloads} \subseteq Nat

VARIABLES
    accounts,   \* who has an account
    cookie,     \* whose access_token the browser holds
    user,       \* AuthProvider: user
    hydrating,  \* AuthProvider: isLoading; whose cookie fetchMe was sent with
    route,      \* the page, and where its redirect parameter leads
    form,       \* the form being submitted, and whose account it is
    signOuts,   \* sign-outs under way
    excuses,    \* history: what has parted user and cookie since the load
    reloads     \* bound: loads after the first

clientVars == <<accounts, cookie, user, hydrating, route, form, signOuts, excuses, reloads>>

Private == {"/admin", "/suivi"}

Public == {"/login", "/register", "/setup"}

OnPage(page) == [page |-> page, redirect |-> None]

NotSubmitting == [page |-> None, of |-> None]

Hydrated == [pending |-> FALSE, of |-> None]

\* The guards of the private pages (an effect of each render).
Guarded(there, who, loading) ==
    IF there.page \in Private /\ ~loading /\ who = None
    THEN [page |-> "/login", redirect |-> there.page]
    ELSE there

ClientInit ==
    /\ accounts \in SUBSET People
    /\ cookie \in accounts \cup {None}
    /\ user = None
    /\ hydrating = [pending |-> TRUE, of |-> cookie]
    /\ route \in {OnPage(page) : page \in Private \cup Public}
    /\ form = NotSubmitting /\ signOuts = 0
    /\ excuses = {} /\ reloads = 0

\* An address typed, a link followed, or the same page again.
Reload(there) ==
    /\ reloads < MaxReloads
    /\ reloads' = reloads + 1
    /\ user' = None
    /\ hydrating' = [pending |-> TRUE, of |-> cookie]
    /\ route' = there
    /\ form' = NotSubmitting /\ signOuts' = 0
    /\ excuses' = {}
    /\ UNCHANGED <<accounts, cookie>>

\* The access cookie lasts fifteen minutes, and no page asks for another.
CookieExpires ==
    /\ cookie # None
    /\ cookie' = None
    /\ UNCHANGED <<accounts, user, hydrating, route, form, signOuts, excuses, reloads>>

-----------------------------------------------------------------------------
(* AuthProvider.                                                           *)

\* The answer to fetchMe: the account of the cookie it was sent with, or 401;
\* late if the session has changed since.
HydrateSession ==
    LET of == hydrating.of
    IN  /\ hydrating.pending
        /\ user' = of
        /\ hydrating' = Hydrated
        /\ route' = Guarded(route, of, FALSE)
        /\ excuses' = excuses \cup (IF cookie \in {of, None} THEN {} ELSE {"late"})
        /\ UNCHANGED <<accounts, cookie, form, signOuts, reloads>>

\* Any other failure counts as no session.
HydrateFails ==
    /\ hydrating.pending
    /\ user' = None
    /\ hydrating' = Hydrated
    /\ route' = Guarded(route, None, FALSE)
    /\ excuses' = excuses \cup {"failed"}
    /\ UNCHANGED <<accounts, cookie, form, signOuts, reloads>>

\* The button shows as soon as there is a user.
ClickSignOut ==
    /\ user # None /\ signOuts < MaxSignOuts
    /\ signOuts' = signOuts + 1
    /\ UNCHANGED <<accounts, cookie, user, hydrating, route, form, excuses, reloads>>

EndOfSignOut ==
    /\ signOuts > 0
    /\ signOuts' = signOuts - 1
    /\ user' = None
    /\ route' = Guarded(route, None, hydrating.pending)
    /\ UNCHANGED <<accounts, hydrating, form, reloads>>

FaultSignedOut ==
    EndOfSignOut /\ excuses' = {} /\ UNCHANGED cookie

\* The API clears its cookies.
SignedOut ==
    EndOfSignOut /\ cookie' = None /\ excuses' = {}

\* logout forgets the user whatever the API answers: the cookie stays.
SignOutFails ==
    EndOfSignOut /\ excuses' = excuses \cup {"failed"} /\ UNCHANGED cookie

-----------------------------------------------------------------------------
(* The forms.                                                              *)

\* Of the sign-in, the registration or the first-run page.
SendForm(p) ==
    /\ form = NotSubmitting
    /\ route.page \in Public
    /\ form' = [page |-> route.page, of |-> p]
    /\ UNCHANGED <<accounts, cookie, user, hydrating, route, signOuts, excuses, reloads>>

\* What the API accepts: a first promoter, somebody new, somebody known.
Acceptable ==
    CASE form.page = "/setup" -> form.of \in Promoters /\ accounts \cap Promoters = {}
      [] form.page = "/register" -> form.of \notin accounts \cup Promoters
      [] form.page = "/login" -> form.of \in accounts
      [] OTHER -> FALSE

\* The redirect parameter, or the home of the account; but a buyer who was
\* heading for the administration is told so and stays.
Destination(p) ==
    CASE form.page = "/setup" -> OnPage("/admin")
      [] form.page = "/login" /\ route.redirect = "/admin" /\ p \notin Promoters -> route
      [] route.redirect # None -> OnPage(route.redirect)
      [] OTHER -> OnPage(IF p \in Promoters THEN "/admin" ELSE "/suivi")

\* setAuthCookies; the first-run page says nothing to the provider, so that
\* the new administrator may be shown as nobody, or as who was there before.
SignedIn ==
    LET p == form.of
        known == IF form.page = "/setup" THEN user ELSE p
    IN  /\ Acceptable
        /\ accounts' = accounts \cup {p}
        /\ cookie' = p
        /\ user' = known
        /\ form' = NotSubmitting
        /\ route' = Guarded(Destination(p), known, hydrating.pending)
        /\ excuses' = IF form.page = "/setup" THEN {"behind"} ELSE {}
        /\ UNCHANGED <<hydrating, signOuts, reloads>>

\* Refused, or not answered, though an account may have been made; the form
\* may be sent again.
SignInFails ==
    /\ form # NotSubmitting
    /\ accounts' \in {accounts} \cup (IF Acceptable THEN {accounts \cup {form.of}} ELSE {})
    /\ form' = NotSubmitting
    /\ UNCHANGED <<cookie, user, hydrating, route, signOuts, excuses, reloads>>

ClientNext ==
    \/ \E there \in {OnPage(page) : page \in Private \cup Public} \cup {route} : Reload(there)
    \/ CookieExpires
    \/ HydrateSession \/ HydrateFails
    \/ ClickSignOut \/ SignedOut \/ SignOutFails
    \/ \E p \in People : SendForm(p)
    \/ SignedIn \/ SignInFails

ClientSpec == ClientInit /\ [][ClientNext]_clientVars

-----------------------------------------------------------------------------
(* What a user may rely on.                                                *)

\* The menu shows the session the browser has, and no other: it hides one, or
\* shows another account's, only after an answer to fetchMe that a sign-in
\* overtook, after a call that failed, or after the first-run page (the
\* provider never hears of its session).
MenuShowsSession ==
    cookie # None /\ ~hydrating.pending /\ user # cookie => excuses # {}

=============================================================================
