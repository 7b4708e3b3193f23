---------------------------- MODULE AuthSessions ----------------------------
(***************************************************************************)
(* The accounts and their sessions (AuthService): a session is a chain of  *)
(* refresh tokens, each revoked when the next one replaces it; a password  *)
(* is changed by its owner or by a reset link, and both revoke every       *)
(* session; so does the reuse of a revoked token.                          *)
(*                                                                         *)
(* A handler checks its caller in a first step (a password, a token, a     *)
(* link) and writes in later ones, unconditionally.  Dates are left out: a *)
(* token or a link that expires is one that is presented no more.  A       *)
(* "Fault" is a plausible bug of the operation that follows it, as in      *)
(* UnitLedger.                                                             *)
(***************************************************************************)
EXTENDS Naturals, FiniteSets

CONSTANTS
    Users,      \* accounts, named by their e-mail address
    Tokens,     \* refresh tokens ever issued
    Links,      \* reset links ever issued (PasswordResetToken)
    Requests,   \* HTTP requests in flight at once
    None        \* no user, no token, no link

ASSUME AuthAssumption ==
    /\ None \notin Users \cup Tokens \cup Links \cup Requests
    /\ None \notin {"ACHETEUR", "ADMIN"}
    /\ Tokens \cap Requests = {}
    /\ IsFiniteSet(Users) /\ IsFiniteSet(Tokens) /\ IsFiniteSet(Requests)

VARIABLES
    account,    \* per user, the role of its row, None without one
    token,      \* per token, its row, or NoToken
    link,       \* per link, its row, or NoLink
    call,       \* per request, the handler in progress
    cut         \* history: the tokens and the requests that a revocation of
                \*          all the sessions of their user has found

tables == <<account, token, link>>
vars   == <<tables, call, cut>>

Roles == {"ACHETEUR", "ADMIN"}

NoToken == [owner |-> None, live |-> FALSE, previous |-> None]

\* uses: how many times it has changed the password (usedAt: not zero).
NoLink == [owner |-> None, uses |-> 0]

Idle == [op |-> "idle", step |-> "idle", user |-> None, of |-> None]

Ops == {"register", "setup", "login", "refresh", "reset", "change"}

\* of: the token presented to refresh, the link presented to reset.
Calls ==
    [op : Ops, step : {"counted", "checked", "revoking", "issuing"},
     user : Users, of : Tokens \cup Links \cup {None}]

AuthTypeOK ==
    /\ account \in [Users -> Roles \cup {None}]
    /\ token \in [Tokens -> [owner : Users \cup {None}, live : BOOLEAN,
                             previous : Tokens \cup {None}]]
    /\ link \in [Links -> [owner : Users \cup {None}, uses : Nat]]
    /\ call \in [Requests -> Calls \cup {Idle}]
    /\ cut \subseteq Tokens \cup Requests

Init ==
    /\ account = [u \in Users |-> None]
    /\ token = [t \in Tokens |-> NoToken]
    /\ link = [l \in Links |-> NoLink]
    /\ call = [q \in Requests |-> Idle]
    /\ cut = {}

Begin(q, op, step, u, of) ==
    /\ call' = [call EXCEPT ![q] = [op |-> op, step |-> step, user |-> u, of |-> of]]
    /\ UNCHANGED <<tables, cut>>

At(q, op, step) == call[q].op = op /\ call[q].step = step

-----------------------------------------------------------------------------
(* Accounts: register, setupAdmin.                                         *)

\* No account with this address is found.
RegisterRead(q, u) ==
    /\ call[q] = Idle
    /\ account[u] = None
    /\ Begin(q, "register", "checked", u, None)

\* No administrator is found.
SetupCount(q, u) ==
    /\ call[q] = Idle
    /\ \A v \in Users : account[v] # "ADMIN"
    /\ Begin(q, "setup", "counted", u, None)

\* Then no account with this address is found.
SetupRead(q) ==
    /\ At(q, "setup", "counted")
    /\ account[call[q].user] = None
    /\ call' = [call EXCEPT ![q].step = "checked"]
    /\ UNCHANGED <<tables, cut>>

\* user.create: a unique index refuses a second account.
CreateAccount(q) ==
    LET u == call[q].user
    IN  /\ call[q].op \in {"register", "setup"} /\ call[q].step = "checked"
        /\ account[u] = None
        /\ account' = [account EXCEPT
               ![u] = IF call[q].op = "setup" THEN "ADMIN" ELSE "ACHETEUR"]
        /\ call' = [call EXCEPT ![q].step = "issuing"]
        /\ UNCHANGED <<token, link, cut>>

-----------------------------------------------------------------------------
(* Sessions.                                                               *)

\* The password is compared with the one read.
LoginCheck(q, u) ==
    /\ call[q] = Idle
    /\ account[u] # None
    /\ Begin(q, "login", "issuing", u, None)

FaultRefreshRead(q, t) ==
    /\ call[q] = Idle
    /\ token[t] # NoToken
    /\ Begin(q, "refresh", "checked", token[t].owner, t)

\* refresh reads the row of the token presented: it is to be rotated, or its
\* reuse revokes everything.
RefreshRead(q, t) ==
    /\ call[q] = Idle
    /\ token[t] # NoToken
    /\ Begin(q, "refresh", IF token[t].live THEN "checked" ELSE "revoking",
             token[t].owner, t)

\* The token is revoked, whatever it has become meanwhile.
Rotate(q) ==
    /\ At(q, "refresh", "checked")
    /\ token' = [token EXCEPT ![call[q].of].live = FALSE]
    /\ call' = [call EXCEPT ![q].step = "issuing"]
    /\ UNCHANGED <<account, link, cut>>

\* issueTokens: the row of a new token, chained to the one it replaces.
IssueToken(q, t) ==
    LET c    == call[q]
        from == IF c.op = "refresh" THEN c.of ELSE None
    IN  /\ c.step = "issuing"
        /\ token[t] = NoToken
        /\ token' = [token EXCEPT ![t] = [owner |-> c.user, live |-> TRUE, previous |-> from]]
        /\ call' = [call EXCEPT ![q] = Idle]
        /\ cut' = IF q \notin cut /\ from \in cut
                  THEN cut \cup {t} ELSE cut \ {q}
        /\ UNCHANGED <<account, link>>

\* logout revokes the token presented, if it is not revoked already.
Logout(t) ==
    /\ token[t].live
    /\ token' = [token EXCEPT ![t].live = FALSE]
    /\ UNCHANGED <<account, link, call, cut>>

FaultRevokeAll(u, q) ==
    /\ token' = token
    /\ cut' = (cut \cup {t \in Tokens : token[t].owner = u}
                   \cup {p \in Requests : call[p].user = u}) \ {q}

\* revokeAllUserTokens, at the end of request q if there is one.
RevokeAll(u, q) ==
    /\ token' = [t \in Tokens |->
           IF token[t].owner = u THEN [token[t] EXCEPT !.live = FALSE] ELSE token[t]]
    /\ cut' = (cut \cup {t \in Tokens : token[t].owner = u}
                   \cup {p \in Requests : call[p].user = u}) \ {q}

LogoutAll(u) ==
    /\ account[u] # None
    /\ RevokeAll(u, None)
    /\ UNCHANGED <<account, link, call>>

\* The reuse of a revoked token.
RevokeReused(q) ==
    /\ At(q, "refresh", "revoking")
    /\ RevokeAll(call[q].user, q)
    /\ call' = [call EXCEPT ![q] = Idle]
    /\ UNCHANGED <<account, link>>

-----------------------------------------------------------------------------
(* Passwords.                                                              *)

\* forgotPassword, or the creation of an account by the administration: one
\* more link, the earlier ones stay valid.
IssueLink(u, l) ==
    /\ account[u] # None
    /\ link[l] = NoLink
    /\ link' = [link EXCEPT ![l] = [owner |-> u, uses |-> 0]]
    /\ UNCHANGED <<account, token, call, cut>>

FaultResetRead(q, l) ==
    /\ call[q] = Idle
    /\ link[l] # NoLink
    /\ Begin(q, "reset", "checked", link[l].owner, l)

\* resetPassword: the link is unused when it is read.
ResetRead(q, l) ==
    /\ call[q] = Idle
    /\ link[l] # NoLink /\ link[l].uses = 0
    /\ Begin(q, "reset", "checked", link[l].owner, l)

ResetCommit(q) ==
    /\ At(q, "reset", "checked")
    /\ link' = [link EXCEPT ![call[q].of].uses = @ + 1]
    /\ RevokeAll(call[q].user, q)
    /\ call' = [call EXCEPT ![q] = Idle]
    /\ UNCHANGED account

\* changePassword: the current password is compared with the one read.
ChangeRead(q, u) ==
    /\ call[q] = Idle
    /\ account[u] # None
    /\ Begin(q, "change", "checked", u, None)

ChangeCommit(q) ==
    /\ At(q, "change", "checked")
    /\ RevokeAll(call[q].user, q)
    /\ call' = [call EXCEPT ![q] = Idle]
    /\ UNCHANGED <<account, link>>

\* The request dies, or is refused by the database.
Abort(q) ==
    /\ call[q] # Idle
    /\ call' = [call EXCEPT ![q] = Idle]
    /\ cut' = cut \ {q}
    /\ UNCHANGED tables

-----------------------------------------------------------------------------

Request(q) ==
    \/ \E u \in Users : RegisterRead(q, u) \/ SetupCount(q, u)
                            \/ LoginCheck(q, u) \/ ChangeRead(q, u)
    \/ \E t \in Tokens : RefreshRead(q, t) \/ IssueToken(q, t)
    \/ \E l \in Links : ResetRead(q, l)
    \/ SetupRead(q)
    \/ CreateAccount(q)
    \/ Rotate(q)
    \/ RevokeReused(q)
    \/ ResetCommit(q)
    \/ ChangeCommit(q)
    \/ Abort(q)

Next ==
    \/ \E q \in Requests : Request(q)
    \/ \E t \in Tokens : Logout(t)
    \/ \E u \in Users : LogoutAll(u)
    \/ \E u \in Users, l \in Links : IssueLink(u, l)

Spec == Init /\ [][Next]_vars

-----------------------------------------------------------------------------

\* A token that has a successor is revoked: the holder of a session has one
\* token that works, not two (refresh revokes the old row, then inserts).
ReplacedIsRevoked ==
    \A s \in Tokens : token[s].previous # None => ~token[token[s].previous].live

\* When all the sessions of a user are revoked (logout-all, reuse, new
\* password), none of the tokens there are, and none that replaces one of
\* them afterwards, ever works again; what works later was issued to a caller
\* checked later, or to a request that the revocation found in flight.
RevokedForGood ==
    \A t \in Tokens : token[t].live => t \notin cut

\* A session is split in two only by refreshes of one token that overlap: one
\* request at a time gives every token one successor (refresh checks
\* revokedAt, then revokes unconditionally).
Successors(t) == {s \in Tokens : token[s].previous = t}

Refreshing(t) ==
    {q \in Requests : /\ call[q].op = "refresh" /\ call[q].of = t
                      /\ call[q].step \in {"checked", "issuing"}}

SuccessorsNeedOverlap ==
    \A t \in Tokens :
        Cardinality(Successors(t)) + Cardinality(Refreshing(t)) <= Cardinality(Requests)

\* The set-up makes several administrators only if its requests overlap: "ne
\* fonctionne qu'une seule fois" for one request at a time (setupAdmin counts
\* the administrators, then creates one).
Admins == {u \in Users : account[u] = "ADMIN"}

SettingUp ==
    {q \in Requests : call[q].op = "setup" /\ call[q].step \in {"counted", "checked"}}

AdminsNeedOverlap ==
    Cardinality(Admins) + Cardinality(SettingUp) <= Cardinality(Requests)

\* A link changes the password several times only if its requests overlap:
\* "token à usage unique" for one request at a time (resetPassword reads
\* usedAt, then commits unconditionally).
Resetting(l) == {q \in Requests : call[q].op = "reset" /\ call[q].of = l}

LinkUsesNeedOverlap ==
    \A l \in Links : link[l].uses + Cardinality(Resetting(l)) <= Cardinality(Requests)

=============================================================================
