------------------------------ MODULE Accounts ------------------------------
(***************************************************************************)
(* Accounts and sessions (internal/auth).  Every request handler reads,    *)
(* decides and writes in separate statements, so two requests of one user, *)
(* or a request and the mail processor, interleave between them.  Store    *)
(* operations are those of the Postgres repository.                        *)
(*                                                                         *)
(* Passwords and provider subjects are model values; a token is its        *)
(* number, hashing is left out.  Time only matters where it runs out: a    *)
(* link expires, a lease lapses, a retry falls due.                        *)
(***************************************************************************)
EXTENDS Integers, FiniteSets

CONSTANTS
  Accounts,      \* ids of the accounts that may be created, all for one address
  Passwords,
  Subjects,      \* the address's identities with Google and Apple
  Clients,       \* requests being handled at the same time
  NoPassword,
  MaxVersion, MaxTokens, MaxServed, MaxFaults   \* bounds

ASSUME AccountsAssumption == NoPassword \notin Passwords /\ Passwords \cap Subjects = {}

VARIABLES
  users,        \* the users table
  identities,   \* identities[s]: the account a provider subject is linked to, as a set
  tokens,       \* the lifecycle token tables
  inbox,        \* links that reached the address
  outbox,       \* auth_email_outbox
  sessions,     \* every JWT issued, with what it was issued for
  calls,        \* requests in progress
  carrier,      \* the message being delivered, if any
  served,       \* requests taken so far
  failures

accountVars == <<users, identities, tokens, inbox, outbox, sessions, calls, carrier, served, failures>>

NoUser  == [exists |-> FALSE, password |-> NoPassword, verified |-> FALSE, version |-> 0, banned |-> FALSE]
NoCall  == [at |-> "idle", id |-> {}, user |-> NoUser, proof |-> {}, seen |-> {}]
NoToken == [kind |-> "none", id |-> {}, open |-> FALSE]
NoMail  == [status |-> "none", token |-> 0]

Request == served < MaxServed /\ served' = served + 1

AuthFault == failures < MaxFaults /\ failures' = failures + 1

Call(c, at, id, user, proof) ==
  calls' = [calls EXCEPT ![c] = [NoCall EXCEPT !.at = at, !.id = {id}, !.user = user, !.proof = proof]]

Return(c) == calls' = [calls EXCEPT ![c] = NoCall]

-----------------------------------------------------------------------------
(* The repository (postgres_repository.go, postgres_lifecycle.go) *)

\* Non-deleted users; the address is unique among them.
FindByEmail == {u \in Accounts : users[u].exists}

FindByID(u) == users[u].exists

FindIdentity(s) == identities[s]

Fresh == {u \in Accounts : users[u].version = 0}

\* The unique address makes the insert fail while another account has it.
Create(u, password, verified) ==
  /\ FindByEmail = {}
  /\ users' = [users EXCEPT ![u] = [NoUser EXCEPT !.exists = TRUE, !.password = password, !.verified = verified, !.version = 1]]

\* The account and its identity, in one transaction.
CreateProviderUser(u, s) ==
  /\ Create(u, NoPassword, TRUE)
  /\ identities[s] = {} /\ identities' = [identities EXCEPT ![s] = {u}]

UpdatePasswordAndRevoke(u, password) ==
  users' = [users EXCEPT ![u].password = password, ![u].version = @ + 1]

IncrementAuthVersion(u) == users' = [users EXCEPT ![u].version = @ + 1]

UnusedToken == CHOOSE t \in DOMAIN tokens : tokens[t].kind = "none"

TokensLeft == \E t \in DOMAIN tokens : tokens[t].kind = "none"

newLifecycleToken(u, kind) == [kind |-> kind, id |-> {u}, open |-> TRUE]

\* The open links of the account, as the first statement of the save sees them.
invalidates(u, kind) == {t \in DOMAIN tokens : tokens[t].kind = kind /\ tokens[t].id = {u} /\ tokens[t].open}

\* Those are spent and the new one inserted; a link another save inserted in
\* the meantime is not seen.
saveLifecycleToken(u, kind, seen) ==
  tokens' = [t \in DOMAIN tokens |->
               IF t = UnusedToken THEN newLifecycleToken(u, kind)
               ELSE IF t \in seen THEN [tokens[t] EXCEPT !.open = FALSE] ELSE tokens[t]]

Usable(t, kind) == tokens[t].kind = kind /\ tokens[t].open

\* Consumed in the same transaction as the account is updated.
VerifyEmailToken(t, u) ==
  /\ Usable(t, "verify") /\ tokens[t].id = {u} /\ FindByID(u)
  /\ tokens' = [tokens EXCEPT ![t].open = FALSE]
  /\ users' = [users EXCEPT ![u].verified = TRUE]

\* A reset also spends the account's other reset links.
ResetPasswordToken(t, u, password) ==
  /\ Usable(t, "reset") /\ tokens[t].id = {u} /\ FindByID(u) /\ users[u].password # NoPassword
  /\ tokens' = [x \in DOMAIN tokens |-> IF x \in invalidates(u, "reset") THEN [tokens[x] EXCEPT !.open = FALSE] ELSE tokens[x]]
  /\ UpdatePasswordAndRevoke(u, password)

ConsumeReauthenticationToken(t, u) ==
  /\ Usable(t, "reauth") /\ tokens[t].id = {u}
  /\ tokens' = [tokens EXCEPT ![t].open = FALSE]

\* Everything of the user goes with the row; an id is not used again.
DeleteRows(u) ==
  /\ users' = [users EXCEPT ![u] = [NoUser EXCEPT !.version = users[u].version]]
  /\ identities' = [s \in Subjects |-> identities[s] \ {u}]
  /\ tokens' = [t \in DOMAIN tokens |-> IF tokens[t].id = {u} THEN [tokens[t] EXCEPT !.open = FALSE] ELSE tokens[t]]
  /\ outbox' = [outbox EXCEPT ![u] = NoMail]

-----------------------------------------------------------------------------
(* Sessions (jwt.go, middleware.go) *)

Generate(u, version, proof) == [user |-> u, version |-> version, proof |-> proof]

\* The user is read again on every request.
RequireAuthWithUser(s) == FindByID(s.user) /\ s.version = users[s.user].version /\ ~users[s.user].banned

authenticated(u) == \E s \in sessions : s.user = u /\ RequireAuthWithUser(s)

issueFresh(c) ==
  /\ calls[c].at = "issue"
  /\ sessions' = sessions \cup {Generate(u, users[u].version, calls[c].proof) : u \in calls[c].id}
  /\ Return(c)
  /\ UNCHANGED <<users, identities, tokens, inbox, outbox, carrier, failures, served>>

\* The last step of every sign-in, for the user as it was read.
issue(c) ==
  /\ calls[c].at = "issue"
  /\ sessions' = IF calls[c].user.banned THEN sessions
                 ELSE sessions \cup {Generate(u, calls[c].user.version, calls[c].proof) : u \in calls[c].id}
  /\ Return(c)
  /\ UNCHANGED <<users, identities, tokens, inbox, outbox, carrier, failures, served>>

-----------------------------------------------------------------------------
(* Signing up and in with a password (service.go) *)

\* The account, its link and the mail that carries it, in one transaction.
Register(u, password) ==
  /\ u \in Fresh /\ TokensLeft
  /\ Create(u, password, FALSE)
  /\ saveLifecycleToken(u, "verify", {})
  /\ outbox' = [outbox EXCEPT ![u] = [status |-> "ready", token |-> UnusedToken]]
  /\ Request
  /\ UNCHANGED <<identities, inbox, sessions, calls, carrier, failures>>

Login(c, password) ==
  \E u \in FindByEmail :
    /\ calls[c].at = "idle"
    /\ users[u].password = password /\ users[u].verified
    /\ Call(c, "issue", u, users[u], {password})
    /\ Request
    /\ UNCHANGED <<users, identities, tokens, inbox, outbox, sessions, carrier, failures>>

VerifyEmail(c, t) ==
  \E u \in Accounts :
    /\ calls[c].at = "idle" /\ t \in inbox
    /\ VerifyEmailToken(t, u)
    /\ Call(c, "issue", u, users'[u], {})
    /\ Request
    /\ UNCHANGED <<identities, inbox, outbox, sessions, carrier, failures>>

\* ResendVerification and ForgotPassword: the account is read, then the link is
\* saved and mailed; nobody retries a mail that fails.
ResendVerification(c) ==
  \E u \in FindByEmail :
    /\ calls[c].at = "idle" /\ TokensLeft
    /\ users[u].password # NoPassword /\ ~users[u].verified
    /\ calls' = [calls EXCEPT ![c] = [NoCall EXCEPT !.at = "verify", !.id = {u}, !.seen = invalidates(u, "verify")]]
    /\ Request
    /\ UNCHANGED <<users, identities, tokens, inbox, outbox, sessions, carrier, failures>>

ForgotPassword(c) ==
  \E u \in FindByEmail :
    /\ calls[c].at = "idle" /\ TokensLeft
    /\ users[u].password # NoPassword
    /\ calls' = [calls EXCEPT ![c] = [NoCall EXCEPT !.at = "reset", !.id = {u}, !.seen = invalidates(u, "reset")]]
    /\ Request
    /\ UNCHANGED <<users, identities, tokens, inbox, outbox, sessions, carrier, failures>>

SendLink(c, sent) ==
  \E u \in calls[c].id :
    /\ calls[c].at \in {"verify", "reset"} /\ TokensLeft
    /\ IF FindByID(u) THEN saveLifecycleToken(u, calls[c].at, calls[c].seen) ELSE UNCHANGED tokens
    /\ inbox' = IF FindByID(u) /\ sent THEN inbox \cup {UnusedToken} ELSE inbox
    /\ IF sent THEN UNCHANGED failures ELSE AuthFault
    /\ Return(c)
    /\ UNCHANGED <<users, identities, outbox, sessions, carrier, served>>

ResetPassword(t, password) ==
  \E u \in Accounts :
    /\ t \in inbox /\ users[u].version < MaxVersion
    /\ ResetPasswordToken(t, u, password)
    /\ Request
    /\ UNCHANGED <<identities, inbox, outbox, sessions, calls, carrier, failures>>

\* The current password is checked on one read, the new one written later.
ChangePassword(c, current, password) ==
  \E u \in FindByEmail :
    /\ calls[c].at = "idle" /\ authenticated(u)
    /\ users[u].password = current /\ current # NoPassword /\ current # password
    /\ Call(c, "change", u, users[u], {password})
    /\ Request
    /\ UNCHANGED <<users, identities, tokens, inbox, outbox, sessions, carrier, failures>>

\* The caller keeps a session for the version it wrote.
applyPassword(c) ==
  \E u \in calls[c].id, password \in calls[c].proof :
    /\ calls[c].at = "change"
    /\ IF FindByID(u)
       THEN /\ users[u].version < MaxVersion
            /\ UpdatePasswordAndRevoke(u, password)
            /\ sessions' = sessions \cup {Generate(u, users'[u].version, {password})}
       ELSE UNCHANGED <<users, sessions>>
    /\ Return(c)
    /\ UNCHANGED <<identities, tokens, inbox, outbox, carrier, failures, served>>

RevokeSessions ==
  \E u \in FindByEmail :
    /\ authenticated(u) /\ users[u].version < MaxVersion
    /\ IncrementAuthVersion(u)
    /\ Request
    /\ UNCHANGED <<identities, tokens, inbox, outbox, sessions, calls, carrier, failures>>

-----------------------------------------------------------------------------
(* Providers *)

\* A linked subject signs its account in, an unlinked one looks for the address.
loginWithProviderClaims(c, s) ==
  /\ calls[c].at = "idle"
  /\ IF FindIdentity(s) # {}
     THEN \E u \in FindIdentity(s) : Call(c, "issue", u, users[u], {s})
     ELSE \/ \E u \in FindByEmail : Call(c, "link", u, users[u], {s})
          \/ FindByEmail = {} /\ calls' = [calls EXCEPT ![c] = [NoCall EXCEPT !.at = "signup", !.proof = {s}]]
  /\ Request
  /\ UNCHANGED <<users, identities, tokens, inbox, outbox, sessions, carrier, failures>>

\* A link that exists already is accepted; for a user who is gone the insert
\* fails.
CreateIdentity(c) ==
  \E u \in calls[c].id, s \in calls[c].proof :
    /\ calls[c].at = "link"
    /\ IF identities[s] # {} THEN Call(c, "issue", u, calls[c].user, {s}) /\ UNCHANGED identities
       ELSE IF FindByID(u)
       THEN Call(c, "issue", u, calls[c].user, {s}) /\ identities' = [identities EXCEPT ![s] = {u}]
       ELSE Return(c) /\ UNCHANGED identities
    /\ UNCHANGED <<users, tokens, inbox, outbox, sessions, carrier, failures, served>>

registerProviderUser(c, u) ==
  \E s \in calls[c].proof :
    /\ calls[c].at = "signup"
    /\ IF FindByEmail = {} /\ identities[s] = {}
       THEN u \in Fresh /\ CreateProviderUser(u, s) /\ Call(c, "issue", u, users'[u], {s})
       ELSE Return(c) /\ UNCHANGED <<users, identities>>
    /\ UNCHANGED <<tokens, inbox, outbox, sessions, carrier, failures, served>>

-----------------------------------------------------------------------------
(* Reauthentication, a first password and deletion *)

\* By password or by a provider identity linked to this account; older tokens
\* stay valid.
Reauthenticate(u) ==
  /\ FindByID(u) /\ authenticated(u) /\ TokensLeft
  /\ users[u].password # NoPassword \/ \E s \in Subjects : identities[s] = {u}
  /\ saveLifecycleToken(u, "reauth", {})
  /\ Request
  /\ UNCHANGED <<users, identities, inbox, outbox, sessions, calls, carrier, failures>>

SetFirstPassword(c, t, password) ==
  \E u \in FindByEmail :
    /\ calls[c].at = "idle" /\ authenticated(u)
    /\ users[u].password = NoPassword
    /\ ConsumeReauthenticationToken(t, u)
    /\ Call(c, "change", u, users[u], {password})
    /\ Request
    /\ UNCHANGED <<users, identities, inbox, outbox, sessions, carrier, failures>>

\* The token is spent before the erasures; one that fails ends the request.
DeleteAccount(c, t) ==
  \E u \in FindByEmail :
    /\ calls[c].at = "idle" /\ authenticated(u)
    /\ ConsumeReauthenticationToken(t, u)
    /\ Call(c, "erase", u, users[u], {})
    /\ Request
    /\ UNCHANGED <<users, identities, inbox, outbox, sessions, carrier, failures>>

eraseAccount(c, erased) ==
  \E u \in calls[c].id :
    /\ calls[c].at = "erase"
    /\ IF erased /\ FindByID(u) THEN DeleteRows(u) /\ UNCHANGED failures
       ELSE UNCHANGED <<users, identities, tokens, outbox>> /\ IF erased THEN UNCHANGED failures ELSE AuthFault
    /\ Return(c)
    /\ UNCHANGED <<inbox, sessions, carrier, served>>

\* A moderator bans the account; nothing lifts a ban.
Ban(u) ==
  /\ FindByID(u) /\ ~users[u].banned
  /\ users' = [users EXCEPT ![u].banned = TRUE]
  /\ Request
  /\ UNCHANGED <<identities, tokens, inbox, outbox, sessions, calls, carrier, failures>>

-----------------------------------------------------------------------------
(* The registration mail (email_outbox.go) *)

claimableNeverLapsed(u) == outbox[u].status = "ready"

\* Undelivered, due, and not leased to anyone.
claimable(u) == outbox[u].status \in {"ready", "lapsed"}

ClaimEmailOutbox(u) ==
  /\ carrier = {} /\ claimable(u)
  /\ outbox' = [outbox EXCEPT ![u].status = "claimed"]
  /\ carrier' = {[id |-> u, token |-> outbox[u].token, at |-> "send"]}
  /\ UNCHANGED <<users, identities, tokens, inbox, sessions, calls, failures, served>>

deliverClaimedEmail(sent) ==
  \E m \in carrier :
    /\ m.at = "send"
    /\ carrier' = {[m EXCEPT !.at = IF sent THEN "sent" ELSE "failed"]}
    /\ inbox' = IF sent THEN inbox \cup {m.token} ELSE inbox
    /\ IF sent THEN UNCHANGED failures ELSE AuthFault
    /\ UNCHANGED <<users, identities, tokens, outbox, sessions, calls, served>>

\* Both updates leave a delivered or vanished message alone.
MarkEmailOutbox ==
  \E m \in carrier :
    /\ m.at # "send" /\ carrier' = {}
    /\ outbox' = IF outbox[m.id].status \in {"none", "delivered"} THEN outbox
                 ELSE [outbox EXCEPT ![m.id].status = IF m.at = "sent" THEN "delivered" ELSE "waiting"]
    /\ UNCHANGED <<users, identities, tokens, inbox, sessions, calls, failures, served>>

ProcessEmailOutboxOnce == (\E u \in Accounts : ClaimEmailOutbox(u)) \/ deliverClaimedEmail(TRUE) \/ MarkEmailOutbox

\* Time passes: a lease runs out, a retry falls due, a link expires.
mailTimePasses(u) ==
  /\ outbox[u].status \in {"claimed", "waiting"}
  /\ outbox' = [outbox EXCEPT ![u].status = IF @ = "claimed" THEN "lapsed" ELSE "ready"]
  /\ UNCHANGED <<users, identities, tokens, inbox, sessions, calls, carrier, failures, served>>

linkExpires(t) ==
  /\ tokens[t].open /\ tokens' = [tokens EXCEPT ![t].open = FALSE]
  /\ UNCHANGED <<users, identities, inbox, outbox, sessions, calls, carrier, failures, served>>

\* The process dies with its requests and its delivery.
authCrash ==
  /\ AuthFault /\ carrier' = {} /\ calls' = [c \in Clients |-> NoCall]
  /\ UNCHANGED <<users, identities, tokens, inbox, outbox, sessions, served>>

-----------------------------------------------------------------------------

AccountsInit ==
  /\ users = [u \in Accounts |-> NoUser] /\ identities = [s \in Subjects |-> {}]
  /\ tokens = [t \in 1..MaxTokens |-> NoToken] /\ inbox = {} /\ outbox = [u \in Accounts |-> NoMail]
  /\ sessions = {} /\ calls = [c \in Clients |-> NoCall] /\ carrier = {} /\ served = 0 /\ failures = 0

AccountsNext ==
  \/ ProcessEmailOutboxOnce \/ deliverClaimedEmail(FALSE) \/ authCrash \/ RevokeSessions
  \/ \E u \in Accounts : Reauthenticate(u) \/ Ban(u) \/ mailTimePasses(u) \/ \E p \in Passwords : Register(u, p)
  \/ \E t \in DOMAIN tokens : linkExpires(t) \/ \E p \in Passwords : ResetPassword(t, p)
  \/ \E c \in Clients :
       \/ issue(c) \/ applyPassword(c) \/ ResendVerification(c) \/ ForgotPassword(c) \/ CreateIdentity(c)
       \/ \E ok \in BOOLEAN : SendLink(c, ok) \/ eraseAccount(c, ok)
       \/ \E s \in Subjects : loginWithProviderClaims(c, s)
       \/ \E u \in Accounts : registerProviderUser(c, u)
       \/ \E p \in Passwords : Login(c, p) \/ \E q \in Passwords : ChangePassword(c, p, q)
       \/ \E t \in DOMAIN tokens : VerifyEmail(c, t) \/ DeleteAccount(c, t) \/ \E p \in Passwords : SetFirstPassword(c, t, p)

\* The processor runs every few seconds for as long as the process does.
AccountsSpec ==
  /\ AccountsInit /\ [][AccountsNext]_accountVars
  /\ WF_accountVars(ProcessEmailOutboxOnce)
  /\ \A u \in Accounts : WF_accountVars(mailTimePasses(u))

-----------------------------------------------------------------------------
(* Properties *)

\* "increments auth_version so all existing JWTs are invalidated": a session
\* that is still accepted was obtained with a credential the account still has,
\* the password it has now or a provider identity that is linked to it, although
\* sign-ins, changes, resets, links and deletions overlap between statements.
SessionsFollowCredentials ==
  \A s \in sessions : RequireAuthWithUser(s) =>
    /\ s.proof \cap Passwords # {} => s.proof = {users[s.user].password}
    /\ \A x \in s.proof \cap Subjects : identities[x] = {s.user}

\* "the durable outbox retains the message and the mandatory processor retries
\* it": the mail of every registration is delivered unless the account goes,
\* across failed sends, crashes and leases.
RegistrationMailArrives ==
  \A u \in Accounts : outbox[u].status # "none" ~> outbox[u].status \in {"delivered", "none"}
=============================================================================
