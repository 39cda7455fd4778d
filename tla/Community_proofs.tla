--------------------------- MODULE Community_proofs ---------------------------
(***************************************************************************)
(* Safety of accounts and of the community, for any number of people,      *)
(* requests, replicas, reports and moderators.                             *)
(*                                                                         *)
(* Accounts: sessions follow credentials.  A version of an account has one *)
(* password, because only statements that raise the version write it; and  *)
(* an identity stays with its account as long as the account exists.  So   *)
(* it is enough that what a sign-in carries from its read to its session   *)
(* is a version that the account had (Genuine), however stale it is.       *)
(*                                                                         *)
(* Community: the advisory locks exclude (LockInv): a follow about to be   *)
(* inserted has no block next to it (FollowInv), and a message about to be *)
(* written is still within its budgets (BudgetInv).  The mutexes of pairlock are not  *)
(* needed for either.  A report's references name live rows (ReferenceInv) *)
(* and ids are unique (IdsInv), so what a resolution did to its message    *)
(* and its account stays done (AuditInv).                                  *)
(***************************************************************************)
EXTENDS Accounts, Moderation, FiniteSetTheorems, TLAPS

-----------------------------------------------------------------------------
(* Accounts: the invariant *)

Credentials == Passwords \cup Subjects

UserRecord ==
  [exists : BOOLEAN, password : Passwords \cup {NoPassword}, verified : BOOLEAN, version : Nat, banned : BOOLEAN]

CallRecord ==
  [at : {"idle", "issue", "verify", "reset", "change", "link", "signup", "erase"}, id : SUBSET Accounts,
   user : UserRecord, proof : SUBSET Credentials, seen : SUBSET (1..MaxTokens)]

SessionRecord == [user : Accounts, version : Nat, proof : SUBSET Credentials]

AccountTypes ==
  /\ users \in [Accounts -> UserRecord] /\ identities \in [Subjects -> SUBSET Accounts]
  /\ calls \in [Clients -> CallRecord] /\ sessions \subseteq SessionRecord
  /\ DOMAIN tokens = 1..MaxTokens

\* One account has the address, an account that exists has been created, and
\* identities lead to accounts that exist.
AddressInv ==
  /\ \A u, v \in FindByEmail : u = v
  /\ \A u \in FindByEmail : users[u].version >= 1
  /\ \A s \in Subjects : identities[s] \subseteq FindByEmail

\* The account had this version, and if it still has, the proof is good.
Genuine(u, version, proof) ==
  /\ version >= 1 /\ version <= users[u].version
  /\ users[u].exists /\ users[u].version = version =>
       /\ proof \cap Passwords # {} => proof = {users[u].password}
       /\ \A x \in proof \cap Subjects : identities[x] = {u}

SessionInv == \A s \in sessions : Genuine(s.user, s.version, s.proof)

\* What a request in progress carries.
CallInv(c) ==
  /\ calls[c].at = "issue" => \A u \in calls[c].id : Genuine(u, calls[c].user.version, calls[c].proof)
  /\ calls[c].at = "link" =>
       /\ calls[c].proof \subseteq Subjects
       /\ \A u \in calls[c].id : calls[c].user.version >= 1 /\ calls[c].user.version <= users[u].version
  /\ calls[c].at = "signup" => calls[c].proof \subseteq Subjects
  /\ calls[c].at = "change" => calls[c].proof \subseteq Passwords

AccountsInv == AccountTypes /\ AddressInv /\ SessionInv /\ \A c \in Clients : CallInv(c)

-----------------------------------------------------------------------------
(* Lemmas *)

\* What a statement may do to the accounts: a version keeps its password, and an
\* account that stays keeps its identities.
Lawful(u) ==
  /\ users'[u].version >= users[u].version
  /\ users'[u].version = users[u].version /\ users'[u].exists =>
       /\ users[u].exists /\ users'[u].password = users[u].password
       /\ \A x \in Subjects : identities[x] = {u} => identities'[x] = {u}

\* After a lawful statement what was genuine is genuine.
LEMMA GenuineStays ==
  ASSUME NEW u \in Accounts, NEW version \in Nat, NEW proof, Genuine(u, version, proof), Lawful(u),
         users \in [Accounts -> UserRecord], users' \in [Accounts -> UserRecord]
  PROVE  Genuine(u, version, proof)'
<1>1. users[u].version \in Nat /\ users'[u].version \in Nat
  BY DEF UserRecord
<1> QED
  BY <1>1 DEF Genuine, Lawful

\* A lawful statement keeps the sessions and the calls it does not touch.
LEMMA LawfulKeeps ==
  ASSUME AccountsInv, users' \in [Accounts -> UserRecord], \A u \in Accounts : Lawful(u)
  PROVE  /\ \A s \in sessions : Genuine(s.user, s.version, s.proof)'
         /\ \A c \in Clients : calls'[c] = calls[c] => CallInv(c)'
<1>1. ASSUME NEW s \in sessions
      PROVE  Genuine(s.user, s.version, s.proof)'
  <2>1. s.user \in Accounts /\ s.version \in Nat /\ Genuine(s.user, s.version, s.proof)
    BY DEF AccountsInv, AccountTypes, SessionRecord, SessionInv
  <2> QED
    BY <2>1, GenuineStays DEF AccountsInv, AccountTypes
<1>2. ASSUME NEW c \in Clients, calls'[c] = calls[c]
      PROVE  CallInv(c)'
  <2>1. calls[c].id \subseteq Accounts /\ calls[c].user.version \in Nat /\ calls[c].proof \in SUBSET Credentials
    BY DEF AccountsInv, AccountTypes, CallRecord, UserRecord
  <2>2. calls[c].at = "issue" =>
          \A u \in calls[c].id : Genuine(u, calls[c].user.version, calls[c].proof)'
    <3> SUFFICES ASSUME calls[c].at = "issue", NEW u \in calls[c].id
                 PROVE  Genuine(u, calls[c].user.version, calls[c].proof)'
      OBVIOUS
    <3>1. Genuine(u, calls[c].user.version, calls[c].proof)
      BY DEF AccountsInv, CallInv
    <3>2. \A version \in Nat, proof \in SUBSET Credentials : Genuine(u, version, proof) => Genuine(u, version, proof)'
      BY <2>1, GenuineStays DEF AccountsInv, AccountTypes
    <3> QED
      BY <1>2, <2>1, <3>1, <3>2
  <2>3. calls[c].at = "link" => \A u \in calls[c].id : calls[c].user.version <= users'[u].version
    BY <2>1 DEF AccountsInv, CallInv, AccountTypes, UserRecord, Lawful
  <2> QED
    BY <1>2, <2>2, <2>3 DEF AccountsInv, CallInv, Genuine
<1> QED
  BY <1>1, <1>2

-----------------------------------------------------------------------------
(* The steps *)

\* Nothing happens to accounts and identities: what is genuine stays so.
LEMMA UntouchedIsLawful ==
  ASSUME AccountsInv, users' = users, identities' = identities
  PROVE  \A u \in Accounts : Lawful(u)
BY DEF AccountsInv, AccountTypes, UserRecord, Lawful

\* A request that is answered, or read into a call that carries no credential.
HarmlessCall(call) == call.at \in {"idle", "verify", "reset", "erase"}

\* Before any account is registered.
LEMMA AccountsInitInv ==
  ASSUME AccountsInit
  PROVE  AccountsInv
<1>1. NoUser \in UserRecord
  BY DEF NoUser, UserRecord
<1>2. NoCall \in CallRecord /\ NoCall.at = "idle"
  BY <1>1 DEF NoCall, CallRecord
<1>3. AccountTypes
  BY <1>1, <1>2 DEF AccountsInit, AccountTypes
<1>4. \A u \in Accounts : ~users[u].exists
  BY DEF AccountsInit, NoUser
<1>5. AddressInv
  BY <1>4 DEF AccountsInit, AddressInv, FindByEmail
<1> QED
  BY <1>2, <1>3, <1>5 DEF AccountsInit, AccountsInv, SessionInv, CallInv

\* Tokens, mail, throttles and clocks: no account, identity or session changes,
\* and calls end or carry no credential.
LEMMA QuietInv ==
  ASSUME AccountsInv, users' = users, identities' = identities, sessions' = sessions, DOMAIN tokens' = 1..MaxTokens,
         calls' \in [Clients -> CallRecord],
         \A c \in Clients : calls'[c] = calls[c] \/ HarmlessCall(calls'[c])
  PROVE  AccountsInv'
<1>1. AccountTypes' /\ AddressInv'
  BY DEF AccountsInv, AccountTypes, AddressInv, FindByEmail
<1>2. /\ \A s \in sessions : Genuine(s.user, s.version, s.proof)'
      /\ \A c \in Clients : calls'[c] = calls[c] => CallInv(c)'
  BY UntouchedIsLawful, LawfulKeeps DEF AccountsInv, AccountTypes
<1>3. \A c \in Clients : HarmlessCall(calls'[c]) => CallInv(c)'
  BY DEF HarmlessCall, CallInv
<1> QED
  BY <1>1, <1>2, <1>3 DEF AccountsInv, SessionInv

\* The same for a statement that changes accounts lawfully and whose new
\* sessions and calls are good.
LEMMA LawfulInv ==
  ASSUME AccountsInv, \A u \in Accounts : Lawful(u), AccountTypes', AddressInv',
         \A s \in sessions' \ sessions : Genuine(s.user, s.version, s.proof)',
         \A c \in Clients : calls'[c] = calls[c] \/ CallInv(c)'
  PROVE  AccountsInv'
<1>1. /\ \A s \in sessions : Genuine(s.user, s.version, s.proof)'
      /\ \A c \in Clients : calls'[c] = calls[c] => CallInv(c)'
  BY LawfulKeeps DEF AccountsInv, AccountTypes
<1> QED
  BY <1>1 DEF AccountsInv, SessionInv

\* A call record built by a handler has the types of one.
LEMMA CallTyped ==
  ASSUME AccountsInv, NEW c \in Clients, NEW u \in Accounts, NEW user \in UserRecord, NEW proof \in SUBSET Credentials,
         NEW at \in {"issue", "change", "link", "erase"}, Call(c, at, u, user, proof)
  PROVE  /\ calls' \in [Clients -> CallRecord]
         /\ calls'[c].at = at /\ calls'[c].id = {u} /\ calls'[c].user = user /\ calls'[c].proof = proof
         /\ \A d \in Clients \ {c} : calls'[d] = calls[d]
<1>1. NoCall \in CallRecord
  BY DEF NoCall, CallRecord, NoUser, UserRecord
<1> DEFINE call == [NoCall EXCEPT !.at = at, !.id = {u}, !.user = user, !.proof = proof]
<1>2. call \in CallRecord /\ call.at = at /\ call.id = {u} /\ call.user = user /\ call.proof = proof
  BY <1>1 DEF CallRecord
<1>3. calls' = [calls EXCEPT ![c] = call]
  BY DEF Call
<1> HIDE DEF call
<1> QED
  BY <1>2, <1>3 DEF AccountsInv, AccountTypes

\* So has an ended one.
LEMMA ReturnTyped ==
  ASSUME AccountsInv, NEW c \in Clients, Return(c)
  PROVE  /\ calls' \in [Clients -> CallRecord] /\ calls'[c] = NoCall /\ NoCall.at = "idle"
         /\ \A d \in Clients \ {c} : calls'[d] = calls[d]
<1>1. NoCall \in CallRecord /\ NoCall.at = "idle"
  BY DEF NoCall, CallRecord, NoUser, UserRecord
<1> QED
  BY <1>1 DEF Return, AccountsInv, AccountTypes

\* Every sign-in carries the version it read.
LEMMA FreshRead ==
  ASSUME AccountsInv, NEW u \in FindByEmail, NEW proof,
         proof \cap Passwords # {} => proof = {users[u].password},
         \A x \in proof \cap Subjects : identities[x] = {u}
  PROVE  Genuine(u, users[u].version, proof)
BY DEF AccountsInv, AccountTypes, UserRecord, AddressInv, FindByEmail, Genuine

\* The links: the domain of the tokens stays.
LEMMA TokensKept ==
  ASSUME AccountsInv, NEW u, NEW kind, NEW seen, saveLifecycleToken(u, kind, seen)
  PROVE  DOMAIN tokens' = 1..MaxTokens
BY DEF saveLifecycleToken, AccountsInv, AccountTypes

\* Mail is claimed, sent and marked; links expire; a lease or a wait runs out.
LEMMA MailInv ==
  ASSUME AccountsInv,
         \/ \E u \in Accounts : ClaimEmailOutbox(u) \/ mailTimePasses(u) \/ Reauthenticate(u)
         \/ \E sent \in BOOLEAN : deliverClaimedEmail(sent)
         \/ \E t \in DOMAIN tokens : linkExpires(t)
         \/ MarkEmailOutbox \/ UNCHANGED accountVars
  PROVE  AccountsInv'
<1>1. DOMAIN tokens' = 1..MaxTokens
  BY TokensKept DEF ClaimEmailOutbox, mailTimePasses, Reauthenticate, deliverClaimedEmail, linkExpires, MarkEmailOutbox,
     accountVars, AccountsInv, AccountTypes
<1>2. users' = users /\ identities' = identities /\ sessions' = sessions /\ calls' = calls
  BY DEF ClaimEmailOutbox, mailTimePasses, Reauthenticate, deliverClaimedEmail, linkExpires, MarkEmailOutbox,
     accountVars
<1> QED
  BY <1>1, <1>2, QuietInv DEF AccountsInv, AccountTypes

\* A crash ends every request.
LEMMA AuthCrashInv ==
  ASSUME AccountsInv, authCrash
  PROVE  AccountsInv'
<1>1. NoCall \in CallRecord /\ HarmlessCall(NoCall)
  BY DEF NoCall, CallRecord, NoUser, UserRecord, HarmlessCall
<1> QED
  BY <1>1, QuietInv DEF authCrash, AccountsInv, AccountTypes

\* A request for a link, and its answer.
LEMMA LinkInv ==
  ASSUME AccountsInv, NEW c \in Clients,
         ResendVerification(c) \/ ForgotPassword(c) \/ \E sent \in BOOLEAN : SendLink(c, sent)
  PROVE  AccountsInv'
<1>1. NoCall \in CallRecord /\ NoCall.at = "idle"
  BY DEF NoCall, CallRecord, NoUser, UserRecord
<1>2. ASSUME NEW u \in Accounts, NEW kind \in {"verify", "reset"}, users' = users, identities' = identities,
             sessions' = sessions, tokens' = tokens,
             calls' = [calls EXCEPT ![c] = [NoCall EXCEPT !.at = kind, !.id = {u}, !.seen = invalidates(u, kind)]]
      PROVE  AccountsInv'
  <2> DEFINE call == [NoCall EXCEPT !.at = kind, !.id = {u}, !.seen = invalidates(u, kind)]
  <2>1. invalidates(u, kind) \in SUBSET (1..MaxTokens)
    BY DEF invalidates, AccountsInv, AccountTypes
  <2>2. call \in CallRecord /\ call.at = kind
    BY <1>1, <2>1 DEF CallRecord
  <2>3. HarmlessCall(call)
    BY <2>2 DEF HarmlessCall
  <2> HIDE DEF call
  <2>4. calls' = [calls EXCEPT ![c] = call]
    BY <1>2 DEF call
  <2> QED
    BY <1>2, <2>2, <2>3, <2>4, QuietInv DEF AccountsInv, AccountTypes
<1>3. CASE ResendVerification(c)
  BY <1>2, <1>3 DEF ResendVerification, FindByEmail
<1>4. CASE ForgotPassword(c)
  BY <1>2, <1>4 DEF ForgotPassword, FindByEmail
<1>5. ASSUME NEW sent \in BOOLEAN, SendLink(c, sent)
      PROVE  AccountsInv'
  <2>1. DOMAIN tokens' = 1..MaxTokens
    BY <1>5, TokensKept DEF SendLink, AccountsInv, AccountTypes
  <2>2. users' = users /\ identities' = identities /\ sessions' = sessions /\ Return(c)
    BY <1>5 DEF SendLink
  <2>3. HarmlessCall(NoCall)
    BY <1>1 DEF HarmlessCall
  <2> QED
    BY <2>1, <2>2, <2>3, ReturnTyped, QuietInv
<1> QED
  BY <1>3, <1>4, <1>5

\* The statements on one account.
LEMMA OneAccountTyped ==
  ASSUME AccountsInv, NEW u \in Accounts, NEW row \in UserRecord, users' = [users EXCEPT ![u] = row],
         row.version >= users[u].version,
         row.version = users[u].version /\ row.exists => users[u].exists /\ row.password = users[u].password,
         \A v \in Accounts \ {u} : \A x \in Subjects : identities[x] = {v} => identities'[x] = {v},
         row.exists => \A x \in Subjects : identities[x] = {u} => identities'[x] = {u}
  PROVE  users' \in [Accounts -> UserRecord] /\ \A v \in Accounts : Lawful(v)
<1>1. users' \in [Accounts -> UserRecord] /\ users'[u] = row /\ \A v \in Accounts \ {u} : users'[v] = users[v]
  BY DEF AccountsInv, AccountTypes
<1>2. \A v \in Accounts : users[v].version \in Nat
  BY DEF AccountsInv, AccountTypes, UserRecord
<1>3. ASSUME NEW v \in Accounts \ {u}
      PROVE  Lawful(v)
  BY <1>1, <1>2, <1>3 DEF Lawful
<1>4. Lawful(u)
  BY <1>1 DEF Lawful
<1> QED
  BY <1>1, <1>3, <1>4

\* A handler reads the user and goes on: the call carries what it read, good
\* for its next statement.
LEMMA ReadInv ==
  ASSUME AccountsInv, users' = users, identities' = identities, sessions' = sessions, DOMAIN tokens' = 1..MaxTokens,
         NEW c \in Clients, NEW u \in Accounts, NEW user \in UserRecord, NEW proof \in SUBSET Credentials,
         NEW at \in {"issue", "change", "link", "erase"}, Call(c, at, u, user, proof),
         at = "issue" => Genuine(u, user.version, proof),
         at = "link" => proof \subseteq Subjects /\ user.version >= 1 /\ user.version <= users[u].version,
         at = "change" => proof \subseteq Passwords
  PROVE  AccountsInv'
<1>1. /\ calls' \in [Clients -> CallRecord]
      /\ calls'[c].at = at /\ calls'[c].id = {u} /\ calls'[c].user = user /\ calls'[c].proof = proof
      /\ \A d \in Clients \ {c} : calls'[d] = calls[d]
  BY CallTyped
<1>2. AccountTypes' /\ AddressInv'
  BY <1>1 DEF AccountsInv, AccountTypes, AddressInv, FindByEmail
<1>3. CallInv(c)'
  BY <1>1 DEF CallInv, Genuine
<1> QED
  BY <1>1, <1>2, <1>3, UntouchedIsLawful, LawfulInv

\* The password that was read is the account's.
LEMMA LoginInv ==
  ASSUME AccountsInv, NEW c \in Clients, NEW password \in Passwords, Login(c, password)
  PROVE  AccountsInv'
<1>1. PICK u \in FindByEmail : users[u].password = password /\ Call(c, "issue", u, users[u], {password})
  BY DEF Login
<1>2. u \in Accounts /\ users[u] \in UserRecord /\ {password} \in SUBSET Credentials /\ {password} \cap Subjects = {}
  BY <1>1, AccountsAssumption DEF FindByEmail, AccountsInv, AccountTypes, Credentials
<1>3. Genuine(u, users[u].version, {password})
  BY <1>1, <1>2, FreshRead
<1>4. users' = users /\ identities' = identities /\ sessions' = sessions /\ tokens' = tokens
  BY DEF Login
<1>5. DOMAIN tokens' = 1..MaxTokens
  BY <1>4 DEF AccountsInv, AccountTypes
<1> QED
  BY <1>1, <1>2, <1>3, <1>4, <1>5, ReadInv

\* A change of password, a first password and a deletion begin with a read.
LEMMA BeginInv ==
  ASSUME AccountsInv, NEW c \in Clients,
         \/ \E p, q \in Passwords : ChangePassword(c, p, q)
         \/ \E t \in DOMAIN tokens, p \in Passwords : SetFirstPassword(c, t, p)
         \/ \E t \in DOMAIN tokens : DeleteAccount(c, t)
  PROVE  AccountsInv'
<1>1. PICK u \in FindByEmail :
        (\E p \in Passwords : Call(c, "change", u, users[u], {p})) \/ Call(c, "erase", u, users[u], {})
  BY DEF ChangePassword, SetFirstPassword, DeleteAccount
<1>2. u \in Accounts /\ users[u] \in UserRecord
  BY <1>1 DEF FindByEmail, AccountsInv, AccountTypes
<1>3. users' = users /\ identities' = identities /\ sessions' = sessions /\ DOMAIN tokens' = 1..MaxTokens
  BY DEF ChangePassword, SetFirstPassword, DeleteAccount, ConsumeReauthenticationToken, AccountsInv, AccountTypes
<1>4. ASSUME NEW p \in Passwords, Call(c, "change", u, users[u], {p})
      PROVE  AccountsInv'
  <2>1. {p} \in SUBSET Credentials
    BY DEF Credentials
  <2> QED
    BY <1>2, <1>3, <1>4, <2>1, ReadInv
<1>5. ASSUME Call(c, "erase", u, users[u], {})
      PROVE  AccountsInv'
  <2>1. {} \in SUBSET Credentials
    OBVIOUS
  <2> QED
    BY <1>2, <1>3, <1>5, <2>1, ReadInv
<1> QED
  BY <1>1, <1>4, <1>5

\* The subject that was read is linked to the account that has the address.
LEMMA ProviderInv ==
  ASSUME AccountsInv, NEW c \in Clients, NEW s \in Subjects, loginWithProviderClaims(c, s)
  PROVE  AccountsInv'
<1>1. users' = users /\ identities' = identities /\ sessions' = sessions /\ tokens' = tokens
  BY DEF loginWithProviderClaims
<1>2. {s} \in SUBSET Credentials /\ {s} \cap Passwords = {} /\ DOMAIN tokens' = 1..MaxTokens
  BY <1>1, AccountsAssumption DEF Credentials, AccountsInv, AccountTypes
<1>3. \A u \in FindByEmail : u \in Accounts /\ users[u] \in UserRecord /\ users[u].version \in Nat /\ users[u].version >= 1
  BY DEF FindByEmail, AccountsInv, AccountTypes, AddressInv, UserRecord
<1>4. ASSUME NEW u \in FindIdentity(s), Call(c, "issue", u, users[u], {s})
      PROVE  AccountsInv'
  <2>1. u \in FindByEmail /\ identities[s] = {u}
    BY <1>4 DEF FindIdentity, AccountsInv, AddressInv
  <2>2. Genuine(u, users[u].version, {s})
    BY <1>2, <2>1, FreshRead
  <2> QED
    BY <1>1, <1>2, <1>3, <1>4, <2>1, <2>2, ReadInv
<1>5. ASSUME NEW u \in FindByEmail, Call(c, "link", u, users[u], {s})
      PROVE  AccountsInv'
  BY <1>1, <1>2, <1>3, <1>5, ReadInv
<1>6. ASSUME calls' = [calls EXCEPT ![c] = [NoCall EXCEPT !.at = "signup", !.proof = {s}]]
      PROVE  AccountsInv'
  <2> DEFINE call == [NoCall EXCEPT !.at = "signup", !.proof = {s}]
  <2>1. NoCall \in CallRecord
    BY DEF NoCall, CallRecord, NoUser, UserRecord
  <2>2. call \in CallRecord /\ call.at = "signup" /\ call.proof = {s}
    BY <1>2, <2>1 DEF CallRecord
  <2> HIDE DEF call
  <2>3. calls' = [calls EXCEPT ![c] = call]
    BY <1>6 DEF call
  <2>4. calls' \in [Clients -> CallRecord] /\ calls'[c] = call /\ \A d \in Clients \ {c} : calls'[d] = calls[d]
    BY <2>2, <2>3 DEF AccountsInv, AccountTypes
  <2>5. CallInv(c)'
    BY <2>2, <2>4 DEF CallInv
  <2>6. AccountTypes' /\ AddressInv'
    BY <1>1, <2>4 DEF AccountsInv, AccountTypes, AddressInv, FindByEmail
  <2> QED
    BY <1>1, <2>4, <2>5, <2>6, UntouchedIsLawful, LawfulInv
<1> QED
  BY <1>4, <1>5, <1>6 DEF loginWithProviderClaims

\* A statement that updates the row of one account that has the address, and
\* raises the version when it writes the password.
LEMMA UpdateTyped ==
  ASSUME AccountsInv, NEW u \in FindByEmail, NEW row \in UserRecord, users' = [users EXCEPT ![u] = row],
         row.exists, row.version >= users[u].version,
         row.version = users[u].version => row.password = users[u].password,
         identities' = identities
  PROVE  users' \in [Accounts -> UserRecord] /\ users'[u] = row /\ AddressInv' /\ \A v \in Accounts : Lawful(v)
<1>1. u \in Accounts /\ users[u].exists
  BY DEF FindByEmail
<1>2. users' \in [Accounts -> UserRecord] /\ \A v \in Accounts : Lawful(v)
  BY <1>1, OneAccountTyped
<1>3. users'[u] = row /\ \A v \in Accounts \ {u} : users'[v] = users[v]
  BY <1>1 DEF AccountsInv, AccountTypes
<1>4. row.version \in Nat /\ users[u].version \in Nat
  BY <1>1 DEF UserRecord, AccountsInv, AccountTypes
<1>5. AddressInv'
  BY <1>1, <1>3, <1>4 DEF AccountsInv, AddressInv, FindByEmail
<1> QED
  BY <1>2, <1>3, <1>5

\* The sessions are revoked, the password is reset, the account is banned.
LEMMA UpdateInv ==
  ASSUME AccountsInv, NEW u \in FindByEmail, NEW row \in UserRecord, users' = [users EXCEPT ![u] = row],
         row.exists, row.version >= users[u].version,
         row.version = users[u].version => row.password = users[u].password,
         identities' = identities, sessions' = sessions, calls' = calls, DOMAIN tokens' = 1..MaxTokens
  PROVE  AccountsInv'
<1>1. users' \in [Accounts -> UserRecord] /\ AddressInv' /\ \A v \in Accounts : Lawful(v)
  BY UpdateTyped
<1>2. AccountTypes'
  BY <1>1 DEF AccountsInv, AccountTypes
<1> QED
  BY <1>1, <1>2, LawfulInv

\* Revoking every session raises the version and nothing else.
LEMMA RevokeInv ==
  ASSUME AccountsInv, RevokeSessions
  PROVE  AccountsInv'
<1>1. PICK u \in FindByEmail : IncrementAuthVersion(u)
  BY DEF RevokeSessions
<1>2. u \in Accounts /\ users[u] \in UserRecord /\ users[u].exists
  BY <1>1 DEF FindByEmail, AccountsInv, AccountTypes
<1> DEFINE row == [users[u] EXCEPT !.version = @ + 1]
<1>3. row \in UserRecord /\ row.exists /\ row.version > users[u].version
  BY <1>2 DEF UserRecord
<1>4. users' = [users EXCEPT ![u] = row]
  BY <1>1 DEF IncrementAuthVersion
<1> HIDE DEF row
<1>5. row.version >= users[u].version /\ row.version # users[u].version
  BY <1>2, <1>3 DEF UserRecord
<1>6. identities' = identities /\ sessions' = sessions /\ calls' = calls /\ DOMAIN tokens' = 1..MaxTokens
  BY DEF RevokeSessions, AccountsInv, AccountTypes
<1> QED
  BY <1>3, <1>4, <1>5, <1>6, UpdateInv

\* A ban keeps version, password and identities; the session is refused by its flag.
LEMMA BanInv ==
  ASSUME AccountsInv, NEW u \in Accounts, Ban(u)
  PROVE  AccountsInv'
<1>1. u \in FindByEmail /\ users[u] \in UserRecord /\ users[u].exists
  BY DEF Ban, FindByID, FindByEmail, AccountsInv, AccountTypes
<1> DEFINE row == [users[u] EXCEPT !.banned = TRUE]
<1>2. row \in UserRecord /\ row.exists /\ row.version = users[u].version /\ row.password = users[u].password
  BY <1>1 DEF UserRecord
<1>3. users' = [users EXCEPT ![u] = row]
  BY DEF Ban
<1>5. users[u].version >= users[u].version
  BY <1>1 DEF UserRecord
<1> HIDE DEF row
<1>4. identities' = identities /\ sessions' = sessions /\ calls' = calls /\ DOMAIN tokens' = 1..MaxTokens
  BY DEF Ban, AccountsInv, AccountTypes
<1> QED
  BY <1>1, <1>2, <1>3, <1>4, <1>5, UpdateInv

\* The row with the new password, which only a password account has, and with
\* the next version.
Changed(user, password) == [user EXCEPT !.password = password, !.version = @ + 1]

\* What that row holds.
LEMMA ChangedTyped ==
  ASSUME NEW user \in UserRecord, NEW password \in Passwords
  PROVE  /\ Changed(user, password) \in UserRecord
         /\ user.exists => Changed(user, password).exists
         /\ Changed(user, password).password = password
         /\ Changed(user, password).version = user.version + 1 /\ user.version \in Nat
<1> DEFINE first == [user EXCEPT !.password = password]
<1>1. user.version \in Nat
  BY DEF UserRecord
<1>2. /\ first \in UserRecord /\ first.password = password /\ first.version = user.version
      /\ user.exists => first.exists
  BY DEF UserRecord
<1>3. Changed(user, password) = [first EXCEPT !.version = user.version + 1]
  BY <1>2 DEF Changed
<1> HIDE DEF first
<1>4. user.version + 1 \in Nat
  BY <1>1
<1> QED
  BY <1>1, <1>2, <1>3, <1>4 DEF UserRecord

\* The repository's UPDATE writes that row.
LEMMA PasswordUpdated ==
  ASSUME AccountsInv, NEW u \in FindByEmail, NEW password \in Passwords, UpdatePasswordAndRevoke(u, password)
  PROVE  users' = [users EXCEPT ![u] = Changed(users[u], password)]
<1>1. users \in [Accounts -> UserRecord] /\ u \in Accounts
  BY DEF FindByEmail, AccountsInv, AccountTypes
<1> DEFINE first == [users[u] EXCEPT !.password = password]
<1>2. first \in UserRecord /\ [first EXCEPT !.version = first.version + 1] = Changed(users[u], password)
  BY <1>1 DEF UserRecord, Changed
<1>3. users' = [[users EXCEPT ![u] = first] EXCEPT ![u] = [first EXCEPT !.version = first.version + 1]]
  BY <1>1 DEF UpdatePasswordAndRevoke
<1> HIDE DEF first
<1> QED
  BY <1>1, <1>2, <1>3

\* A reset writes the password and the version in one statement, with the link.
LEMMA ResetInv ==
  ASSUME AccountsInv, NEW t \in DOMAIN tokens, NEW password \in Passwords, ResetPassword(t, password)
  PROVE  AccountsInv'
<1>1. PICK u \in Accounts : ResetPasswordToken(t, u, password)
  BY DEF ResetPassword
<1>2. u \in FindByEmail /\ users[u] \in UserRecord /\ users[u].exists
  BY <1>1 DEF ResetPasswordToken, FindByID, FindByEmail, AccountsInv, AccountTypes
<1>3. users' = [users EXCEPT ![u] = Changed(users[u], password)]
  BY <1>1, <1>2, PasswordUpdated DEF ResetPasswordToken
<1>4. /\ Changed(users[u], password) \in UserRecord /\ Changed(users[u], password).exists
      /\ Changed(users[u], password).version >= users[u].version
      /\ Changed(users[u], password).version # users[u].version
  BY <1>2, ChangedTyped
<1>5. DOMAIN tokens' = 1..MaxTokens
  BY <1>1 DEF ResetPasswordToken, AccountsInv, AccountTypes
<1>6. identities' = identities /\ sessions' = sessions /\ calls' = calls
  BY DEF ResetPassword
<1> QED
  BY <1>2, <1>3, <1>4, <1>5, <1>6, UpdateInv

\* A request that ends, having done nothing.
LEMMA EndInv ==
  ASSUME AccountsInv, NEW c \in Clients, Return(c), users' = users, identities' = identities, sessions' = sessions,
         DOMAIN tokens' = 1..MaxTokens
  PROVE  AccountsInv'
<1>1. calls' \in [Clients -> CallRecord] /\ \A d \in Clients : calls'[d] = calls[d] \/ HarmlessCall(calls'[d])
  BY ReturnTyped DEF HarmlessCall
<1> QED
  BY <1>1, QuietInv

\* The sign-in ends in a session that is as good as what the request carried.
LEMMA IssueInv ==
  ASSUME AccountsInv, NEW c \in Clients, issue(c)
  PROVE  AccountsInv'
<1>1. users' = users /\ identities' = identities /\ DOMAIN tokens' = 1..MaxTokens /\ Return(c)
  BY DEF issue, AccountsInv, AccountTypes
<1>2. /\ calls' \in [Clients -> CallRecord] /\ calls'[c].at = "idle"
      /\ \A d \in Clients \ {c} : calls'[d] = calls[d]
  BY <1>1, ReturnTyped
<1>3. calls[c].id \subseteq Accounts /\ calls[c].user.version \in Nat /\ calls[c].proof \in SUBSET Credentials
  BY DEF AccountsInv, AccountTypes, CallRecord, UserRecord
<1>4. \A s \in sessions' \ sessions :
        \E u \in calls[c].id : s = [user |-> u, version |-> calls[c].user.version, proof |-> calls[c].proof]
  BY DEF issue, Generate
<1>5. \A u \in calls[c].id : Genuine(u, calls[c].user.version, calls[c].proof)
  BY DEF issue, AccountsInv, CallInv
<1>6. \A u \in Accounts, version \in Nat, proof \in SUBSET Credentials :
        Genuine(u, version, proof) => Genuine(u, version, proof)'
  BY <1>1 DEF Genuine
<1>7. \A s \in sessions' \ sessions : s \in SessionRecord /\ Genuine(s.user, s.version, s.proof)'
  <2> SUFFICES ASSUME NEW s \in sessions' \ sessions
               PROVE  s \in SessionRecord /\ Genuine(s.user, s.version, s.proof)'
    OBVIOUS
  <2>1. PICK u \in calls[c].id : s = [user |-> u, version |-> calls[c].user.version, proof |-> calls[c].proof]
    BY <1>4
  <2>2. s \in SessionRecord /\ s.user = u /\ s.version = calls[c].user.version /\ s.proof = calls[c].proof
    BY <1>3, <2>1 DEF SessionRecord
  <2>3. Genuine(u, calls[c].user.version, calls[c].proof)
    BY <1>5
  <2>4. u \in Accounts
    BY <1>3
  <2>5. Genuine(s.user, s.version, s.proof)
    BY <2>2, <2>3
  <2> QED
    BY <1>6, <2>2, <2>4, <2>5 DEF SessionRecord
<1>8. AccountTypes' /\ AddressInv'
  BY <1>1, <1>2, <1>7 DEF AccountsInv, AccountTypes, AddressInv, FindByEmail
<1>9. CallInv(c)'
  BY <1>2 DEF CallInv
<1> QED
  BY <1>1, <1>2, <1>7, <1>8, <1>9, UntouchedIsLawful, LawfulInv

\* The new password comes with a new version, and the caller's session with both.
LEMMA ApplyInv ==
  ASSUME AccountsInv, NEW c \in Clients, applyPassword(c)
  PROVE  AccountsInv'
<1>1. PICK u \in calls[c].id, password \in calls[c].proof :
        IF FindByID(u)
        THEN /\ UpdatePasswordAndRevoke(u, password)
             /\ sessions' = sessions \cup {Generate(u, users'[u].version, {password})}
        ELSE UNCHANGED <<users, sessions>>
  BY DEF applyPassword
<1>2. u \in Accounts /\ users[u] \in UserRecord /\ password \in Passwords
  BY DEF applyPassword, AccountsInv, AccountTypes, CallRecord, CallInv
<1>3. identities' = identities /\ DOMAIN tokens' = 1..MaxTokens /\ Return(c)
  BY DEF applyPassword, AccountsInv, AccountTypes
<1>4. CASE ~users[u].exists
  BY <1>1, <1>3, <1>4, EndInv DEF FindByID
<1>5. CASE users[u].exists
  <2> DEFINE row == Changed(users[u], password)
             new == Generate(u, users'[u].version, {password})
  <2>1. u \in FindByEmail
    BY <1>2, <1>5 DEF FindByEmail
  <2>2. users' = [users EXCEPT ![u] = row] /\ sessions' = sessions \cup {new}
    BY <1>1, <1>2, <1>5, <2>1, PasswordUpdated DEF FindByID
  <2>3. /\ row \in UserRecord /\ row.exists /\ row.password = password
        /\ row.version = users[u].version + 1 /\ users[u].version \in Nat
    BY <1>2, <1>5, ChangedTyped
  <2>4. row.version >= users[u].version /\ row.version # users[u].version /\ row.version >= 1
    BY <2>3
  <2> HIDE DEF row
  <2>5. users' \in [Accounts -> UserRecord] /\ users'[u] = row /\ AddressInv' /\ \A v \in Accounts : Lawful(v)
    BY <1>3, <2>1, <2>2, <2>3, <2>4, UpdateTyped
  <2>6. new.user = u /\ new.version = row.version /\ new.proof = {password} /\ new \in SessionRecord
    BY <1>2, <2>3, <2>5 DEF Generate, SessionRecord, Credentials
  <2>7. {password} \cap Subjects = {}
    BY <1>2, AccountsAssumption
  <2> HIDE DEF new
  <2>8. ASSUME NEW s \in sessions' \ sessions
        PROVE  Genuine(s.user, s.version, s.proof)'
    <3>1. s.user = u /\ s.version = users'[u].version /\ s.proof = {password} /\ s.version \in Nat /\ s.version >= 1
      BY <2>2, <2>3, <2>4, <2>5, <2>6
    <3>2. users'[u].password = password
      BY <2>3, <2>5
    <3> QED
      BY <2>7, <3>1, <3>2 DEF Genuine
  <2>9. /\ calls' \in [Clients -> CallRecord] /\ calls'[c].at = "idle"
        /\ \A d \in Clients \ {c} : calls'[d] = calls[d]
    BY <1>3, ReturnTyped
  <2>10. AccountTypes'
    BY <1>3, <2>2, <2>5, <2>6, <2>9 DEF AccountsInv, AccountTypes
  <2>11. CallInv(c)'
    BY <2>9 DEF CallInv
  <2> QED
    BY <2>5, <2>8, <2>9, <2>10, <2>11, LawfulInv
<1> QED
  BY <1>4, <1>5

\* The address is verified and its owner signed in with no credential but the
\* link.
LEMMA VerifyInv ==
  ASSUME AccountsInv, NEW c \in Clients, NEW t \in DOMAIN tokens, VerifyEmail(c, t)
  PROVE  AccountsInv'
<1>1. PICK u \in Accounts : VerifyEmailToken(t, u) /\ Call(c, "issue", u, users'[u], {})
  BY DEF VerifyEmail
<1>2. u \in FindByEmail /\ users[u] \in UserRecord /\ users[u].exists
  BY <1>1 DEF VerifyEmailToken, FindByID, FindByEmail, AccountsInv, AccountTypes
<1> DEFINE row == [users[u] EXCEPT !.verified = TRUE]
<1>3. row \in UserRecord /\ row.exists /\ row.version = users[u].version /\ row.password = users[u].password
  BY <1>2 DEF UserRecord
<1>4. users' = [users EXCEPT ![u] = row] /\ DOMAIN tokens' = 1..MaxTokens
  BY <1>1 DEF VerifyEmailToken, AccountsInv, AccountTypes
<1> HIDE DEF row
<1>5. users[u].version \in Nat /\ users[u].version >= users[u].version /\ users[u].version >= 1
  BY <1>2 DEF UserRecord, AccountsInv, AddressInv
<1>6. identities' = identities /\ sessions' = sessions
  BY DEF VerifyEmail
<1>7. users' \in [Accounts -> UserRecord] /\ users'[u] = row /\ AddressInv' /\ \A v \in Accounts : Lawful(v)
  BY <1>2, <1>3, <1>4, <1>5, <1>6, UpdateTyped
<1>8. {} \in SUBSET Credentials
  OBVIOUS
<1>9. /\ calls' \in [Clients -> CallRecord]
      /\ calls'[c].at = "issue" /\ calls'[c].id = {u} /\ calls'[c].user = row /\ calls'[c].proof = {}
      /\ \A d \in Clients \ {c} : calls'[d] = calls[d]
  BY <1>1, <1>3, <1>7, <1>8, CallTyped
<1>10. AccountTypes'
  BY <1>4, <1>6, <1>7, <1>9 DEF AccountsInv, AccountTypes
<1>11. CallInv(c)'
  BY <1>3, <1>5, <1>7, <1>9 DEF CallInv, Genuine
<1> QED
  BY <1>6, <1>7, <1>9, <1>10, <1>11, LawfulInv

\* The first version of an account: nobody else has the address, and no subject
\* leads to an account.
LEMMA CreateTyped ==
  ASSUME AccountsInv, NEW u \in Fresh, NEW password \in Passwords \cup {NoPassword}, NEW verified \in BOOLEAN,
         Create(u, password, verified)
  PROVE  /\ users' \in [Accounts -> UserRecord]
         /\ u \in Accounts /\ users'[u] \in UserRecord
         /\ users'[u].exists /\ users'[u].version = 1 /\ users'[u].password = password
         /\ \A v \in Accounts : users'[v].exists => v = u
         /\ \A s \in Subjects : identities[s] = {}
         /\ (\A s \in Subjects : identities[s] = {} \/ identities'[s] = identities[s]) => \A v \in Accounts : Lawful(v)
<1> DEFINE row == [NoUser EXCEPT !.exists = TRUE, !.password = password, !.verified = verified, !.version = 1]
<1>1. /\ row \in UserRecord /\ row.exists /\ row.version = 1 /\ row.password = password
  BY DEF NoUser, UserRecord
<1>2. users' = [users EXCEPT ![u] = row] /\ FindByEmail = {}
  BY DEF Create
<1> HIDE DEF row
<1>3. u \in Accounts /\ users[u].version = 0
  BY DEF Fresh
<1>4. users \in [Accounts -> UserRecord] /\ \A v \in Accounts : users[v].version \in Nat /\ ~users[v].exists
  BY <1>2 DEF AccountsInv, AccountTypes, UserRecord, FindByEmail
<1>5. \A s \in Subjects : identities[s] = {}
  BY <1>2 DEF AccountsInv, AddressInv
<1>6. users' \in [Accounts -> UserRecord] /\ users'[u] = row /\ \A v \in Accounts \ {u} : users'[v] = users[v]
  BY <1>1, <1>2, <1>3, <1>4
<1>7. \A v \in Accounts : Lawful(v)
  BY <1>1, <1>3, <1>4, <1>5, <1>6 DEF Lawful
<1> QED
  BY <1>1, <1>3, <1>4, <1>5, <1>6, <1>7

\* A registration starts the account at its first version, with no identity.
LEMMA RegisterInv ==
  ASSUME AccountsInv, NEW u \in Accounts, NEW password \in Passwords, Register(u, password)
  PROVE  AccountsInv'
<1>1. u \in Fresh /\ Create(u, password, FALSE) /\ identities' = identities /\ sessions' = sessions /\ calls' = calls
  BY DEF Register
<1>2. DOMAIN tokens' = 1..MaxTokens
  BY TokensKept DEF Register
<1>3. /\ users' \in [Accounts -> UserRecord] /\ users'[u].version = 1
      /\ \A v \in Accounts : users'[v].exists => v = u
      /\ \A s \in Subjects : identities[s] = {}
      /\ \A v \in Accounts : Lawful(v)
  BY <1>1, CreateTyped
<1>4. AccountTypes' /\ AddressInv'
  BY <1>1, <1>2, <1>3 DEF AccountsInv, AccountTypes, AddressInv, FindByEmail
<1> QED
  BY <1>1, <1>3, <1>4, LawfulInv

\* A subject nobody has linked signs up with an account of its own.
LEMMA SignupInv ==
  ASSUME AccountsInv, NEW c \in Clients, NEW u \in Accounts, registerProviderUser(c, u)
  PROVE  AccountsInv'
<1>1. PICK s \in calls[c].proof :
        IF FindByEmail = {} /\ identities[s] = {}
        THEN u \in Fresh /\ CreateProviderUser(u, s) /\ Call(c, "issue", u, users'[u], {s})
        ELSE Return(c) /\ UNCHANGED <<users, identities>>
  BY DEF registerProviderUser
<1>2. s \in Subjects /\ sessions' = sessions /\ DOMAIN tokens' = 1..MaxTokens
  BY DEF registerProviderUser, AccountsInv, AccountTypes, CallRecord, CallInv
<1>3. CASE ~(FindByEmail = {} /\ identities[s] = {})
  BY <1>1, <1>2, <1>3, EndInv
<1>4. CASE FindByEmail = {} /\ identities[s] = {}
  <2>1. /\ u \in Fresh /\ Create(u, NoPassword, TRUE) /\ Call(c, "issue", u, users'[u], {s})
        /\ identities' = [identities EXCEPT ![s] = {u}]
    BY <1>1, <1>4 DEF CreateProviderUser
  <2>2. \A x \in Subjects : identities[x] = {} \/ identities'[x] = identities[x]
    BY <1>2, <1>4, <2>1 DEF AccountsInv, AccountTypes
  <2>3. /\ users' \in [Accounts -> UserRecord] /\ users'[u] \in UserRecord
        /\ users'[u].exists /\ users'[u].version = 1
        /\ \A v \in Accounts : users'[v].exists => v = u
        /\ \A x \in Subjects : identities[x] = {}
        /\ \A v \in Accounts : Lawful(v)
    BY <2>1, <2>2, CreateTyped
  <2>4. {s} \in SUBSET Credentials /\ {s} \cap Passwords = {}
    BY <1>2, AccountsAssumption DEF Credentials
  <2>5. /\ calls' \in [Clients -> CallRecord]
        /\ calls'[c].at = "issue" /\ calls'[c].id = {u} /\ calls'[c].user = users'[u] /\ calls'[c].proof = {s}
        /\ \A d \in Clients \ {c} : calls'[d] = calls[d]
    BY <2>1, <2>3, <2>4, CallTyped
  <2>6. identities' \in [Subjects -> SUBSET Accounts] /\ identities'[s] = {u} /\ \A x \in Subjects : identities'[x] \subseteq {u}
    BY <1>2, <2>1, <2>3 DEF AccountsInv, AccountTypes
  <2>7. AccountTypes' /\ AddressInv'
    BY <1>2, <2>3, <2>5, <2>6 DEF AccountsInv, AccountTypes, AddressInv, FindByEmail
  <2>8. CallInv(c)'
    BY <2>3, <2>4, <2>5, <2>6 DEF CallInv, Genuine
  <2> QED
    BY <1>2, <2>3, <2>5, <2>7, <2>8, LawfulInv
<1> QED
  BY <1>3, <1>4

\* The subject is linked to the user that was read, unless the user is gone; if
\* somebody linked it in between, it was to this user, who alone has the address.
LEMMA CreateIdentityInv ==
  ASSUME AccountsInv, NEW c \in Clients, CreateIdentity(c)
  PROVE  AccountsInv'
<1>1. PICK u \in calls[c].id, s \in calls[c].proof :
        IF identities[s] # {} THEN Call(c, "issue", u, calls[c].user, {s}) /\ UNCHANGED identities
        ELSE IF FindByID(u)
        THEN Call(c, "issue", u, calls[c].user, {s}) /\ identities' = [identities EXCEPT ![s] = {u}]
        ELSE Return(c) /\ UNCHANGED identities
  BY DEF CreateIdentity
<1>2. /\ u \in Accounts /\ s \in Subjects /\ calls[c].user \in UserRecord /\ calls[c].user.version \in Nat
      /\ calls[c].user.version >= 1 /\ calls[c].user.version <= users[u].version
      /\ users' = users /\ sessions' = sessions /\ DOMAIN tokens' = 1..MaxTokens
  BY DEF CreateIdentity, AccountsInv, AccountTypes, CallRecord, UserRecord, CallInv
<1>3. {s} \in SUBSET Credentials /\ {s} \cap Passwords = {}
  BY <1>2, AccountsAssumption DEF Credentials
<1>4. CASE identities[s] # {}
  <2>1. Call(c, "issue", u, calls[c].user, {s}) /\ identities' = identities
    BY <1>1, <1>4
  <2>2. users[u].exists => identities[s] = {u}
    BY <1>2, <1>4 DEF AccountsInv, AddressInv, FindByEmail
  <2>3. Genuine(u, calls[c].user.version, {s})
    BY <1>2, <1>3, <2>2 DEF Genuine
  <2> QED
    BY <1>2, <1>3, <2>1, <2>3, ReadInv
<1>5. CASE identities[s] = {} /\ ~FindByID(u)
  BY <1>1, <1>2, <1>5, EndInv
<1>6. CASE identities[s] = {} /\ FindByID(u)
  <2>1. Call(c, "issue", u, calls[c].user, {s}) /\ identities' = [identities EXCEPT ![s] = {u}]
    BY <1>1, <1>6
  <2>2. /\ identities' \in [Subjects -> SUBSET Accounts] /\ identities'[s] = {u}
        /\ \A x \in Subjects \ {s} : identities'[x] = identities[x]
    BY <1>2, <2>1 DEF AccountsInv, AccountTypes
  <2>3. \A v \in Accounts : users[v].version \in Nat
    BY DEF AccountsInv, AccountTypes, UserRecord
  <2>4. \A v \in Accounts : Lawful(v)
    BY <1>2, <1>6, <2>2, <2>3 DEF Lawful
  <2>5. /\ calls' \in [Clients -> CallRecord] /\ calls'[c].at = "issue" /\ calls'[c].id = {u}
        /\ calls'[c].user = calls[c].user /\ calls'[c].proof = {s}
        /\ \A d \in Clients \ {c} : calls'[d] = calls[d]
    BY <1>2, <1>3, <2>1, CallTyped
  <2>6. AccountTypes' /\ AddressInv'
    BY <1>2, <1>6, <2>2, <2>5 DEF AccountsInv, AccountTypes, AddressInv, FindByEmail, FindByID
  <2>7. CallInv(c)'
    BY <1>2, <1>3, <2>2, <2>5 DEF CallInv, Genuine
  <2> QED
    BY <1>2, <2>4, <2>5, <2>6, <2>7, LawfulInv
<1> QED
  BY <1>4, <1>5, <1>6

\* Everything of the account goes with it, and the account is not created again.
LEMMA EraseInv ==
  ASSUME AccountsInv, NEW c \in Clients, NEW erased \in BOOLEAN, eraseAccount(c, erased)
  PROVE  AccountsInv'
<1>1. PICK u \in calls[c].id :
        IF erased /\ FindByID(u) THEN DeleteRows(u) ELSE UNCHANGED <<users, identities, tokens, outbox>>
  BY DEF eraseAccount
<1>2. u \in Accounts /\ users[u] \in UserRecord /\ users[u].version \in Nat /\ sessions' = sessions /\ Return(c)
  BY DEF eraseAccount, AccountsInv, AccountTypes, CallRecord, UserRecord
<1>3. CASE ~(erased /\ FindByID(u))
  BY <1>1, <1>2, <1>3, EndInv DEF AccountsInv, AccountTypes
<1>4. CASE erased /\ FindByID(u)
  <2> DEFINE row == [NoUser EXCEPT !.version = users[u].version]
  <2>1. row \in UserRecord /\ ~row.exists /\ row.version = users[u].version
    BY <1>2 DEF NoUser, UserRecord
  <2>2. /\ users' = [users EXCEPT ![u] = row] /\ identities' = [s \in Subjects |-> identities[s] \ {u}]
        /\ DOMAIN tokens' = 1..MaxTokens
    BY <1>1, <1>4 DEF DeleteRows, AccountsInv, AccountTypes
  <2> HIDE DEF row
  <2>3. row.version >= users[u].version
    BY <1>2, <2>1
  <2>4. \A v \in Accounts \ {u} : \A x \in Subjects : identities[x] = {v} => identities'[x] = {v}
    BY <1>2, <2>2
  <2>5. users' \in [Accounts -> UserRecord] /\ \A v \in Accounts : Lawful(v)
    BY <1>2, <2>1, <2>2, <2>3, <2>4, OneAccountTyped
  <2>6. users'[u] = row /\ \A v \in Accounts \ {u} : users'[v] = users[v]
    BY <1>2, <2>2 DEF AccountsInv, AccountTypes
  <2>7. identities' \in [Subjects -> SUBSET Accounts] /\ \A x \in Subjects : identities'[x] = identities[x] \ {u}
    BY <2>2 DEF AccountsInv, AccountTypes
  <2>8. calls' \in [Clients -> CallRecord] /\ calls'[c].at = "idle" /\ \A d \in Clients \ {c} : calls'[d] = calls[d]
    BY <1>2, ReturnTyped
  <2>9. AccountTypes' /\ AddressInv'
    BY <1>2, <2>1, <2>2, <2>5, <2>6, <2>7, <2>8 DEF AccountsInv, AccountTypes, AddressInv, FindByEmail
  <2>10. CallInv(c)'
    BY <2>8 DEF CallInv
  <2> QED
    BY <1>2, <2>5, <2>8, <2>9, <2>10, LawfulInv
<1> QED
  BY <1>3, <1>4

-----------------------------------------------------------------------------
(* The theorems *)

\* The requests, one handler at a time.
LEMMA RequestInv ==
  ASSUME AccountsInv, NEW c \in Clients,
         \/ issue(c) \/ applyPassword(c) \/ ResendVerification(c) \/ ForgotPassword(c) \/ CreateIdentity(c)
         \/ \E ok \in BOOLEAN : SendLink(c, ok) \/ eraseAccount(c, ok)
         \/ \E s \in Subjects : loginWithProviderClaims(c, s)
         \/ \E u \in Accounts : registerProviderUser(c, u)
         \/ \E p \in Passwords : Login(c, p) \/ \E q \in Passwords : ChangePassword(c, p, q)
         \/ \E t \in DOMAIN tokens : VerifyEmail(c, t) \/ DeleteAccount(c, t) \/ \E p \in Passwords : SetFirstPassword(c, t, p)
  PROVE  AccountsInv'
<1>1. CASE issue(c) \/ applyPassword(c)
  BY <1>1, IssueInv, ApplyInv
<1>2. CASE ResendVerification(c) \/ ForgotPassword(c) \/ \E ok \in BOOLEAN : SendLink(c, ok)
  BY <1>2, LinkInv
<1>3. CASE CreateIdentity(c) \/ \E u \in Accounts : registerProviderUser(c, u)
  BY <1>3, CreateIdentityInv, SignupInv
<1>4. CASE \E ok \in BOOLEAN : eraseAccount(c, ok)
  BY <1>4, EraseInv
<1>5. CASE \E s \in Subjects : loginWithProviderClaims(c, s)
  BY <1>5, ProviderInv
<1>6. CASE \E p \in Passwords : Login(c, p)
  BY <1>6, LoginInv
<1>7. CASE \E t \in DOMAIN tokens : VerifyEmail(c, t)
  BY <1>7, VerifyInv
<1>8. CASE \/ \E p, q \in Passwords : ChangePassword(c, p, q)
           \/ \E t \in DOMAIN tokens, p \in Passwords : SetFirstPassword(c, t, p)
           \/ \E t \in DOMAIN tokens : DeleteAccount(c, t)
  BY <1>8, BeginInv
<1> QED
  BY <1>1, <1>2, <1>3, <1>4, <1>5, <1>6, <1>7, <1>8

\* Every step of requests, the mail processor, moderators, crashes and time
\* keeps the inductive invariant.
THEOREM AccountsInvariance == AccountsSpec => []AccountsInv
<1>1. AccountsInv /\ [AccountsNext]_accountVars => AccountsInv'
  <2> SUFFICES ASSUME AccountsInv, [AccountsNext]_accountVars
               PROVE  AccountsInv'
    OBVIOUS
  <2>1. CASE UNCHANGED accountVars
    BY <2>1, MailInv
  <2>2. CASE ProcessEmailOutboxOnce \/ deliverClaimedEmail(FALSE)
    BY <2>2, MailInv DEF ProcessEmailOutboxOnce
  <2>3. CASE authCrash \/ RevokeSessions
    BY <2>3, AuthCrashInv, RevokeInv
  <2>4. CASE \E u \in Accounts : Reauthenticate(u) \/ mailTimePasses(u)
    BY <2>4, MailInv
  <2>5. CASE \E u \in Accounts : Ban(u) \/ \E p \in Passwords : Register(u, p)
    BY <2>5, BanInv, RegisterInv
  <2>6. CASE \E t \in DOMAIN tokens : linkExpires(t)
    BY <2>6, MailInv
  <2>7. CASE \E t \in DOMAIN tokens, p \in Passwords : ResetPassword(t, p)
    BY <2>7, ResetInv
  <2>8. CASE \E c \in Clients :
          \/ issue(c) \/ applyPassword(c) \/ ResendVerification(c) \/ ForgotPassword(c) \/ CreateIdentity(c)
          \/ \E ok \in BOOLEAN : SendLink(c, ok) \/ eraseAccount(c, ok)
          \/ \E s \in Subjects : loginWithProviderClaims(c, s)
          \/ \E u \in Accounts : registerProviderUser(c, u)
          \/ \E p \in Passwords : Login(c, p) \/ \E q \in Passwords : ChangePassword(c, p, q)
          \/ \E t \in DOMAIN tokens : VerifyEmail(c, t) \/ DeleteAccount(c, t) \/ \E p \in Passwords : SetFirstPassword(c, t, p)
    BY <2>8, RequestInv
  <2> QED
    BY <2>1, <2>2, <2>3, <2>4, <2>5, <2>6, <2>7, <2>8 DEF AccountsNext
<1> QED
  BY <1>1, AccountsInitInv, PTL DEF AccountsSpec

\* A session that is still accepted was obtained with a credential the account
\* still has, however the statements of sign-ins, password changes, resets,
\* links and deletions interleave.
THEOREM SessionsHold == AccountsSpec => []SessionsFollowCredentials
<1>1. AccountsInv => SessionsFollowCredentials
  BY DEF AccountsInv, SessionInv, Genuine, SessionsFollowCredentials, RequireAuthWithUser, FindByID
<1> QED
  BY <1>1, AccountsInvariance, PTL

-----------------------------------------------------------------------------
(* The community: the invariant *)

Labels    == {"idle", "follow", "block", "check", "blockTx", "followTx", "exists", "insert",
              "blockCommit", "send", "thread", "count", "write"}
Standings == {"active", "suspended", "banned", "deleted"}
Requests  == [at : Labels, who : SUBSET People, whom : SUBSET People, stamp : Nat]
Mail      == [id : Nat, from : People, in : SUBSET People, at : Nat, removed : BOOLEAN]
Statuses  == {"none", "open", "resolved_action_taken", "resolved_no_action"}
Actions   == {"no_action", "warning", "temporary_suspension", "permanent_ban", "content_removal"}
Reports   == [status : Statuses, by : SUBSET People, against : SUBSET People, message : SUBSET Nat,
              evidence : SUBSET People]

\* Requests, locks, messages, accounts and reports are well formed.
TypeInv ==
  /\ handling \in [Handlers -> Requests]
  /\ locks \in [LockKeys -> SUBSET Handlers]
  /\ standing \in [People -> Standings]
  /\ messages \in SUBSET Mail /\ IsFiniteSet(messages)
  /\ reports \in [ReportIds -> Reports]
  /\ reviewing \in [Moderators -> [at : {"idle", "write"}, report : SUBSET ReportIds, action : Actions \cup {"none"}]]
  /\ tick \in Nat

\* A request under way is between two people.
PartiesInv ==
  \A h \in Handlers : handling[h].at # "idle" =>
    \E u, v \in People : u # v /\ handling[h].who = {u} /\ handling[h].whom = {v}

\* Past a lock, a request holds it, alone.
LockInv ==
  \A h \in Handlers :
    /\ handling[h].at \in {"exists", "insert", "blockCommit"} => locks[PairAdvisory(h)] = {h}
    /\ handling[h].at \in {"thread", "count", "write"} => locks[SenderAdvisory(h)] = {h}
    /\ handling[h].at \in {"count", "write"} => locks[ThreadAdvisory(h)] = {h}

\* Where a follow is about to be inserted, no block stands.
FollowInv ==
  \A h \in Handlers : handling[h].at = "insert" =>
    \A u, v \in People : handling[h].who = {u} /\ handling[h].whom = {v} => ~IsBlockedEitherDirection(u, v)

\* Where a message is about to be written, both budgets still have room.
BudgetInv ==
  \A h \in Handlers : handling[h].at = "write" =>
    /\ UserLimit > 0 => \A u \in People : handling[h].who = {u} =>
         Cardinality(SentBy(u, handling[h].stamp - UserWindow)) < UserLimit
    /\ ConversationLimit > 0 =>
         Cardinality(SentIn(Pair(h), handling[h].stamp - ConversationWindow)) < ConversationLimit

\* A message is known by its id.
IdsInv == \A m, n \in messages : m.id = n.id => m = n

\* A report is about at most one account and one message, which exists.
ReferenceInv ==
  \A r \in ReportIds :
    /\ \A u, v \in reports[r].against : u = v
    /\ \A i, j \in reports[r].message : i = j
    /\ \A i \in reports[r].message : \E m \in messages : m.id = i

Records(r) == {a \in audit : a.report = r}

\* A resolved report has its one record, an open one none; the effect stands.
AuditInv ==
  \A r \in ReportIds :
    /\ Resolved(reports[r].status) => \E a \in audit : Records(r) = {a}
    /\ ~Resolved(reports[r].status) => Records(r) = {}
    /\ \A a \in Records(r) :
         /\ a.action = "content_removal" => \A m \in messages : {m.id} = reports[r].message => m.removed
         /\ a.action = "permanent_ban" => \A u \in reports[r].against : standing[u] = "banned"

\* The inductive invariant.
CommunityInv ==
  /\ TypeInv /\ PartiesInv /\ LockInv
  /\ FollowInv /\ BlockExcludesFollow
  /\ BudgetInv /\ MessageBudget
  /\ IdsInv /\ ReferenceInv /\ AuditInv

-----------------------------------------------------------------------------
(* Lemmas on the operators *)

\* Who and Whom name the two people of a request.
LEMMA PartyNames ==
  ASSUME NEW h \in Handlers, NEW u \in People, NEW v \in People,
         handling[h].who = {u}, handling[h].whom = {v}
  PROVE  Who(h) = u /\ Whom(h) = v /\ Pair(h) = {u, v}
<1>1. \A x \in People : {u} = {x} <=> x = u
  OBVIOUS
<1>2. \A x \in People : {v} = {x} <=> x = v
  OBVIOUS
<1>3. Who(h) = u
  BY <1>1 DEF Who
<1>4. Whom(h) = v
  BY <1>2 DEF Whom
<1> QED
  BY <1>3, <1>4 DEF Pair

\* Two different people make a pair.
LEMMA PairOfTwo ==
  ASSUME NEW u \in People, NEW v \in People, u # v
  PROVE  {u, v} \in TwoPeople
<1>1. IsFiniteSet({u}) /\ Cardinality({u}) = 1
  BY FS_Singleton
<1>2. Cardinality({u} \cup {v}) = 2
  BY <1>1, FS_AddElement
<1>3. {u} \cup {v} = {u, v}
  OBVIOUS
<1> QED
  BY <1>2, <1>3 DEF TwoPeople

\* The locks a request takes are among the locks there are.
LEMMA LockNames ==
  ASSUME PartiesInv, NEW h \in Handlers, handling[h].at # "idle"
  PROVE  /\ PairMutex(h) \in LockKeys /\ PairAdvisory(h) \in LockKeys
         /\ SenderAdvisory(h) \in LockKeys /\ ThreadAdvisory(h) \in LockKeys
<1>1. PICK u \in People, v \in People : u # v /\ handling[h].who = {u} /\ handling[h].whom = {v}
  BY DEF PartiesInv
<1>2. Pair(h) \in TwoPeople
  BY <1>1, PairOfTwo, PartyNames
<1> QED
  BY <1>1, <1>2 DEF PairMutex, PairAdvisory, SenderAdvisory, ThreadAdvisory, LockKeys

\* A set of messages does not outgrow the one it is an image of.
LEMMA ImageIsNoLarger ==
  ASSUME NEW S, IsFiniteSet(S), NEW f, NEW T, T = {f[x] : x \in S}
  PROVE  IsFiniteSet(T) /\ Cardinality(T) <= Cardinality(S)
<1> DEFINE g == [x \in S |-> f[x]]
<1>1. g \in Surjection(S, T)
  BY DEF Surjection
<1> QED
  BY <1>1, FS_Surjection

\* Some small number is no message's id: there are more numbers than messages.
LEMMA UnusedIdIsUnused ==
  ASSUME IsFiniteSet(messages)
  PROVE  UnusedId \in Nat /\ \A m \in messages : m.id # UnusedId
<1> DEFINE n == Cardinality(messages)
           ids == {[x \in messages |-> x.id][m] : m \in messages}
<1>1. n \in Nat
  BY FS_CardinalityType
<1>2. IsFiniteSet(ids) /\ Cardinality(ids) <= n
  BY ImageIsNoLarger
<1>3. \E i \in 1..(n + 1) : \A m \in messages : m.id # i
  <2> SUFFICES ASSUME \A i \in 1..(n + 1) : \E m \in messages : m.id = i
               PROVE  FALSE
    OBVIOUS
  <2>1. 1..(n + 1) \subseteq ids
    OBVIOUS
  <2>2. Cardinality(1..(n + 1)) <= Cardinality(ids)
    BY <1>2, <2>1, FS_Subset
  <2>3. Cardinality(1..(n + 1)) = n + 1
    BY <1>1, FS_Interval
  <2>4. Cardinality(ids) \in Nat
    BY <1>2, FS_CardinalityType
  <2> QED
    BY <1>1, <1>2, <2>2, <2>3, <2>4
<1> QED
  BY <1>1, <1>3 DEF UnusedId

-----------------------------------------------------------------------------
(* Steps *)

\* A step of one request, accepting it included.
HandlerCases(h) ==
  /\ UNCHANGED moderationVars
  /\ SocialStep(h) \/ \E u, v \in People : Follow(h, u, v) \/ Block(h, u, v) \/ SendMessage(h, u, v)

\* A step that is a single statement, of a user or a moderator, or of time.
StatementCases ==
  \/ timePasses /\ UNCHANGED moderationVars
  \/ \E u, v \in People : (Unfollow(u, v) \/ Unblock(u, v) \/ CreateConversation(u, v)) /\ UNCHANGED moderationVars
  \/ \E m \in messages, u \in People : (HideMessage(m, u) \/ MarkRead(m, u)) /\ UNCHANGED moderationVars
  \/ \E n \in notifications : MarkNotificationRead(n) /\ UNCHANGED moderationVars
  \/ \E u \in People : suspensionEnds(u) \/ DeletePerson(u)
  \/ \E r \in ReportIds, u \in People : (\E v \in People : ReportUser(r, u, v)) \/ (\E m \in messages : ReportMessage(r, u, m))
  \/ \E m \in Moderators : resolveTx(m) \/ \E r \in ReportIds, action \in Actions : ResolveReport(m, r, action)

communityVars == <<socialVars, moderationVars>>

\* Every step of ModerationNext is one of these.
LEMMA NextCases ==
  ASSUME [ModerationNext]_communityVars
  PROVE  UNCHANGED communityVars \/ StatementCases \/ \E h \in Handlers : HandlerCases(h)
<1>1. CASE SocialNext /\ UNCHANGED moderationVars
  BY <1>1 DEF SocialNext, StatementCases, HandlerCases
<1>2. CASE ~(SocialNext /\ UNCHANGED moderationVars) /\ ModerationNext
  BY <1>2 DEF ModerationNext, StatementCases, Actions
<1> QED
  BY <1>1, <1>2

\* A statement takes and gives back no lock and moves no request.
LEMMA StatementsTakeNoLock ==
  ASSUME StatementCases
  PROVE  handling' = handling /\ locks' = locks
BY DEF StatementCases, timePasses, Unfollow, Unblock, CreateConversation, HideMessage, MarkRead,
   MarkNotificationRead, suspensionEnds, DeletePerson, ReportUser, ReportMessage, createReportTx,
   resolveTx, ResolveReport, graph, mail

\* What Go, Finish, Lock and Accept do to the requests and the locks.
LEMMA GoMoves ==
  ASSUME TypeInv, NEW h \in Handlers, NEW at \in Labels, Go(h, at)
  PROVE  /\ handling' \in [Handlers -> Requests]
         /\ handling'[h].at = at /\ handling'[h].who = handling[h].who
         /\ handling'[h].whom = handling[h].whom /\ handling'[h].stamp = handling[h].stamp
         /\ \A g \in Handlers \ {h} : handling'[g] = handling[g]
BY DEF TypeInv, Go, Requests

\* A request that returns gives up its locks and nobody else's.
LEMMA FinishMoves ==
  ASSUME TypeInv, NEW h \in Handlers, Finish(h)
  PROVE  /\ handling' \in [Handlers -> Requests] /\ locks' \in [LockKeys -> SUBSET Handlers]
         /\ handling'[h] = Idle
         /\ \A g \in Handlers \ {h} :
              /\ handling'[g] = handling[g]
              /\ \A k \in LockKeys : locks[k] = {g} => locks'[k] = {g}
<1>1. Idle \in Requests
  BY DEF Idle, Requests, Labels
<1> QED
  BY <1>1 DEF TypeInv, Finish

\* A lock is granted to one request and taken from none.
LEMMA LockMoves ==
  ASSUME TypeInv, NEW h \in Handlers, NEW key \in LockKeys, Lock(h, key)
  PROVE  /\ locks' \in [LockKeys -> SUBSET Handlers]
         /\ locks'[key] = {h}
         /\ \A g \in Handlers, k \in LockKeys : locks[k] = {g} => locks'[k] = {g}
BY DEF TypeInv, Lock

\* A request that arrives leaves the others where they are.
LEMMA AcceptMoves ==
  ASSUME TypeInv, NEW h \in Handlers, NEW request \in Requests, Accept(h, request)
  PROVE  /\ handling' \in [Handlers -> Requests]
         /\ handling'[h] = request
         /\ \A g \in Handlers \ {h} : handling'[g] = handling[g]
BY DEF TypeInv, Accept

\* The three things a step of a request can do with it.
Accepted(h) ==
  /\ handling[h].at = "idle" /\ handling'[h].at \in {"follow", "block", "send"}
  /\ \E u, v \in People : u # v /\ handling'[h].who = {u} /\ handling'[h].whom = {v}
  /\ locks' = locks

Advanced(h) ==
  /\ handling[h].at # "idle" /\ handling'[h].at # "idle"
  /\ handling'[h].who = handling[h].who /\ handling'[h].whom = handling[h].whom
  /\ handling'[h].stamp = handling[h].stamp
  /\ \A k \in LockKeys : locks[k] = {h} => locks'[k] = {h}

\* A step of a request is one of them and leaves the other requests, and the
\* locks they hold, alone.
LEMMA HandlerMoves ==
  ASSUME TypeInv, PartiesInv, NEW h \in Handlers, HandlerCases(h)
  PROVE  /\ handling' \in [Handlers -> Requests] /\ locks' \in [LockKeys -> SUBSET Handlers]
         /\ Accepted(h) \/ Advanced(h) \/ handling'[h] = Idle
         /\ \A g \in Handlers \ {h} :
              /\ handling'[g] = handling[g]
              /\ \A k \in LockKeys : locks[k] = {g} => locks'[k] = {g}
<1> DEFINE Goal == /\ handling' \in [Handlers -> Requests] /\ locks' \in [LockKeys -> SUBSET Handlers]
                   /\ Accepted(h) \/ Advanced(h) \/ handling'[h] = Idle
                   /\ \A g \in Handlers \ {h} :
                        /\ handling'[g] = handling[g]
                        /\ \A k \in LockKeys : locks[k] = {g} => locks'[k] = {g}
<1>1. ASSUME NEW at \in Labels \ {"idle"}, handling[h].at # "idle", Go(h, at), locks' = locks
      PROVE  Goal
  <2>1. handling[h] \in Requests /\ locks \in [LockKeys -> SUBSET Handlers]
    BY DEF TypeInv
  <2>2. Advanced(h)
    BY <1>1, <2>1, GoMoves DEF Advanced, Requests
  <2> QED
    BY <1>1, <2>1, <2>2, GoMoves
<1>2. ASSUME NEW at \in Labels \ {"idle"}, handling[h].at # "idle", Go(h, at),
             NEW key \in LockKeys, Lock(h, key)
      PROVE  Goal
  <2>1. handling[h] \in Requests
    BY DEF TypeInv
  <2>2. Advanced(h)
    BY <1>2, <2>1, GoMoves, LockMoves DEF Advanced, Requests
  <2> QED
    BY <1>2, <2>2, GoMoves, LockMoves
<1>3. ASSUME Finish(h)
      PROVE  Goal
  BY <1>3, FinishMoves
<1>4. ASSUME NEW u \in People, NEW v \in People, u # v, NEW at \in {"follow", "block", "send"},
             NEW stamp \in Nat, locks' = locks,
             Accept(h, [at |-> at, who |-> {u}, whom |-> {v}, stamp |-> stamp])
      PROVE  Goal
  <2>1. [at |-> at, who |-> {u}, whom |-> {v}, stamp |-> stamp] \in Requests
    BY DEF Requests, Labels
  <2> QED
    BY <1>4, <2>1, AcceptMoves DEF Accepted, Accept, TypeInv
<1> SUFFICES Goal
  OBVIOUS
<1> HIDE DEF Goal
<1>5. CASE lockPair(h) \/ followLock(h) \/ blockLock(h) \/ lockSender(h) \/ lockThread(h)
  <2>1. handling[h].at # "idle"
    BY <1>5 DEF lockPair, followLock, blockLock, lockSender, lockThread
  <2>2. \E at \in Labels \ {"idle"}, key \in LockKeys : Go(h, at) /\ Lock(h, key)
    BY <1>5, <2>1, LockNames DEF lockPair, followLock, blockLock, lockSender, lockThread, Labels
  <2> QED
    BY <1>2, <2>1, <2>2
<1>6. CASE checkInteraction(h) \/ followBlocked(h) \/ countMessages(h)
  <2>1. handling[h].at # "idle"
    BY <1>6 DEF checkInteraction, followBlocked, countMessages
  <2>2. Finish(h) \/ \E at \in Labels \ {"idle"} : Go(h, at) /\ locks' = locks
    BY <1>6 DEF checkInteraction, followBlocked, countMessages, Labels
  <2> QED
    BY <1>1, <1>3, <2>1, <2>2
<1>7. CASE followInsert(h) \/ BlockAndRemoveRelationships(h) \/ CreateMessage(h)
  <2>1. Finish(h)
    BY <1>7 DEF followInsert, BlockAndRemoveRelationships, CreateMessage
  <2> QED
    BY <1>3, <2>1
<1>8. ASSUME NEW u \in People, NEW v \in People, Follow(h, u, v) \/ Block(h, u, v) \/ SendMessage(h, u, v)
      PROVE  Goal
  <2>1. CASE Follow(h, u, v)
    BY <1>4, <2>1 DEF Follow
  <2>2. CASE Block(h, u, v)
    BY <1>4, <2>2 DEF Block
  <2>3. CASE SendMessage(h, u, v)
    BY <1>4, <2>3 DEF SendMessage, TypeInv
  <2> QED
    BY <1>8, <2>1, <2>2, <2>3
<1> QED
  BY <1>5, <1>6, <1>7, <1>8 DEF HandlerCases, SocialStep

-----------------------------------------------------------------------------
(* Messages *)

\* Messages are taken away or taken down; what is left was there before, with its
\* sender, conversation and stamp.
Thins(f) ==
  /\ f \in [messages -> Mail]
  /\ \A m \in messages :
       /\ f[m].id = m.id /\ f[m].from = m.from /\ f[m].in = m.in /\ f[m].at = m.at
       /\ m.removed => f[m].removed
  /\ messages' \subseteq {f[m] : m \in messages}

\* Only the transaction that sends a message adds one: DeletePerson and a content
\* removal thin the messages, everything else leaves them alone.
LEMMA RemovalThins ==
  ASSUME TypeInv, NEW i,
         messages' = {IF {m.id} = i THEN [m EXCEPT !.removed = TRUE] ELSE m : m \in messages}
  PROVE  \E f : Thins(f)
<1> DEFINE f == [m \in messages |-> IF {m.id} = i THEN [m EXCEPT !.removed = TRUE] ELSE m]
<1>1. messages \subseteq Mail
  BY DEF TypeInv
<1>2. ASSUME NEW m \in messages
      PROVE  /\ f[m] \in Mail /\ f[m].id = m.id /\ f[m].from = m.from /\ f[m].in = m.in /\ f[m].at = m.at
             /\ m.removed => f[m].removed
  BY <1>1 DEF Mail
<1>3. messages' \subseteq {f[m] : m \in messages}
  OBVIOUS
<1>4. f \in [messages -> Mail]
  BY <1>2
<1> HIDE DEF f
<1>5. Thins(f)
  BY <1>2, <1>3, <1>4 DEF Thins
<1> QED
  BY <1>5

\* So does the deletion of messages.
LEMMA DeletionThins ==
  ASSUME TypeInv, messages' \subseteq messages
  PROVE  \E f : Thins(f)
<1> DEFINE f == [m \in messages |-> m]
<1>1. f \in [messages -> Mail]
  BY DEF TypeInv
<1>2. messages' \subseteq {f[m] : m \in messages}
  OBVIOUS
<1>3. Thins(f)
  BY <1>1, <1>2 DEF Thins
<1> QED
  BY <1>3

\* And so every statement of moderators, deletions and time: messages are stamped before, and none is added.
LEMMA StatementsThin ==
  ASSUME TypeInv, StatementCases
  PROVE  \E f : Thins(f)
<1>1. CASE messages' \subseteq messages
  BY <1>1, DeletionThins
<1>2. ASSUME NEW m \in Moderators, resolveTx(m)
      PROVE  \E f : Thins(f)
  <2>1. \/ messages' = messages
        \/ \E i : messages' = {IF {x.id} = i THEN [x EXCEPT !.removed = TRUE] ELSE x : x \in messages}
    BY <1>2, Zenon DEF resolveTx, applyResolutionEffect
  <2> QED
    BY <2>1, DeletionThins, RemovalThins
<1>3. messages' \subseteq messages \/ \E m \in Moderators : resolveTx(m)
  BY DEF StatementCases, timePasses, Unfollow, Unblock, CreateConversation, HideMessage, MarkRead,
     MarkNotificationRead, suspensionEnds, DeletePerson, ReportUser, ReportMessage, createReportTx,
     ResolveReport, graph, mail
<1> QED
  BY <1>1, <1>2, <1>3

\* Only CreateMessage adds a message.
LEMMA HandlersSend ==
  ASSUME NEW h \in Handlers, HandlerCases(h)
  PROVE  \/ messages' = messages
         \/ CreateMessage(h) /\ messages' = messages \cup {NewMessage(h)}
BY DEF HandlerCases, SocialStep, Follow, Block, SendMessage, lockPair, checkInteraction, followLock,
   followBlocked, followInsert, blockLock, BlockAndRemoveRelationships, lockSender, lockThread,
   countMessages, CreateMessage, graph, mail

\* Thinning lowers every count of messages.
LEMMA ThinningCountsLess ==
  ASSUME TypeInv, NEW f, Thins(f), NEW S \in SUBSET messages, NEW T \in SUBSET messages',
         \A m \in messages : f[m] \in T => m \in S
  PROVE  Cardinality(T) \in Nat /\ Cardinality(S) \in Nat /\ Cardinality(T) <= Cardinality(S)
<1> DEFINE R == {m \in messages : f[m] \in T}
<1>1. IsFiniteSet(S)
  BY FS_Subset DEF TypeInv
<1>2. IsFiniteSet(R) /\ Cardinality(R) <= Cardinality(S)
  BY <1>1, FS_Subset
<1>3. T = {f[m] : m \in R}
  BY DEF Thins
<1>4. IsFiniteSet(T) /\ Cardinality(T) <= Cardinality(R)
  BY <1>2, <1>3, ImageIsNoLarger
<1>5. Cardinality(T) \in Nat /\ Cardinality(R) \in Nat /\ Cardinality(S) \in Nat
  BY <1>1, <1>2, <1>4, FS_CardinalityType
<1> QED
  BY <1>2, <1>4, <1>5

\* A thinned mailbox is well formed and its ids are unique.
LEMMA ThinnedMail ==
  ASSUME TypeInv, IdsInv, NEW f, Thins(f)
  PROVE  messages' \in SUBSET Mail /\ IsFiniteSet(messages') /\ IdsInv'
<1>1. messages' \in SUBSET Mail
  BY DEF Thins
<1>2. IsFiniteSet({f[m] : m \in messages})
  BY ImageIsNoLarger DEF TypeInv
<1>3. IsFiniteSet(messages')
  BY <1>2, FS_Subset DEF Thins
<1>4. IdsInv'
  BY DEF Thins, IdsInv
<1> QED
  BY <1>1, <1>3, <1>4

\* So is one with a message more.
LEMMA SentMail ==
  ASSUME CommunityInv, NEW h \in Handlers, CreateMessage(h), messages' = messages \cup {NewMessage(h)}
  PROVE  messages' \in SUBSET Mail /\ IsFiniteSet(messages') /\ IdsInv'
<1> USE DEF CommunityInv
<1>1. PICK u \in People, v \in People : u # v /\ handling[h].who = {u} /\ handling[h].whom = {v}
  BY DEF PartiesInv, CreateMessage
<1>2. NewMessage(h) \in Mail
  BY <1>1, PartyNames, UnusedIdIsUnused DEF NewMessage, Mail, TypeInv, Requests
<1>3. IsFiniteSet(messages')
  BY FS_AddElement DEF TypeInv
<1>4. \A m \in messages : m.id # NewMessage(h).id
  BY UnusedIdIsUnused DEF NewMessage, TypeInv
<1>5. IdsInv'
  BY <1>4 DEF IdsInv
<1> QED
  BY <1>2, <1>3, <1>5 DEF TypeInv

-----------------------------------------------------------------------------
(* The invariant is preserved: types, parties, locks *)

\* What a step of a request leaves alone.
LEMMA HandlerFrame ==
  ASSUME NEW h \in Handlers, HandlerCases(h)
  PROVE  UNCHANGED <<standing, tick, moderationVars>>
BY DEF HandlerCases, SocialStep, Follow, Block, SendMessage, lockPair, checkInteraction, followLock,
   followBlocked, followInsert, blockLock, BlockAndRemoveRelationships, lockSender, lockThread,
   countMessages, CreateMessage, graph, mail

\* Moderation's own writes keep their types.
LEMMA ResolutionTyped ==
  ASSUME TypeInv, NEW m \in Moderators, resolveTx(m)
  PROVE  /\ standing' \in [People -> Standings]
         /\ reports' \in [ReportIds -> Reports]
         /\ reviewing' \in [Moderators -> [at : {"idle", "write"}, report : SUBSET ReportIds, action : Actions \cup {"none"}]]
         /\ tick' = tick
<1>1. PICK r \in reviewing[m].report :
        /\ reviewing' = [reviewing EXCEPT ![m] = NoReview]
        /\ tick' = tick
        /\ \/ UNCHANGED <<reports, standing>>
           \/ /\ recordResolution(m, r, reviewing[m].action)
              /\ applyResolutionEffect(reports[r], reviewing[m].action)
  BY Zenon DEF resolveTx
<1>2. r \in ReportIds
  BY DEF TypeInv
<1>3. recordResolution(m, r, reviewing[m].action) => reports' \in [ReportIds -> Reports]
  BY <1>2 DEF recordResolution, TypeInv, Reports, Statuses
<1>4. applyResolutionEffect(reports[r], reviewing[m].action) => standing' \in [People -> Standings]
  BY DEF applyResolutionEffect, TypeInv, Standings
<1>5. reviewing' \in [Moderators -> [at : {"idle", "write"}, report : SUBSET ReportIds, action : Actions \cup {"none"}]]
  BY <1>1 DEF NoReview, TypeInv
<1> QED
  BY <1>1, <1>3, <1>4, <1>5 DEF TypeInv

\* ReportUser and ReportMessage store well-formed reports.
LEMMA ReportTyped ==
  ASSUME TypeInv, NEW r \in ReportIds, NEW u \in People,
         (\E v \in People : ReportUser(r, u, v)) \/ (\E m \in messages : ReportMessage(r, u, m))
  PROVE  reports' \in [ReportIds -> Reports]
<1>1. ASSUME NEW v \in People, NEW about \in SUBSET Nat, NEW evidence \in SUBSET People,
             createReportTx(r, u, v, about, evidence)
      PROVE  reports' \in [ReportIds -> Reports]
  <2>1. [status |-> "open", by |-> {u}, against |-> {v}, message |-> about, evidence |-> evidence] \in Reports
    BY DEF Reports, Statuses
  <2> QED
    BY <1>1, <2>1 DEF createReportTx, TypeInv
<1>2. ASSUME NEW v \in People, ReportUser(r, u, v)
      PROVE  reports' \in [ReportIds -> Reports]
  BY <1>1, <1>2 DEF ReportUser
<1>3. ASSUME NEW m \in messages, ReportMessage(r, u, m)
      PROVE  reports' \in [ReportIds -> Reports]
  <2>1. m.id \in Nat /\ m.from \in People
    BY DEF TypeInv, Mail
  <2> QED
    BY <1>1, <1>3, <2>1 DEF ReportMessage
<1> QED
  BY <1>2, <1>3

\* Every statement keeps the types.
LEMMA StatementTyped ==
  ASSUME CommunityInv, StatementCases
  PROVE  TypeInv'
<1> USE DEF CommunityInv
<1>1. messages' \in SUBSET Mail /\ IsFiniteSet(messages')
  BY StatementsThin, ThinnedMail
<1>2. handling' \in [Handlers -> Requests] /\ locks' \in [LockKeys -> SUBSET Handlers]
  BY StatementsTakeNoLock DEF TypeInv
<1> DEFINE Rest == /\ standing' \in [People -> Standings]
                   /\ reports' \in [ReportIds -> Reports]
                   /\ reviewing' \in [Moderators -> [at : {"idle", "write"}, report : SUBSET ReportIds,
                                                     action : Actions \cup {"none"}]]
                   /\ tick' \in Nat
<1>3. ASSUME timePasses, UNCHANGED moderationVars
      PROVE  Rest
  BY <1>3 DEF timePasses, moderationVars, graph, TypeInv
<1>4. ASSUME NEW u \in People, NEW v \in People, Unfollow(u, v) \/ Unblock(u, v) \/ CreateConversation(u, v),
             UNCHANGED moderationVars
      PROVE  Rest
  BY <1>4 DEF Unfollow, Unblock, CreateConversation, moderationVars, graph, TypeInv
<1>5. ASSUME NEW m \in messages, NEW u \in People, HideMessage(m, u) \/ MarkRead(m, u), UNCHANGED moderationVars
      PROVE  Rest
  BY <1>5 DEF HideMessage, MarkRead, moderationVars, graph, TypeInv
<1>6. ASSUME NEW n \in notifications, MarkNotificationRead(n), UNCHANGED moderationVars
      PROVE  Rest
  BY <1>6 DEF MarkNotificationRead, moderationVars, graph, TypeInv
<1>7. ASSUME NEW u \in People, suspensionEnds(u)
      PROVE  Rest
  BY <1>7 DEF suspensionEnds, moderationVars, TypeInv, Standings
<1>8. ASSUME NEW u \in People, DeletePerson(u)
      PROVE  Rest
  <2>1. standing' \in [People -> Standings] /\ reviewing' = reviewing /\ tick' = tick
    BY <1>8 DEF DeletePerson, TypeInv, Standings
  <2>2. \A r \in ReportIds : setNull(reports[r], u) \in Reports
    <3> SUFFICES ASSUME NEW r \in ReportIds
                 PROVE  setNull(reports[r], u) \in Reports
      OBVIOUS
    <3>1. reports[r] \in Reports
      BY DEF TypeInv
    <3>2. {i \in reports[r].message : \E m \in messages' : m.id = i} \in SUBSET Nat
      BY <3>1 DEF Reports
    <3> QED
      BY <3>1, <3>2 DEF setNull, Reports
  <2>3. reports' \in [ReportIds -> Reports]
    BY <1>8, <2>2 DEF DeletePerson
  <2> QED
    BY <2>1, <2>3 DEF TypeInv
<1>9. ASSUME NEW r \in ReportIds, NEW u \in People,
             (\E v \in People : ReportUser(r, u, v)) \/ (\E m \in messages : ReportMessage(r, u, m))
      PROVE  Rest
  <2>1. UNCHANGED <<standing, reviewing, tick>>
    BY <1>9 DEF ReportUser, ReportMessage, createReportTx, graph
  <2> QED
    BY <1>9, <2>1, ReportTyped DEF TypeInv
<1>10. ASSUME NEW m \in Moderators, resolveTx(m)
       PROVE  Rest
  BY <1>10, ResolutionTyped DEF TypeInv
<1>11. ASSUME NEW m \in Moderators, NEW r \in ReportIds, NEW action \in Actions, ResolveReport(m, r, action)
       PROVE  Rest
  BY <1>11 DEF ResolveReport, graph, TypeInv
<1>12. Rest
  <2> HIDE DEF Rest
  <2> QED
    BY <1>3, <1>4, <1>5, <1>6, <1>7, <1>8, <1>9, <1>10, <1>11 DEF StatementCases
<1> QED
  BY <1>1, <1>2, <1>12 DEF TypeInv

\* So does every step of a request.
LEMMA HandlerTyped ==
  ASSUME CommunityInv, NEW h \in Handlers, HandlerCases(h)
  PROVE  TypeInv'
<1> USE DEF CommunityInv
<1>1. messages' \in SUBSET Mail /\ IsFiniteSet(messages')
  BY HandlersSend, SentMail DEF TypeInv
<1> QED
  BY <1>1, HandlerMoves, HandlerFrame DEF moderationVars, TypeInv

\* Requests stay between two people.
LEMMA PartiesStep ==
  ASSUME CommunityInv, [ModerationNext]_communityVars
  PROVE  PartiesInv'
<1> USE DEF CommunityInv
<1>1. CASE handling' = handling
  BY <1>1 DEF PartiesInv
<1>2. ASSUME NEW h \in Handlers, HandlerCases(h)
      PROVE  PartiesInv'
  BY <1>2, HandlerMoves DEF PartiesInv, Accepted, Advanced, Idle
<1> QED
  BY <1>1, <1>2, NextCases, StatementsTakeNoLock DEF communityVars, socialVars

\* A lock's name depends on the two people only.
LEMMA LockNamesStay ==
  ASSUME NEW h, handling'[h].who = handling[h].who, handling'[h].whom = handling[h].whom
  PROVE  /\ Pair(h)' = Pair(h) /\ PairAdvisory(h)' = PairAdvisory(h)
         /\ SenderAdvisory(h)' = SenderAdvisory(h) /\ ThreadAdvisory(h)' = ThreadAdvisory(h)
BY DEF Pair, PairAdvisory, SenderAdvisory, ThreadAdvisory

\* A request goes past a lock only by taking it, and a lock that is held is not
\* granted to another.
LEMMA LockStep ==
  ASSUME CommunityInv, NEW h \in Handlers, HandlerCases(h)
  PROVE  LockInv'
<1> USE DEF CommunityInv
<1> DEFINE Holds(g) ==
             /\ handling[g].at \in {"exists", "insert", "blockCommit"} => locks[PairAdvisory(g)] = {g}
             /\ handling[g].at \in {"thread", "count", "write"} => locks[SenderAdvisory(g)] = {g}
             /\ handling[g].at \in {"count", "write"} => locks[ThreadAdvisory(g)] = {g}
<1>1. ASSUME NEW g \in Handlers \ {h}
      PROVE  Holds(g)'
  <2>1. handling'[g] = handling[g] /\ \A k \in LockKeys : locks[k] = {g} => locks'[k] = {g}
    BY HandlerMoves
  <2>2. Holds(g)
    BY DEF LockInv
  <2> QED
    BY <2>1, <2>2, LockNames, LockNamesStay
<1>2. Holds(h)'
  <2>1. CASE Accepted(h) \/ handling'[h] = Idle
    BY <2>1 DEF Accepted, Idle
  <2>2. CASE Advanced(h)
    <3>1. /\ PairAdvisory(h)' = PairAdvisory(h) /\ SenderAdvisory(h)' = SenderAdvisory(h)
          /\ ThreadAdvisory(h)' = ThreadAdvisory(h)
      BY <2>2, LockNamesStay DEF Advanced
    <3>2. /\ PairMutex(h) \in LockKeys /\ PairAdvisory(h) \in LockKeys
          /\ SenderAdvisory(h) \in LockKeys /\ ThreadAdvisory(h) \in LockKeys
      BY <2>2, LockNames DEF Advanced
    <3>3. Holds(h) /\ \A k \in LockKeys : locks[k] = {h} => locks'[k] = {h}
      BY <2>2 DEF LockInv, Advanced
    <3>4. CASE lockPair(h) \/ checkInteraction(h)
      <4>1. handling'[h].at \in {"check", "blockTx", "followTx", "idle"}
        BY <3>4, GoMoves, FinishMoves DEF lockPair, checkInteraction, Labels, Idle
      <4> QED
        BY <4>1
    <3>5. CASE followLock(h) \/ blockLock(h)
      <4>1. handling'[h].at \in {"exists", "blockCommit"} /\ locks'[PairAdvisory(h)] = {h}
        BY <3>2, <3>5, GoMoves, LockMoves DEF followLock, blockLock, Labels
      <4> QED
        BY <3>1, <4>1
    <3>6. CASE followBlocked(h)
      <4>1. handling[h].at = "exists" /\ handling'[h].at \in {"insert", "idle"}
        BY <3>6, GoMoves, FinishMoves DEF followBlocked, Labels, Idle
      <4> QED
        BY <3>1, <3>2, <3>3, <4>1
    <3>7. CASE lockSender(h)
      <4>1. handling'[h].at = "thread" /\ locks'[SenderAdvisory(h)] = {h}
        BY <3>2, <3>7, GoMoves, LockMoves DEF lockSender, Labels
      <4> QED
        BY <3>1, <4>1
    <3>8. CASE lockThread(h)
      <4>1. handling[h].at = "thread" /\ handling'[h].at = "count" /\ locks'[ThreadAdvisory(h)] = {h}
        BY <3>2, <3>8, GoMoves, LockMoves DEF lockThread, Labels
      <4> QED
        BY <3>1, <3>2, <3>3, <4>1
    <3>9. CASE countMessages(h)
      <4>1. handling[h].at = "count" /\ handling'[h].at \in {"write", "idle"}
        BY <3>9, GoMoves, FinishMoves DEF countMessages, Labels, Idle
      <4> QED
        BY <3>1, <3>2, <3>3, <4>1
    <3>10. CASE followInsert(h) \/ BlockAndRemoveRelationships(h) \/ CreateMessage(h)
      <4>1. handling'[h].at = "idle"
        BY <3>10, FinishMoves DEF followInsert, BlockAndRemoveRelationships, CreateMessage, Idle
      <4> QED
        BY <4>1
    <3>11. ASSUME NEW u \in People, NEW v \in People, Follow(h, u, v) \/ Block(h, u, v) \/ SendMessage(h, u, v)
           PROVE  FALSE
      BY <2>2, <3>11 DEF Follow, Block, SendMessage, Accept, Advanced
    <3> QED
      BY <3>4, <3>5, <3>6, <3>7, <3>8, <3>9, <3>10, <3>11 DEF HandlerCases, SocialStep
  <2> QED
    BY <2>1, <2>2, HandlerMoves
<1> QED
  BY <1>1, <1>2 DEF LockInv

\* Two requests past the same lock are one request.
LEMMA PairExclusion ==
  ASSUME CommunityInv, NEW g \in Handlers, NEW h \in Handlers,
         handling[g].at \in {"exists", "insert", "blockCommit"},
         handling[h].at \in {"exists", "insert", "blockCommit"}, Pair(g) = Pair(h)
  PROVE  g = h
BY DEF CommunityInv, LockInv, PairAdvisory

\* Two requests about to write a message share neither sender nor conversation: CreateMessage holds both locks.
LEMMA WritersExclude ==
  ASSUME CommunityInv, NEW g \in Handlers, NEW h \in Handlers, handling[g].at = "write", handling[h].at = "write",
         handling[g].who = handling[h].who \/ Pair(g) = Pair(h)
  PROVE  g = h
BY DEF CommunityInv, LockInv, SenderAdvisory, ThreadAdvisory

-----------------------------------------------------------------------------
(* The invariant is preserved: follows and blocks *)

\* Statements only take follows and blocks away.
LEMMA StatementsLoosen ==
  ASSUME StatementCases
  PROVE  follows' \subseteq follows /\ blocks' \subseteq blocks
BY DEF StatementCases, timePasses, Unfollow, Unblock, CreateConversation, HideMessage, MarkRead,
   MarkNotificationRead, suspensionEnds, DeletePerson, ReportUser, ReportMessage, createReportTx,
   resolveTx, ResolveReport, graph

\* Among the requests only the two transactions write the graph.
LEMMA HandlersTie ==
  ASSUME NEW h \in Handlers, HandlerCases(h)
  PROVE  followInsert(h) \/ BlockAndRemoveRelationships(h) \/ UNCHANGED <<follows, blocks>>
BY DEF HandlerCases, SocialStep, Follow, Block, SendMessage, lockPair, checkInteraction, followLock,
   followBlocked, followInsert, blockLock, BlockAndRemoveRelationships, lockSender, lockThread,
   countMessages, CreateMessage, graph

\* A request that gets past the existence check saw no block.
LEMMA InsertSawNoBlock ==
  ASSUME CommunityInv, NEW h \in Handlers, HandlerCases(h), handling'[h].at = "insert",
         NEW u \in People, NEW v \in People, handling'[h].who = {u}, handling'[h].whom = {v}
  PROVE  ~IsBlockedEitherDirection(u, v) /\ UNCHANGED <<follows, blocks>>
<1> USE DEF CommunityInv
<1>1. CASE followBlocked(h)
  <2>1. ~IsBlockedEitherDirection(Who(h), Whom(h)) /\ Go(h, "insert")
    BY <1>1, FinishMoves DEF followBlocked, Idle
  <2>2. handling[h].who = {u} /\ handling[h].whom = {v}
    BY <2>1, GoMoves DEF Labels
  <2> QED
    BY <1>1, <2>1, <2>2, PartyNames DEF followBlocked, graph
<1>2. CASE lockPair(h) \/ checkInteraction(h) \/ followLock(h) \/ blockLock(h) \/ lockSender(h)
           \/ lockThread(h) \/ countMessages(h)
  BY <1>2, GoMoves, FinishMoves DEF lockPair, checkInteraction, followLock, blockLock, lockSender,
     lockThread, countMessages, Labels, Idle
<1>3. CASE followInsert(h) \/ BlockAndRemoveRelationships(h) \/ CreateMessage(h)
  BY <1>3, FinishMoves DEF followInsert, BlockAndRemoveRelationships, CreateMessage, Idle
<1>4. ASSUME NEW x \in People, NEW y \in People, Follow(h, x, y) \/ Block(h, x, y) \/ SendMessage(h, x, y)
      PROVE  FALSE
  BY <1>4 DEF Follow, Block, SendMessage, Accept, TypeInv
<1> QED
  BY <1>1, <1>2, <1>3, <1>4 DEF HandlerCases, SocialStep

\* A block cannot land next to a follow about to be inserted: both hold the pair's
\* advisory lock.
LEMMA FollowStep ==
  ASSUME CommunityInv, NEW h \in Handlers, HandlerCases(h)
  PROVE  FollowInv'
<1> USE DEF CommunityInv
<1> SUFFICES ASSUME NEW g \in Handlers, handling'[g].at = "insert", NEW u \in People, NEW v \in People,
                    handling'[g].who = {u}, handling'[g].whom = {v}
             PROVE  ~IsBlockedEitherDirection(u, v)'
  BY DEF FollowInv
<1>1. CASE g = h
  BY <1>1, InsertSawNoBlock DEF IsBlockedEitherDirection
<1>2. CASE g # h
  <2>1. handling'[g] = handling[g]
    BY <1>2, HandlerMoves
  <2>2. ~IsBlockedEitherDirection(u, v)
    BY <2>1 DEF FollowInv
  <2>3. CASE BlockAndRemoveRelationships(h)
    <3>1. PICK x \in People, y \in People : x # y /\ handling[h].who = {x} /\ handling[h].whom = {y}
      BY <2>3 DEF PartiesInv, BlockAndRemoveRelationships
    <3>2. blocks' \subseteq blocks \cup {<<x, y>>}
      BY <2>3, <3>1, PartyNames DEF BlockAndRemoveRelationships
    <3>3. Pair(g) # Pair(h)
      BY <1>2, <2>1, <2>3, PairExclusion DEF BlockAndRemoveRelationships
    <3>4. {u, v} # {x, y}
      BY <2>1, <3>1, <3>3 DEF Pair
    <3> QED
      BY <2>2, <3>2, <3>4 DEF IsBlockedEitherDirection
  <2>4. CASE ~BlockAndRemoveRelationships(h)
    BY <2>2, <2>4, HandlersTie DEF followInsert, IsBlockedEitherDirection
  <2> QED
    BY <2>3, <2>4
<1> QED
  BY <1>1, <1>2

\* The two transactions keep blocks and follows apart.
LEMMA TieStep ==
  ASSUME CommunityInv, NEW h \in Handlers, HandlerCases(h)
  PROVE  BlockExcludesFollow'
<1> USE DEF CommunityInv
<1>1. CASE followInsert(h)
  <2>1. PICK x \in People, y \in People : x # y /\ handling[h].who = {x} /\ handling[h].whom = {y}
    BY <1>1 DEF PartiesInv, followInsert
  <2>2. blocks' = blocks /\ follows' \subseteq follows \cup {<<x, y>>}
    BY <1>1, <2>1, PartyNames DEF followInsert
  <2>3. ~IsBlockedEitherDirection(x, y)
    BY <1>1, <2>1 DEF FollowInv, followInsert
  <2> QED
    BY <2>2, <2>3 DEF BlockExcludesFollow, IsBlockedEitherDirection
<1>2. CASE BlockAndRemoveRelationships(h)
  <2>1. PICK x \in People, y \in People : x # y /\ handling[h].who = {x} /\ handling[h].whom = {y}
    BY <1>2 DEF PartiesInv, BlockAndRemoveRelationships
  <2>2. \/ UNCHANGED <<follows, blocks>>
        \/ blocks' = blocks \cup {<<x, y>>} /\ follows' = follows \ {<<x, y>>, <<y, x>>}
    BY <1>2, <2>1, PartyNames DEF BlockAndRemoveRelationships
  <2> QED
    BY <2>2 DEF BlockExcludesFollow
<1> QED
  BY <1>1, <1>2, HandlersTie DEF BlockExcludesFollow

-----------------------------------------------------------------------------
(* The invariant is preserved: budgets *)

\* The messages of a person, or of a pair, in the window that ends at t.
ByWithin(u, t)    == {m \in SentBy(u, t - UserWindow) : m.at <= t}
InWithin(pair, t) == {m \in SentIn(pair, t - ConversationWindow) : m.at <= t}

\* Thinning lowers the counts the policy and the budget are about.
LEMMA ThinnedBudgets ==
  ASSUME TypeInv, NEW f, Thins(f), NEW u, NEW pair, NEW t \in Int
  PROVE  /\ Cardinality(SentBy(u, t))' <= Cardinality(SentBy(u, t))
         /\ Cardinality(SentIn(pair, t))' <= Cardinality(SentIn(pair, t))
         /\ Cardinality(ByWithin(u, t))' <= Cardinality(ByWithin(u, t))
         /\ Cardinality(InWithin(pair, t))' <= Cardinality(InWithin(pair, t))
         /\ Cardinality(SentBy(u, t)) \in Nat /\ Cardinality(SentBy(u, t))' \in Nat
         /\ Cardinality(SentIn(pair, t)) \in Nat /\ Cardinality(SentIn(pair, t))' \in Nat
         /\ Cardinality(ByWithin(u, t)) \in Nat /\ Cardinality(ByWithin(u, t))' \in Nat
         /\ Cardinality(InWithin(pair, t)) \in Nat /\ Cardinality(InWithin(pair, t))' \in Nat
<1> DEFINE Less(S, T) == Cardinality(T) \in Nat /\ Cardinality(S) \in Nat /\ Cardinality(T) <= Cardinality(S)
<1>1. Less(SentBy(u, t), SentBy(u, t)')
  <2>1. \A m \in messages : f[m] \in SentBy(u, t)' => m \in SentBy(u, t)
    BY DEF Thins, SentBy
  <2> QED
    BY <2>1, ThinningCountsLess DEF SentBy
<1>2. Less(SentIn(pair, t), SentIn(pair, t)')
  <2>1. \A m \in messages : f[m] \in SentIn(pair, t)' => m \in SentIn(pair, t)
    BY DEF Thins, SentIn
  <2> QED
    BY <2>1, ThinningCountsLess DEF SentIn
<1>3. Less(ByWithin(u, t), ByWithin(u, t)')
  <2>1. \A m \in messages : f[m] \in ByWithin(u, t)' => m \in ByWithin(u, t)
    BY DEF Thins, SentBy, ByWithin
  <2> QED
    BY <2>1, ThinningCountsLess DEF SentBy, ByWithin
<1>4. Less(InWithin(pair, t), InWithin(pair, t)')
  <2>1. \A m \in messages : f[m] \in InWithin(pair, t)' => m \in InWithin(pair, t)
    BY DEF Thins, SentIn, InWithin
  <2> QED
    BY <2>1, ThinningCountsLess DEF SentIn, InWithin
<1> QED
  BY <1>1, <1>2, <1>3, <1>4

\* One message more, where the policy's count had room, stays within the limit.
LEMMA OneMore ==
  ASSUME NEW S, NEW B, IsFiniteSet(B), S \subseteq B, NEW L \in Nat, Cardinality(B) < L, NEW x
  PROVE  Cardinality(S \cup {x}) <= L
<1>1. IsFiniteSet(S) /\ Cardinality(S) <= Cardinality(B)
  BY FS_Subset
<1>2. Cardinality(S) \in Nat /\ Cardinality(B) \in Nat
  BY <1>1, FS_CardinalityType
<1>3. Cardinality(S \cup {x}) = IF x \in S THEN Cardinality(S) ELSE Cardinality(S) + 1
  BY <1>1, FS_AddElement
<1> QED
  BY <1>1, <1>2, <1>3

\* A request reaches the write only past the count, and nobody writes for the
\* same sender or conversation in between.
LEMMA BudgetStep ==
  ASSUME CommunityInv, NEW h \in Handlers, HandlerCases(h)
  PROVE  BudgetInv'
<1> USE DEF CommunityInv
<1> DEFINE Room(g) ==
             /\ UserLimit > 0 => \A u \in People : handling[g].who = {u} =>
                  Cardinality(SentBy(u, handling[g].stamp - UserWindow)) < UserLimit
             /\ ConversationLimit > 0 =>
                  Cardinality(SentIn(Pair(g), handling[g].stamp - ConversationWindow)) < ConversationLimit
<1> SUFFICES ASSUME NEW g \in Handlers, handling'[g].at = "write"
             PROVE  Room(g)'
  BY DEF BudgetInv
<1>1. CASE g = h
  <2>1. CASE countMessages(h)
    <3>1. withinPolicy(h) /\ Go(h, "write") /\ messages' = messages
      BY <1>1, <2>1, FinishMoves DEF countMessages, mail, Idle
    <3>2. /\ handling'[h].who = handling[h].who /\ handling'[h].stamp = handling[h].stamp
          /\ Pair(h)' = Pair(h)
      BY <3>1, GoMoves, LockNamesStay DEF Labels
    <3>3. PICK x \in People, y \in People : x # y /\ handling[h].who = {x} /\ handling[h].whom = {y}
      BY <2>1 DEF PartiesInv, countMessages
    <3>4. \A u \in People : handling[h].who = {u} => u = Who(h)
      BY <3>3, PartyNames
    <3> QED
      BY <1>1, <3>1, <3>2, <3>4 DEF withinPolicy, SentBy, SentIn
  <2>2. CASE lockPair(h) \/ checkInteraction(h) \/ followLock(h) \/ followBlocked(h) \/ blockLock(h)
             \/ lockSender(h) \/ lockThread(h)
    BY <1>1, <2>2, GoMoves, FinishMoves DEF lockPair, checkInteraction, followLock, followBlocked, blockLock,
       lockSender, lockThread, Labels, Idle
  <2>3. CASE followInsert(h) \/ BlockAndRemoveRelationships(h) \/ CreateMessage(h)
    BY <1>1, <2>3, FinishMoves DEF followInsert, BlockAndRemoveRelationships, CreateMessage, Idle
  <2>4. ASSUME NEW x \in People, NEW y \in People, Follow(h, x, y) \/ Block(h, x, y) \/ SendMessage(h, x, y)
        PROVE  FALSE
    BY <1>1, <2>4 DEF Follow, Block, SendMessage, Accept, TypeInv
  <2> QED
    BY <2>1, <2>2, <2>3, <2>4 DEF HandlerCases, SocialStep
<1>2. CASE g # h
  <2>1. handling'[g] = handling[g] /\ Pair(g)' = Pair(g)
    BY <1>2, HandlerMoves, LockNamesStay
  <2>2. Room(g)
    BY <2>1 DEF BudgetInv
  <2>3. CASE messages' = messages
    BY <2>1, <2>2, <2>3 DEF SentBy, SentIn
  <2>4. CASE CreateMessage(h) /\ messages' = messages \cup {NewMessage(h)}
    <3>1. handling[g].who # handling[h].who /\ Pair(g) # Pair(h)
      BY <1>2, <2>1, <2>4, WritersExclude DEF CreateMessage
    <3>2. PICK x \in People, y \in People : x # y /\ handling[h].who = {x} /\ handling[h].whom = {y}
      BY <2>4 DEF PartiesInv, CreateMessage
    <3>3. \A u \in People : handling[g].who = {u} => NewMessage(h).from # u
      BY <3>1, <3>2, PartyNames DEF NewMessage
    <3>4. NewMessage(h).in # Pair(g)
      BY <3>1 DEF NewMessage
    <3>5. \A u \in People, t \in Int : handling[g].who = {u} => SentBy(u, t)' = SentBy(u, t)
      BY <2>4, <3>3 DEF SentBy
    <3>6. \A t \in Int : SentIn(Pair(g), t)' = SentIn(Pair(g), t)
      BY <2>1, <2>4, <3>4 DEF SentIn
    <3>7. handling[g].stamp - UserWindow \in Int /\ handling[g].stamp - ConversationWindow \in Int
      BY SocialAssumption DEF TypeInv, Requests
    <3> QED
      BY <2>1, <2>2, <3>5, <3>6, <3>7
  <2> QED
    BY <2>3, <2>4, HandlersSend
<1> QED
  BY <1>1, <1>2

\* The message written keeps every window that contains its stamp within the
\* limits: the count looked at everything from the start of its own window on.
LEMMA WindowStep ==
  ASSUME CommunityInv, NEW h \in Handlers, HandlerCases(h)
  PROVE  MessageBudget'
<1> USE DEF CommunityInv
<1>1. CASE messages' = messages
  BY <1>1 DEF MessageBudget, SentBy, SentIn
<1>2. CASE CreateMessage(h) /\ messages' = messages \cup {NewMessage(h)}
  <2>1. PICK x \in People, y \in People : x # y /\ handling[h].who = {x} /\ handling[h].whom = {y}
    BY <1>2 DEF PartiesInv, CreateMessage
  <2> DEFINE s == handling[h].stamp
             n == NewMessage(h)
  <2>2. s \in Nat /\ n.from = x /\ n.in = Pair(h) /\ n.at = s
    BY <2>1, PartyNames DEF NewMessage, TypeInv, Requests
  <2>3. /\ UserLimit > 0 => Cardinality(SentBy(x, s - UserWindow)) < UserLimit
        /\ ConversationLimit > 0 => Cardinality(SentIn(Pair(h), s - ConversationWindow)) < ConversationLimit
    BY <1>2, <2>1 DEF BudgetInv, CreateMessage
  <2>4. \A m \in messages : m.at \in Nat
    BY DEF TypeInv, Mail
  <2> HIDE DEF s, n
  <2>5. ASSUME NEW t \in 1..LastTick, UserLimit > 0, NEW u \in People
        PROVE  Cardinality(ByWithin(u, t))' <= UserLimit
    <3>1. CASE n \in ByWithin(u, t)'
      <4>1. u = x /\ s <= t
        BY <2>2, <3>1 DEF ByWithin, SentBy
      <4>2. ByWithin(u, t) \subseteq SentBy(x, s - UserWindow)
        BY <2>2, <2>4, <4>1, SocialAssumption DEF ByWithin, SentBy
      <4>3. IsFiniteSet(SentBy(x, s - UserWindow))
        BY FS_Subset DEF SentBy, TypeInv
      <4>4. ByWithin(u, t)' = ByWithin(u, t) \cup {n}
        BY <1>2, <3>1 DEF ByWithin, SentBy, n
      <4> QED
        BY <2>3, <2>5, <4>2, <4>3, <4>4, OneMore, SocialAssumption
    <3>2. CASE n \notin ByWithin(u, t)'
      <4>1. ByWithin(u, t)' = ByWithin(u, t)
        BY <1>2, <3>2 DEF ByWithin, SentBy, n
      <4> QED
        BY <2>5, <4>1 DEF MessageBudget, ByWithin
    <3> QED
      BY <3>1, <3>2
  <2>6. ASSUME NEW t \in 1..LastTick, ConversationLimit > 0, NEW pair \in TwoPeople
        PROVE  Cardinality(InWithin(pair, t))' <= ConversationLimit
    <3>1. CASE n \in InWithin(pair, t)'
      <4>1. pair = Pair(h) /\ s <= t
        BY <2>2, <3>1 DEF InWithin, SentIn
      <4>2. InWithin(pair, t) \subseteq SentIn(Pair(h), s - ConversationWindow)
        BY <2>2, <2>4, <4>1, SocialAssumption DEF InWithin, SentIn
      <4>3. IsFiniteSet(SentIn(Pair(h), s - ConversationWindow))
        BY FS_Subset DEF SentIn, TypeInv
      <4>4. InWithin(pair, t)' = InWithin(pair, t) \cup {n}
        BY <1>2, <3>1 DEF InWithin, SentIn, n
      <4> QED
        BY <2>3, <2>6, <4>2, <4>3, <4>4, OneMore, SocialAssumption
    <3>2. CASE n \notin InWithin(pair, t)'
      <4>1. InWithin(pair, t)' = InWithin(pair, t)
        BY <1>2, <3>2 DEF InWithin, SentIn, n
      <4> QED
        BY <2>6, <4>1 DEF MessageBudget, InWithin
    <3> QED
      BY <3>1, <3>2
  <2> QED
    BY <2>5, <2>6 DEF MessageBudget, ByWithin, InWithin, TwoPeople
<1> QED
  BY <1>1, <1>2, HandlersSend

\* Statements and deletions only lower the counts.
LEMMA BudgetsThin ==
  ASSUME CommunityInv, StatementCases
  PROVE  BudgetInv' /\ MessageBudget'
<1> USE DEF CommunityInv
<1>1. PICK f : Thins(f)
  BY StatementsThin
<1>2. handling' = handling
  BY StatementsTakeNoLock
<1>3. \A h \in Handlers : /\ handling[h].stamp - UserWindow \in Int
                          /\ handling[h].stamp - ConversationWindow \in Int
                          /\ Pair(h)' = Pair(h)
  BY <1>2, SocialAssumption DEF TypeInv, Requests, Pair
<1>4. BudgetInv'
  <2> SUFFICES ASSUME NEW h \in Handlers, handling[h].at = "write"
               PROVE  /\ UserLimit > 0 => \A u \in People : handling[h].who = {u} =>
                           Cardinality(SentBy(u, handling[h].stamp - UserWindow)') < UserLimit
                      /\ ConversationLimit > 0 =>
                           Cardinality(SentIn(Pair(h), handling[h].stamp - ConversationWindow)') < ConversationLimit
    BY <1>2, <1>3 DEF BudgetInv, SentBy, SentIn
  <2>1. ASSUME NEW u \in People, handling[h].who = {u}, UserLimit > 0
        PROVE  Cardinality(SentBy(u, handling[h].stamp - UserWindow)') < UserLimit
    <3> DEFINE t == handling[h].stamp - UserWindow
    <3>1. Cardinality(SentBy(u, t)') <= Cardinality(SentBy(u, t))
      BY <1>1, <1>2, <1>3, ThinnedBudgets
    <3>2. Cardinality(SentBy(u, t)') \in Nat /\ Cardinality(SentBy(u, t)) \in Nat
      BY <1>1, <1>2, <1>3, ThinnedBudgets
    <3>3. Cardinality(SentBy(u, t)) < UserLimit
      BY <2>1 DEF BudgetInv
    <3> QED
      BY <3>1, <3>2, <3>3, SocialAssumption
  <2>2. ASSUME ConversationLimit > 0
        PROVE  Cardinality(SentIn(Pair(h), handling[h].stamp - ConversationWindow)') < ConversationLimit
    <3> DEFINE t == handling[h].stamp - ConversationWindow
    <3>1. Cardinality(SentIn(Pair(h), t)') <= Cardinality(SentIn(Pair(h), t))
      BY <1>1, <1>2, <1>3, ThinnedBudgets
    <3>2. Cardinality(SentIn(Pair(h), t)') \in Nat /\ Cardinality(SentIn(Pair(h), t)) \in Nat
      BY <1>1, <1>2, <1>3, ThinnedBudgets
    <3>3. Cardinality(SentIn(Pair(h), t)) < ConversationLimit
      BY <2>2 DEF BudgetInv
    <3> QED
      BY <3>1, <3>2, <3>3, SocialAssumption
  <2> QED
    BY <2>1, <2>2
<1>5. \A t \in 1..LastTick :
        /\ UserLimit > 0 => \A u \in People : Cardinality(ByWithin(u, t)') <= UserLimit
        /\ ConversationLimit > 0 => \A pair \in TwoPeople : Cardinality(InWithin(pair, t)') <= ConversationLimit
  <2> SUFFICES ASSUME NEW t \in 1..LastTick
               PROVE  /\ UserLimit > 0 => \A u \in People : Cardinality(ByWithin(u, t)') <= UserLimit
                      /\ ConversationLimit > 0 => \A pair \in TwoPeople : Cardinality(InWithin(pair, t)') <= ConversationLimit
    OBVIOUS
  <2>1. /\ UserLimit > 0 => \A u \in People : Cardinality(ByWithin(u, t)) <= UserLimit
        /\ ConversationLimit > 0 => \A pair \in TwoPeople : Cardinality(InWithin(pair, t)) <= ConversationLimit
    BY DEF MessageBudget, ByWithin, InWithin
  <2>2. t \in Int
    BY SocialAssumption
  <2>3. ASSUME NEW u \in People, UserLimit > 0
        PROVE  Cardinality(ByWithin(u, t)') <= UserLimit
    <3>1. Cardinality(ByWithin(u, t)') <= Cardinality(ByWithin(u, t))
      BY <1>1, <2>2, ThinnedBudgets
    <3>2. Cardinality(ByWithin(u, t)') \in Nat /\ Cardinality(ByWithin(u, t)) \in Nat
      BY <1>1, <2>2, ThinnedBudgets
    <3> QED
      BY <2>1, <2>3, <3>1, <3>2, SocialAssumption
  <2>4. ASSUME NEW pair \in TwoPeople, ConversationLimit > 0
        PROVE  Cardinality(InWithin(pair, t)') <= ConversationLimit
    <3>1. Cardinality(InWithin(pair, t)') <= Cardinality(InWithin(pair, t))
      BY <1>1, <2>2, ThinnedBudgets
    <3>2. Cardinality(InWithin(pair, t)') \in Nat /\ Cardinality(InWithin(pair, t)) \in Nat
      BY <1>1, <2>2, ThinnedBudgets
    <3> QED
      BY <2>1, <2>4, <3>1, <3>2, SocialAssumption
  <2> QED
    BY <2>3, <2>4
<1> QED
  BY <1>4, <1>5 DEF MessageBudget, ByWithin, InWithin, TwoPeople

-----------------------------------------------------------------------------
(* The invariant is preserved: reports, evidence and audit *)

\* A new report starts without a record and names rows that exist.
Opened(r) ==
  /\ reports[r].status = "none"
  /\ \E rep \in Reports :
       /\ reports' = [reports EXCEPT ![r] = rep]
       /\ rep.status = "open" /\ \E v \in People : rep.against = {v}
       /\ rep.message = {} \/ \E m \in messages : rep.message = {m.id}
  /\ UNCHANGED <<messages, standing, audit>>

\* A decision records itself on an unresolved report and has its effect.
Decided(r, action) ==
  /\ ~Resolved(reports[r].status)
  /\ \E m \in Moderators : recordResolution(m, r, action)
  /\ applyResolutionEffect(reports[r], action)

\* The statements that change what reports and their effects are made of.
LEMMA ReportCases ==
  ASSUME TypeInv, StatementCases
  PROVE  \/ UNCHANGED <<messages, standing, reports, audit>>
         \/ \E u \in People : suspensionEnds(u) \/ DeletePerson(u)
         \/ \E r \in ReportIds : Opened(r)
         \/ \E r \in ReportIds, action \in Actions \cup {"none"} : Decided(r, action)
<1> DEFINE Goal == \/ UNCHANGED <<messages, standing, reports, audit>>
                   \/ \E u \in People : suspensionEnds(u) \/ DeletePerson(u)
                   \/ \E r \in ReportIds : Opened(r)
                   \/ \E r \in ReportIds, action \in Actions \cup {"none"} : Decided(r, action)
<1>1. ASSUME NEW r \in ReportIds, NEW u \in People, NEW v \in People, NEW about \in SUBSET Nat,
             NEW evidence \in SUBSET People, createReportTx(r, u, v, about, evidence),
             about = {} \/ \E m \in messages : about = {m.id}
      PROVE  Opened(r)
  <2> DEFINE rep == [status |-> "open", by |-> {u}, against |-> {v}, message |-> about, evidence |-> evidence]
  <2>1. rep \in Reports
    BY DEF Reports, Statuses
  <2>2. rep.status = "open" /\ rep.against = {v} /\ rep.message = about
    OBVIOUS
  <2>3. /\ reports[r].status = "none" /\ reports' = [reports EXCEPT ![r] = rep]
        /\ UNCHANGED <<messages, standing, audit>>
    BY <1>1 DEF createReportTx, graph, mail
  <2> HIDE DEF rep
  <2> QED
    BY <1>1, <2>1, <2>2, <2>3 DEF Opened
<1>2. ASSUME NEW r \in ReportIds, NEW u \in People,
             (\E v \in People : ReportUser(r, u, v)) \/ (\E m \in messages : ReportMessage(r, u, m))
      PROVE  Goal
  <2>1. CASE \E v \in People : ReportUser(r, u, v)
    BY <1>1, <2>1 DEF ReportUser
  <2>2. ASSUME NEW m \in messages, ReportMessage(r, u, m)
        PROVE  Goal
    <3>1. m.id \in Nat /\ m.from \in People
      BY DEF TypeInv, Mail
    <3>2. Opened(r)
      BY <1>1, <2>2, <3>1 DEF ReportMessage
    <3> QED
      BY <3>2
  <2> QED
    BY <1>2, <2>1, <2>2
<1>3. ASSUME NEW m \in Moderators, resolveTx(m)
      PROVE  Goal
  <2>1. PICK r \in reviewing[m].report :
          \/ UNCHANGED <<messages, standing, reports, audit>>
          \/ /\ stillOpen(r)
             /\ recordResolution(m, r, reviewing[m].action)
             /\ applyResolutionEffect(reports[r], reviewing[m].action)
    BY <1>3, Zenon DEF resolveTx
  <2>2. r \in ReportIds /\ reviewing[m].action \in Actions \cup {"none"}
    BY DEF TypeInv
  <2> QED
    BY <2>1, <2>2 DEF Decided, stillOpen
<1>4. CASE timePasses /\ UNCHANGED moderationVars
  BY <1>4 DEF timePasses, moderationVars, graph, mail
<1>5. ASSUME NEW u \in People, NEW v \in People, Unfollow(u, v) \/ Unblock(u, v) \/ CreateConversation(u, v),
             UNCHANGED moderationVars
      PROVE  Goal
  BY <1>5 DEF Unfollow, Unblock, CreateConversation, moderationVars, graph, mail
<1>6. ASSUME NEW m \in messages, NEW u \in People, HideMessage(m, u) \/ MarkRead(m, u), UNCHANGED moderationVars
      PROVE  Goal
  BY <1>6 DEF HideMessage, MarkRead, moderationVars, graph, mail
<1>7. ASSUME NEW n \in notifications, MarkNotificationRead(n), UNCHANGED moderationVars
      PROVE  Goal
  BY <1>7 DEF MarkNotificationRead, moderationVars, graph, mail
<1>8. ASSUME NEW m \in Moderators, NEW r \in ReportIds, NEW action \in Actions, ResolveReport(m, r, action)
      PROVE  Goal
  BY <1>8 DEF ResolveReport, graph, mail
<1> QED
  BY <1>2, <1>3, <1>4, <1>5, <1>6, <1>7, <1>8 DEF StatementCases

\* What a resolution does to messages and accounts.
LEMMA EffectKeeps ==
  ASSUME TypeInv, NEW report \in Reports, NEW action, applyResolutionEffect(report, action)
  PROVE  /\ \A n \in messages' : \E m \in messages : n.id = m.id /\ (m.removed => n.removed)
         /\ \A m \in messages : \E n \in messages' : n.id = m.id
         /\ \A u \in People : standing[u] = "banned" => standing'[u] = "banned"
         /\ action = "content_removal" => \A n \in messages' : {n.id} = report.message => n.removed
         /\ action = "permanent_ban" => \A u \in People : {u} = report.against => standing'[u] = "banned"
<1>1. messages \subseteq Mail
  BY DEF TypeInv
<1>2. CASE action = "temporary_suspension"
  BY <1>2 DEF applyResolutionEffect
<1>3. CASE action = "permanent_ban"
  BY <1>3 DEF applyResolutionEffect
<1>4. CASE action = "content_removal"
  <2> DEFINE cut(m) == IF {m.id} = report.message THEN [m EXCEPT !.removed = TRUE] ELSE m
  <2>1. messages' = {cut(m) : m \in messages} /\ standing' = standing
    BY <1>4 DEF applyResolutionEffect
  <2>2. \A m \in messages : /\ cut(m).id = m.id
                            /\ m.removed => cut(m).removed
                            /\ {m.id} = report.message => cut(m).removed
    BY <1>1 DEF Mail
  <2> HIDE DEF cut
  <2> QED
    BY <1>4, <2>1, <2>2
<1>5. CASE action \notin {"temporary_suspension", "permanent_ban", "content_removal"}
  BY <1>5 DEF applyResolutionEffect
<1> QED
  BY <1>2, <1>3, <1>4, <1>5

\* What deleting an account leaves of a report.
LEMMA SetNullLeaves ==
  ASSUME TypeInv, NEW u \in People, DeletePerson(u), NEW r \in ReportIds
  PROVE  /\ reports'[r].status = reports[r].status /\ reports'[r].evidence = reports[r].evidence
         /\ reports'[r].against = reports[r].against \ {u}
         /\ reports'[r].message = {i \in reports[r].message : \E m \in messages' : m.id = i}
<1>1. reports[r] \in Reports
  BY DEF TypeInv
<1>2. reports'[r] = setNull(reports[r], u)
  BY DEF DeletePerson
<1> QED
  BY <1>1, <1>2 DEF setNull, Reports

\* What recording a decision leaves of the reports and the audit.
LEMMA RecordKeeps ==
  ASSUME TypeInv, NEW m, NEW r \in ReportIds, NEW action, recordResolution(m, r, action)
  PROVE  /\ \A q \in ReportIds : /\ reports'[q].against = reports[q].against
                                 /\ reports'[q].message = reports[q].message
                                 /\ reports'[q].evidence = reports[q].evidence
                                 /\ q # r => reports'[q] = reports[q] /\ Records(q)' = Records(q)
         /\ Resolved(reports'[r].status)
         /\ Records(r)' = Records(r) \cup {[report |-> r, by |-> m, action |-> action]}
<1>1. reports \in [ReportIds -> Reports]
  BY DEF TypeInv
<1>2. audit' = audit \cup {[report |-> r, by |-> m, action |-> action]}
  BY DEF recordResolution
<1>3. \A q \in ReportIds : q # r => Records(q)' = Records(q)
  BY <1>2 DEF Records
<1>4. Records(r)' = Records(r) \cup {[report |-> r, by |-> m, action |-> action]}
  BY <1>2 DEF Records
<1> QED
  BY <1>1, <1>3, <1>4 DEF recordResolution, Reports, Resolved

\* A report keeps naming one account and one message that exist: the foreign keys
\* null what a deletion takes away, and a removed message stays as a tombstone.
LEMMA ReferenceStep ==
  ASSUME CommunityInv, StatementCases
  PROVE  ReferenceInv'
<1> USE DEF CommunityInv
<1>1. CASE UNCHANGED <<messages, standing, reports, audit>>
  BY <1>1 DEF ReferenceInv
<1>2. ASSUME NEW u \in People, suspensionEnds(u)
      PROVE  ReferenceInv'
  BY <1>2 DEF suspensionEnds, mail, moderationVars, ReferenceInv
<1>3. ASSUME NEW u \in People, DeletePerson(u)
      PROVE  ReferenceInv'
  BY <1>3, SetNullLeaves DEF ReferenceInv
<1>4. ASSUME NEW r \in ReportIds, Opened(r)
      PROVE  ReferenceInv'
  <2>1. reports \in [ReportIds -> Reports]
    BY DEF TypeInv
  <2>2. PICK rep \in Reports :
          /\ reports' = [reports EXCEPT ![r] = rep]
          /\ \E v \in People : rep.against = {v}
          /\ rep.message = {} \/ \E m \in messages : rep.message = {m.id}
          /\ messages' = messages
    BY <1>4 DEF Opened
  <2>3. \A q \in ReportIds : reports'[q] = IF q = r THEN rep ELSE reports[q]
    BY <2>1, <2>2
  <2> QED
    BY <2>2, <2>3 DEF ReferenceInv
<1>5. ASSUME NEW r \in ReportIds, NEW action \in Actions \cup {"none"}, Decided(r, action)
      PROVE  ReferenceInv'
  <2>1. reports[r] \in Reports
    BY DEF TypeInv
  <2>2. \A m \in messages : \E n \in messages' : n.id = m.id
    BY <1>5, <2>1, EffectKeeps DEF Decided
  <2>3. \A q \in ReportIds : reports'[q].against = reports[q].against /\ reports'[q].message = reports[q].message
    BY <1>5, RecordKeeps DEF Decided
  <2> QED
    BY <2>2, <2>3 DEF ReferenceInv
<1> QED
  BY <1>1, <1>2, <1>3, <1>4, <1>5, ReportCases

\* One report's part of AuditInv.
AuditOf(r) ==
  /\ Resolved(reports[r].status) => \E a \in audit : Records(r) = {a}
  /\ ~Resolved(reports[r].status) => Records(r) = {}
  /\ \A a \in Records(r) :
       /\ a.action = "content_removal" => \A m \in messages : {m.id} = reports[r].message => m.removed
       /\ a.action = "permanent_ban" => \A u \in reports[r].against : standing[u] = "banned"

\* A resolved report keeps its record and the effect of it; an unresolved one gets
\* its first record together with the effect.
LEMMA AuditStep ==
  ASSUME CommunityInv, StatementCases
  PROVE  AuditInv'
<1> USE DEF CommunityInv
<1> SUFFICES ASSUME NEW q \in ReportIds
             PROVE  AuditOf(q)'
  BY DEF AuditInv, AuditOf
<1>0. AuditOf(q) /\ reports[q] \in Reports
  BY DEF AuditInv, AuditOf, TypeInv
<1>1. CASE UNCHANGED <<messages, standing, reports, audit>>
  BY <1>0, <1>1 DEF AuditOf, Records
<1>2. ASSUME NEW u \in People, suspensionEnds(u)
      PROVE  AuditOf(q)'
  <2>1. UNCHANGED <<messages, reports, audit>>
    BY <1>2 DEF suspensionEnds, mail, moderationVars
  <2>2. \A v \in reports[q].against : standing[v] = "banned" => standing'[v] = "banned"
    BY <1>0, <1>2 DEF suspensionEnds, TypeInv, Reports
  <2> QED
    BY <1>0, <2>1, <2>2 DEF AuditOf, Records
<1>3. ASSUME NEW u \in People, DeletePerson(u)
      PROVE  AuditOf(q)'
  <2>1. audit' = audit /\ messages' \subseteq messages
    BY <1>3 DEF DeletePerson
  <2>2. \A v \in reports'[q].against : v \in reports[q].against /\ standing'[v] = standing[v]
    <3>1. reports'[q].against = reports[q].against \ {u}
      BY <1>3, SetNullLeaves
    <3>2. \A v \in People \ {u} : standing'[v] = standing[v]
      BY <1>3 DEF DeletePerson, TypeInv
    <3>3. reports[q].against \subseteq People
      BY <1>0 DEF Reports
    <3> QED
      BY <3>1, <3>2, <3>3
  <2>3. \A m \in messages' : {m.id} = reports'[q].message => {m.id} = reports[q].message
    BY <1>3, SetNullLeaves DEF ReferenceInv
  <2>4. reports'[q].status = reports[q].status
    BY <1>3, SetNullLeaves
  <2> QED
    BY <1>0, <2>1, <2>2, <2>3, <2>4 DEF AuditOf, Records
<1>4. ASSUME NEW r \in ReportIds, Opened(r)
      PROVE  AuditOf(q)'
  <2>1. \/ reports'[q] = reports[q]
        \/ Records(q) = {} /\ ~Resolved(reports'[q].status)
    <3>1. PICK rep \in Reports : reports' = [reports EXCEPT ![r] = rep] /\ rep.status = "open"
      BY <1>4 DEF Opened
    <3>2. reports'[q] = IF q = r THEN rep ELSE reports[q]
      BY <3>1 DEF TypeInv
    <3>3. q = r => Records(q) = {}
      BY <1>0, <1>4 DEF Opened, AuditOf, Resolved
    <3> QED
      BY <3>1, <3>2, <3>3 DEF Resolved
  <2> QED
    BY <1>0, <1>4, <2>1 DEF Opened, AuditOf, Records
<1>5. ASSUME NEW r \in ReportIds, NEW action \in Actions \cup {"none"}, Decided(r, action)
      PROVE  AuditOf(q)'
  <2>1. reports[r] \in Reports
    BY DEF TypeInv
  <2>2. /\ \A n \in messages' : \E m \in messages : n.id = m.id /\ (m.removed => n.removed)
        /\ \A u \in People : standing[u] = "banned" => standing'[u] = "banned"
        /\ action = "content_removal" => \A n \in messages' : {n.id} = reports[r].message => n.removed
        /\ action = "permanent_ban" => \A u \in People : {u} = reports[r].against => standing'[u] = "banned"
    BY <1>5, <2>1, EffectKeeps DEF Decided
  <2>3. PICK m \in Moderators : recordResolution(m, r, action)
    BY <1>5 DEF Decided
  <2>4. reports'[q].against = reports[q].against /\ reports'[q].message = reports[q].message
    BY <2>3, RecordKeeps
  <2>5. CASE q # r
    <3>1. reports'[q] = reports[q] /\ Records(q)' = Records(q)
      BY <2>3, <2>5, RecordKeeps
    <3>2. \A u \in reports[q].against : u \in People
      BY <1>0 DEF Reports
    <3>3. Resolved(reports[q].status) => \E a \in audit' : Records(q)' = {a}
      BY <1>0, <3>1 DEF AuditOf, Records
    <3> QED
      BY <1>0, <2>2, <3>1, <3>2, <3>3 DEF AuditOf
  <2>6. CASE q = r
    <3> DEFINE rec == [report |-> r, by |-> m, action |-> action]
    <3>1. Records(r)' = {rec} /\ Resolved(reports'[r].status)
      BY <1>0, <1>5, <2>3, <2>6, RecordKeeps DEF Decided, AuditOf
    <3>2. rec \in audit' /\ rec.action = action
      BY <2>3 DEF recordResolution
    <3>3. \A u \in reports[r].against : u \in People /\ {u} = reports[r].against
      BY <2>1 DEF ReferenceInv, Reports
    <3> HIDE DEF rec
    <3> QED
      BY <2>2, <2>4, <2>6, <3>1, <3>2, <3>3 DEF AuditOf
  <2> QED
    BY <2>5, <2>6
<1> QED
  BY <1>1, <1>2, <1>3, <1>4, <1>5, ReportCases

\* A message sent is not one a report is about.
LEMMA SendKeepsReports ==
  ASSUME CommunityInv, NEW h \in Handlers, HandlerCases(h)
  PROVE  ReferenceInv' /\ AuditInv'
<1> USE DEF CommunityInv
<1>1. UNCHANGED <<reports, audit, standing>>
  BY HandlerFrame DEF moderationVars
<1>2. CASE messages' = messages
  BY <1>1, <1>2 DEF ReferenceInv, AuditInv, Records
<1>3. CASE messages' = messages \cup {NewMessage(h)}
  <2>1. \A m \in messages : m.id # NewMessage(h).id
    BY UnusedIdIsUnused DEF NewMessage, TypeInv
  <2>2. \A r \in ReportIds : {NewMessage(h).id} # reports[r].message
    BY <2>1 DEF ReferenceInv
  <2> QED
    BY <1>1, <1>3, <2>2 DEF ReferenceInv, AuditInv, Records
<1> QED
  BY <1>2, <1>3, HandlersSend

-----------------------------------------------------------------------------
(* Theorems *)

\* The initial state satisfies the inductive invariant: nobody is blocked and no
\* message or report exists.
LEMMA InitInv == ModerationInit => CommunityInv
<1> SUFFICES ASSUME ModerationInit PROVE CommunityInv
  OBVIOUS
<1> USE DEF ModerationInit, SocialInit
<1>1. TypeInv
  <2>1. Idle \in Requests /\ NoReport \in Reports
    BY DEF Idle, Requests, Labels, NoReport, Reports, Statuses
  <2>2. IsFiniteSet(messages)
    BY FS_EmptySet
  <2> QED
    BY <2>1, <2>2 DEF TypeInv, NoReview, Standings
<1>2. PartiesInv /\ LockInv /\ FollowInv /\ BudgetInv
  BY DEF PartiesInv, LockInv, FollowInv, BudgetInv, Idle
<1>3. BlockExcludesFollow /\ IdsInv
  BY DEF BlockExcludesFollow, IdsInv
<1>4. MessageBudget
  <2>1. \A u, t : Cardinality(ByWithin(u, t)) = 0
    <3>1. \A u, t : ByWithin(u, t) = {}
      BY DEF ByWithin, SentBy
    <3> QED
      BY <3>1, FS_EmptySet
  <2>2. \A pair, t : Cardinality(InWithin(pair, t)) = 0
    <3>1. \A pair, t : InWithin(pair, t) = {}
      BY DEF InWithin, SentIn
    <3> QED
      BY <3>1, FS_EmptySet
  <2>3. \A t : /\ \A u \in People : Cardinality(ByWithin(u, t)) <= UserLimit
              /\ \A pair \in TwoPeople : Cardinality(InWithin(pair, t)) <= ConversationLimit
    BY <2>1, <2>2, SocialAssumption
  <2> QED
    BY <2>3 DEF MessageBudget, ByWithin, InWithin
<1>5. ReferenceInv /\ AuditInv
  BY DEF ReferenceInv, AuditInv, Records, NoReport, Resolved
<1> QED
  BY <1>1, <1>2, <1>3, <1>4, <1>5 DEF CommunityInv

\* The inductive invariant holds of every step of requests, moderators, deletions
\* and time.
THEOREM CommunityInvariance == CommunitySpec => []CommunityInv
<1>1. CommunityInv /\ [ModerationNext]_communityVars => CommunityInv'
  <2> SUFFICES ASSUME CommunityInv, [ModerationNext]_communityVars
               PROVE  CommunityInv'
    OBVIOUS
  <2>1. CASE UNCHANGED communityVars
    <3> USE <2>1 DEF communityVars, socialVars, moderationVars, CommunityInv
    <3>1. TypeInv' /\ PartiesInv'
      BY DEF TypeInv, PartiesInv
    <3>2. LockInv'
      BY DEF LockInv, PairAdvisory, SenderAdvisory, ThreadAdvisory, Pair
    <3>3. FollowInv' /\ BlockExcludesFollow'
      BY DEF FollowInv, BlockExcludesFollow, IsBlockedEitherDirection
    <3>4. BudgetInv' /\ MessageBudget'
      BY DEF BudgetInv, MessageBudget, SentBy, SentIn, Pair
    <3>5. IdsInv' /\ ReferenceInv' /\ AuditInv'
      BY DEF IdsInv, ReferenceInv, AuditInv, Records
    <3> QED
      BY <3>1, <3>2, <3>3, <3>4, <3>5
  <2>2. CASE StatementCases
    <3>1. UNCHANGED <<handling, locks>> /\ follows' \subseteq follows /\ blocks' \subseteq blocks
      BY <2>2, StatementsTakeNoLock, StatementsLoosen
    <3>2. LockInv' /\ FollowInv' /\ BlockExcludesFollow'
      BY <3>1 DEF CommunityInv, LockInv, FollowInv, BlockExcludesFollow, PairAdvisory, SenderAdvisory,
         ThreadAdvisory, Pair, IsBlockedEitherDirection
    <3>3. IdsInv'
      BY <2>2, StatementsThin, ThinnedMail DEF CommunityInv
    <3> QED
      BY <2>2, <3>2, <3>3, StatementTyped, PartiesStep, BudgetsThin, ReferenceStep, AuditStep DEF CommunityInv
  <2>3. ASSUME NEW h \in Handlers, HandlerCases(h)
        PROVE  CommunityInv'
    <3>1. IdsInv'
      BY <2>3, HandlersSend, SentMail DEF CommunityInv, IdsInv
    <3> QED
      BY <2>3, <3>1, HandlerTyped, PartiesStep, LockStep, FollowStep, TieStep, BudgetStep, WindowStep,
         SendKeepsReports DEF CommunityInv
  <2> QED
    BY <2>1, <2>2, <2>3, NextCases
<1> QED
  BY <1>1, InitInv, PTL DEF CommunitySpec, communityVars

\* Follow and Block, on whichever replicas: a block and a follow never stand
\* between the same two people.
THEOREM BlocksHold == CommunitySpec => []BlockExcludesFollow
<1>1. CommunityInv => BlockExcludesFollow
  BY DEF CommunityInv
<1> QED
  BY <1>1, CommunityInvariance, PTL

\* CreateMessage: no window holds more messages of one sender, or in one
\* conversation, than the abuse policy allows, for any limits and windows.
THEOREM BudgetsHold == CommunitySpec => []MessageBudget
<1>1. CommunityInv => MessageBudget
  BY DEF CommunityInv
<1> QED
  BY <1>1, CommunityInvariance, PTL

\* resolveTx: a report is resolved at most once and what its record says was done
\* stays done, across concurrent moderators, deletions and suspensions.
THEOREM ResolutionsStand == CommunitySpec => []ResolvedOnceWithItsEffect
<1>1. CommunityInv => ResolvedOnceWithItsEffect
  <2> SUFFICES ASSUME CommunityInv, NEW r \in ReportIds
               PROVE  /\ Cardinality(Records(r)) = IF Resolved(reports[r].status) THEN 1 ELSE 0
                      /\ AuditOf(r)
    BY DEF ResolvedOnceWithItsEffect, Records, AuditOf
  <2>1. AuditOf(r)
    BY DEF CommunityInv, AuditInv, AuditOf
  <2> QED
    BY <2>1, FS_EmptySet, FS_Singleton DEF AuditOf
<1> QED
  BY <1>1, CommunityInvariance, PTL

\* createReportTx stores the evidence once: no deletion, resolution or later
\* report rewrites it.
THEOREM EvidenceStays == CommunitySpec => EvidenceIsRetained
<1>1. CommunityInv /\ [ModerationNext]_communityVars =>
        [\A r \in ReportIds : reports[r].status # "none" => reports'[r].evidence = reports[r].evidence]_communityVars
  <2> SUFFICES ASSUME CommunityInv, [ModerationNext]_communityVars, NEW r \in ReportIds, reports[r].status # "none"
               PROVE  reports'[r].evidence = reports[r].evidence
    OBVIOUS
  <2> USE DEF CommunityInv
  <2>1. CASE reports' = reports
    BY <2>1
  <2>2. ASSUME NEW u \in People, DeletePerson(u)
        PROVE  reports'[r].evidence = reports[r].evidence
    BY <2>2, SetNullLeaves
  <2>3. ASSUME NEW q \in ReportIds, Opened(q)
        PROVE  reports'[r].evidence = reports[r].evidence
    BY <2>3 DEF Opened, TypeInv
  <2>4. ASSUME NEW q \in ReportIds, NEW action, Decided(q, action)
        PROVE  reports'[r].evidence = reports[r].evidence
    BY <2>4, RecordKeeps DEF Decided
  <2>5. reports' = reports \/ StatementCases
    BY NextCases, HandlerFrame DEF communityVars, moderationVars
  <2> QED
    BY <2>1, <2>2, <2>3, <2>4, <2>5, ReportCases DEF suspensionEnds, moderationVars
<1> QED
  BY <1>1, CommunityInvariance, PTL DEF CommunitySpec, EvidenceIsRetained, communityVars
=============================================================================
