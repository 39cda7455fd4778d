------------------------ MODULE MutationCoordinator -------------------------
(***************************************************************************)
(* The protocol around one portfolio's aggregate transaction               *)
(* (internal/portfolio/coordinator.go, store.go, postgres_store.go): many  *)
(* callers run Apply, Service.CorrectActivity and EnsureRankedEpoch at     *)
(* once.  Each reads outside the lock (idempotency preflight, correction   *)
(* lookup, held symbols to quote), then takes the row lock, reads again,   *)
(* and commits or rolls back everything it staged.                         *)
(*                                                                         *)
(* The book is the set of symbols held: composition is what the coverage   *)
(* check is about; what a mutation does to amounts is PortfolioLedger.     *)
(* The lock is explicit and the writes of a transaction are computed from  *)
(* what it read, so that a commit over a stale read would lose an update.  *)
(* The unique index on (user, request id) is a second line of defence that *)
(* the model leaves out: the lock must suffice.                            *)
(***************************************************************************)
EXTENDS Integers, FiniteSets

CONSTANTS
  Calls,        \* concurrent calls
  Keys,         \* idempotency keys
  NoKey,        \* a call without one
  Symbols,      \* symbols a call may open or close
  NoCall,       \* nobody holds the lock
  MaxAttempts,  \* maxMutationAttempts
  Ops           \* the operations this instance lets callers send

ASSUME CoordinatorAssumption ==
  /\ NoKey \notin Keys /\ NoCall \notin Calls
  /\ MaxAttempts \in Nat \ {0}
  /\ Ops \subseteq {"open", "close", "cash", "correct", "ensure"}

VARIABLES
  pc, req, pinned, priced, attempts, snap, result,  \* per call
  held,     \* symbols with an open position
  version,  \* Portfolio.Version
  ranked,   \* version of the ranked state, 0 when there is none
  audits,   \* portfolio_mutation_audit
  outbox,   \* versions announced by outbox events
  holder    \* the call that holds SELECT ... FOR UPDATE on the portfolio row

calls == <<pc, req, pinned, priced, attempts, snap, result>>
book  == <<held, version, ranked, audits, outbox>>
vars  == <<calls, book, holder>>

-----------------------------------------------------------------------------
(* Requests *)

Bodies == [op : Ops \cap {"open", "close"}, sym : Symbols]
          \cup [op : Ops \cap {"cash", "correct", "ensure"}, sym : {NoKey}]

Request(k, b) == [key |-> k, op |-> b.op, sym |-> b.sym]
NoRequest     == [key |-> NoKey, op |-> "none", sym |-> NoKey]
Requests      == {Request(k, b) : k \in Keys \cup {NoKey}, b \in Bodies}

NoSnap   == [held |-> {}, version |-> 0, ranked |-> 0]
NoResult == [status |-> "none", version |-> 0]
Refusal(why) == [status |-> why, version |-> 0]

\* validate's seed: the symbol a purchase names must be priced.
Seed(r) == IF r.op = "open" THEN {r.sym} ELSE {}

After(r, h) ==
  CASE r.op = "open"  -> h \cup {r.sym}
    [] r.op = "close" -> h \ {r.sym}
    [] OTHER          -> h

\* A mutation commits with one audit row, one outbox event and the next version;
\* the epoch backfill writes the ranked state alone.
Mutates(r) == r.op # "ensure"

AuditsForNobody(r) == {}

AuditsFor(r) == {a \in audits : r.key # NoKey /\ a.req.key = r.key}

\* The fingerprint of checkIdempotencyAudit covers everything but the key.
SameRequest(a, r) == a.req = r

-----------------------------------------------------------------------------
(* A call, step by step *)

Goto(c, label) == pc' = [pc EXCEPT ![c] = label]

Return(c, res) == Goto(c, "done") /\ result' = [result EXCEPT ![c] = res]

Submit(c, k, b) ==
  /\ pc[c] = "idle"
  /\ b.op = "ensure" => k = NoKey
  /\ req' = [req EXCEPT ![c] = Request(k, b)]
  /\ Goto(c, CASE b.op = "correct" -> "check" [] b.op = "ensure" -> "pin" [] OTHER -> "preflight")
  /\ UNCHANGED <<pinned, priced, attempts, snap, result, book, holder>>

\* Service.CorrectActivity looks for an earlier correction before the coordinator
\* is entered, with no lock held.
CheckCorrection(c) ==
  /\ pc[c] = "check"
  /\ \/ /\ \E a \in audits : a.req.op = "correct"
        /\ Return(c, Refusal("already_corrected"))
     \/ /\ \A a \in audits : a.req.op # "correct"
        /\ Goto(c, "preflight") /\ UNCHANGED result
  /\ UNCHANGED <<req, pinned, priced, attempts, snap, book, holder>>

Preflight(c) ==
  /\ pc[c] = "preflight"
  /\ \/ /\ \E a \in AuditsFor(req[c]) : ~SameRequest(a, req[c])
        /\ Return(c, Refusal("conflict"))
     \/ /\ AuditsFor(req[c]) # {}
        /\ \A a \in AuditsFor(req[c]) : SameRequest(a, req[c])
        /\ Goto(c, "lock") /\ UNCHANGED result
     \/ /\ AuditsFor(req[c]) = {}
        /\ Goto(c, "pin") /\ UNCHANGED result
  /\ UNCHANGED <<req, pinned, priced, attempts, snap, book, holder>>

\* Quotes are pinned for the request's own symbol and for what a read outside
\* the lock says is held; a failing read is ignored, a failing quote is not.
Pin(c) ==
  /\ pc[c] = "pin"
  /\ \E seen \in {held, {}} :
       /\ seen = held \/ Mutates(req[c])
       /\ pinned' = [pinned EXCEPT ![c] = Seed(req[c]) \cup seen]
  /\ priced' = [priced EXCEPT ![c] = TRUE]
  /\ Goto(c, "lock")
  /\ UNCHANGED <<req, attempts, snap, result, book, holder>>

\* The price provider, the database or the caller's context gives up.  Inside
\* the transaction this is a rollback: nothing staged is published.
Fail(c) ==
  /\ pc[c] \in {"check", "preflight", "pin", "lock", "locked", "staged", "rebuild"}
  /\ Return(c, Refusal("failed"))
  /\ holder' = IF holder = c THEN NoCall ELSE holder
  /\ UNCHANGED <<req, pinned, priced, attempts, snap, book>>

AcquireWithoutLock(c) ==
  /\ pc[c] = "lock"
  /\ holder' = c
  /\ Goto(c, "locked")
  /\ UNCHANGED <<req, pinned, priced, attempts, snap, result, book>>

Acquire(c) ==
  /\ pc[c] = "lock" /\ holder = NoCall
  /\ holder' = c
  /\ Goto(c, "locked")
  /\ UNCHANGED <<req, pinned, priced, attempts, snap, result, book>>

\* The answer to a resend: the version its mutation reached then.
replay(a) == [status |-> "replayed", version |-> a.version]

\* The authoritative idempotency check of applyLocked.
ReplayLocked(c) ==
  /\ pc[c] = "locked"
  /\ \E a \in AuditsFor(req[c]) :
       Return(c, IF SameRequest(a, req[c])
                 THEN replay(a)
                 ELSE Refusal("conflict"))
  /\ holder' = NoCall
  /\ UNCHANGED <<req, pinned, priced, attempts, snap, book>>

Fresh(c) == pc[c] = "locked" /\ AuditsFor(req[c]) = {}

\* EnsureRankedEpoch on a portfolio that is already tracked.
AlreadyTracked(c) ==
  /\ Fresh(c) /\ req[c].op = "ensure" /\ ranked # 0
  /\ Return(c, Refusal("tracked"))
  /\ holder' = NoCall
  /\ UNCHANGED <<req, pinned, priced, attempts, snap, book>>

\* What the transaction reads under the lock.
Read == [held |-> held, version |-> version, ranked |-> ranked]

Proceeds(c) == Fresh(c) /\ (req[c].op = "ensure" => ranked = 0)

\* The coverage check against the locked set: roll back and quote what is missing.
Uncovered(c) ==
  /\ Proceeds(c) /\ ~(held \subseteq pinned[c])
  /\ attempts' = [attempts EXCEPT ![c] = @ + 1]
  /\ snap' = [snap EXCEPT ![c] = Read]
  /\ Goto(c, "rebuild")
  /\ holder' = NoCall
  /\ UNCHANGED <<req, pinned, priced, result, book>>

RejectKeepingLock(c) ==
  /\ Proceeds(c) /\ held \subseteq pinned[c] /\ Mutates(req[c])
  /\ Return(c, Refusal("rejected"))
  /\ UNCHANGED <<req, pinned, priced, attempts, snap, book, holder>>

\* The plan refuses: nothing to sell, not enough cash.
Reject(c) ==
  /\ Proceeds(c) /\ held \subseteq pinned[c] /\ Mutates(req[c])
  /\ Return(c, Refusal("rejected"))
  /\ holder' = NoCall
  /\ UNCHANGED <<req, pinned, priced, attempts, snap, book>>

Plan(c) ==
  /\ Proceeds(c) /\ held \subseteq pinned[c]
  /\ req[c].op = "close" => req[c].sym \in held
  /\ snap' = [snap EXCEPT ![c] = Read]
  /\ Goto(c, "staged")
  /\ UNCHANGED <<req, pinned, priced, attempts, result, book, holder>>

PutRankedState(v) == ranked' = v

SetPortfolioVersion(v) == version' = v

RecordAudit(r, v) == audits' = audits \cup {[req |-> r, version |-> v]}

\* Every write of the transaction, from what the transaction read, published
\* at once with the release of the lock.
Commit(c) ==
  /\ pc[c] = "staged"
  /\ PutRankedState(snap[c].ranked + 1)
  /\ IF Mutates(req[c])
     THEN /\ held' = After(req[c], snap[c].held)
          /\ version' = snap[c].version + 1
          /\ audits' = audits \cup {[req |-> req[c], version |-> snap[c].version + 1]}
          /\ outbox' = outbox \cup {snap[c].version + 1}
          /\ Return(c, [status |-> "committed", version |-> snap[c].version + 1])
     ELSE /\ Return(c, Refusal("tracked"))
          /\ UNCHANGED <<held, version, audits, outbox>>
  /\ holder' = NoCall
  /\ UNCHANGED <<req, pinned, priced, attempts, snap>>

\* Outside the lock again: quote what the locked set had and the pins lacked.  A
\* symbol opened since then is left for the next round; the last round gives up.
Rebuild(c) ==
  /\ pc[c] = "rebuild"
  /\ pinned' = [pinned EXCEPT ![c] = @ \cup snap[c].held]
  /\ IF attempts[c] < MaxAttempts
     THEN Goto(c, "lock") /\ UNCHANGED result
     ELSE Return(c, Refusal("busy"))
  /\ UNCHANGED <<req, priced, attempts, snap, book, holder>>

-----------------------------------------------------------------------------

Init ==
  /\ pc = [c \in Calls |-> "idle"]
  /\ req = [c \in Calls |-> NoRequest]
  /\ pinned = [c \in Calls |-> {}]
  /\ priced = [c \in Calls |-> FALSE]
  /\ attempts = [c \in Calls |-> 0]
  /\ snap = [c \in Calls |-> NoSnap]
  /\ result = [c \in Calls |-> NoResult]
  /\ held = {} /\ version = 1 /\ ranked = 0 /\ audits = {} /\ outbox = {}
  /\ holder = NoCall

Locked(c) == ReplayLocked(c) \/ AlreadyTracked(c) \/ Uncovered(c) \/ Reject(c) \/ Plan(c)

Step(c) == CheckCorrection(c) \/ Preflight(c) \/ Pin(c) \/ Acquire(c) \/ Locked(c) \/ Commit(c) \/ Rebuild(c)

Arrive(c) == \E k \in Keys \cup {NoKey}, b \in Bodies : Submit(c, k, b)

\* Nothing is left to do once every call has returned.
Quiescent == (\A c \in Calls : pc[c] = "done") /\ UNCHANGED vars

Next == Quiescent \/ \E c \in Calls : Arrive(c) \/ Step(c) \/ Fail(c)

Spec == Init /\ [][Next]_vars

\* Every call is a goroutine that runs until it returns; a caller may never come.
FairSpec == Spec /\ \A c \in Calls : WF_vars(Step(c))

-----------------------------------------------------------------------------
(* Properties *)

Labels   == {"idle", "check", "preflight", "pin", "lock", "locked", "staged", "rebuild", "done"}
Statuses == {"none", "failed", "already_corrected", "conflict", "replayed", "tracked", "rejected",
             "committed", "busy"}

\* The state of every call and of the book is well formed, and a call retries
\* the transaction at most MaxAttempts times.
TypeOK ==
  /\ pc \in [Calls -> Labels]
  /\ req \in [Calls -> Requests \cup {NoRequest}]
  /\ pinned \in [Calls -> SUBSET Symbols]
  /\ priced \in [Calls -> BOOLEAN]
  /\ attempts \in [Calls -> 0..MaxAttempts]
  /\ snap \in [Calls -> [held : SUBSET Symbols, version : Nat, ranked : Nat]]
  /\ result \in [Calls -> [status : Statuses, version : Nat]]
  /\ held \in SUBSET Symbols /\ version \in Nat \ {0} /\ ranked \in Nat
  /\ audits \in SUBSET [req : Requests, version : Nat]
  /\ outbox \in SUBSET Nat
  /\ holder \in Calls \cup {NoCall}

\* However often a keyed request is sent, and whichever calls overlap, one
\* mutation is committed for the key (audits are looked up in Preflight without
\* the lock and again under it).
AtMostOnce ==
  \A a, b \in audits : a.req.key = b.req.key /\ a.req.key # NoKey => a = b

\* The versions of the committed mutations are 2, 3, ... with no gap and no
\* version used twice; every one has its outbox event, and the ranked state
\* advances once per mutation: no commit is computed from a stale read.
VersionChain ==
  /\ {a.version : a \in audits} = 2..version
  /\ \A a, b \in audits : a.version = b.version => a = b
  /\ outbox = 2..version
  /\ IF ranked = 0 THEN version = 1 ELSE ranked \in {version - 1, version}

\* What is held is what the audited mutations, replayed in version order, leave:
\* the last one to touch a symbol decides, so no overlapping commit is lost.
BookMatchesAudits ==
  \A s \in Symbols :
    s \in held <=>
      \E a \in audits :
        /\ a.req.op = "open" /\ a.req.sym = s
        /\ \A b \in audits : b.req.op = "close" /\ b.req.sym = s => b.version < a.version

\* The replay path enters the transaction without quotes; it never gets past
\* the idempotency check to the code that would use them.
UnpricedCallsNeverPlan ==
  \A c \in Calls : pc[c] \in {"staged", "rebuild"} => priced[c]

\* A deposit or withdrawal is corrected at most once.
CorrectedOnce ==
  \A a, b \in audits : a.req.op = "correct" /\ b.req.op = "correct" => a = b

\* Every call that has begun returns, whatever the others do: the retry loop is
\* bounded and the lock is always released.
EveryCallReturns == \A c \in Calls : pc[c] # "idle" ~> pc[c] = "done"

-----------------------------------------------------------------------------
(* The inductive strengthening of the safety properties. *)

\* A call beyond "idle" carries a request, and has an attempt left until the
\* attempt is spent.
CallInv ==
  \A c \in Calls :
    /\ pc[c] # "idle" => req[c] \in Requests
    /\ pc[c] \notin {"rebuild", "done"} => attempts[c] < MaxAttempts

\* The lock is held by the one call inside the transaction.
LockInv == \A c \in Calls : pc[c] \in {"locked", "staged"} <=> holder = c

\* What a call has staged was read from the committed state as it still is.
StagedInv ==
  \A c \in Calls : pc[c] = "staged" =>
    /\ snap[c] = Read
    /\ AuditsFor(req[c]) = {}
    /\ req[c].op = "ensure" => ranked = 0

\* A call that skipped the quotes did so because its key was already audited.
PricedInv ==
  \A c \in Calls :
    /\ pc[c] \in {"lock", "locked"} => priced[c] \/ AuditsFor(req[c]) # {}
    /\ pc[c] \in {"staged", "rebuild"} => priced[c]

IInv ==
  /\ TypeOK /\ CallInv /\ LockInv /\ StagedInv /\ PricedInv
  /\ VersionChain /\ AtMostOnce /\ BookMatchesAudits

-----------------------------------------------------------------------------
(* Refinement: the calls behave as if each took effect in one step. *)

Took == {"committed", "replayed"}

\* The request of a call that has begun.
Asked == [c \in Calls |-> IF pc[c] = "idle" THEN [key |-> NoKey, op |-> "none"] ELSE req[c]]

\* The answer of a call that has returned; why it was refused does not matter.
Answer ==
  [c \in Calls |-> IF pc[c] # "done" THEN NoResult
                   ELSE IF result[c].status \in Took THEN result[c]
                   ELSE [status |-> "refused", version |-> 0]]

Abstract == INSTANCE AtomicPortfolio WITH asked <- Asked, reply <- Answer, log <- audits

\* The coordinator implements AtomicPortfolio: each call takes effect at most
\* once, at one instant, and a resend is answered with the first one's version.
Atomic == Abstract!Spec
=============================================================================
