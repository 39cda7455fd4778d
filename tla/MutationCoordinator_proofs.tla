--------------------- MODULE MutationCoordinator_proofs ---------------------
(***************************************************************************)
(* Safety of the mutation coordinator for any number of calls, keys and    *)
(* symbols and any retry limit.  IInv is inductive: the lock excludes      *)
(* (LockInv), so what a call has staged is still what is committed         *)
(* (StagedInv), so a commit extends the audit chain by one (VersionChain), *)
(* repeats no key (AtMostOnce) and loses no update (BookMatchesAudits).    *)
(* Only Commit writes the book; every other step leaves it alone.          *)
(***************************************************************************)
EXTENDS MutationCoordinator, TLAPS

\* What a request is made of (Requests, Bodies): a purchase names a symbol, and
\* only the epoch backfill is not a mutation.
LEMMA RequestFields ==
  ASSUME NEW r \in Requests
  PROVE  /\ r.key \in Keys \cup {NoKey}
         /\ r.op \in {"open", "close", "cash", "correct", "ensure"}
         /\ r.op \in {"open", "close"} => r.sym \in Symbols
BY CoordinatorAssumption DEF Requests, Request, Bodies

\* Submit builds a member of Requests.
LEMMA RequestMade ==
  ASSUME NEW k \in Keys \cup {NoKey}, NEW b \in Bodies
  PROVE  Request(k, b) \in Requests
BY DEF Requests

\* validate's seed only ever names tradable symbols.
LEMMA SeedSymbols ==
  ASSUME NEW r \in Requests \cup {NoRequest}
  PROVE  Seed(r) \subseteq Symbols
BY RequestFields DEF Seed, NoRequest

\* A step of a call, or a stutter: the cases of Next.
StepCases(c) ==
  \/ Arrive(c) \/ CheckCorrection(c) \/ Preflight(c) \/ Pin(c) \/ Acquire(c)
  \/ ReplayLocked(c) \/ AlreadyTracked(c) \/ Uncovered(c) \/ Reject(c) \/ Plan(c)
  \/ Commit(c) \/ Rebuild(c) \/ Fail(c)

\* Every step of Next is a step of one call or changes nothing.
LEMMA NextCases ==
  ASSUME [Next]_vars
  PROVE  UNCHANGED vars \/ \E c \in Calls : StepCases(c)
BY DEF Next, Quiescent, Step, Locked, StepCases

\* Only Commit writes the book (held, version, ranked, audits, outbox).
LEMMA OnlyCommitWrites ==
  ASSUME NEW c \in Calls, StepCases(c), ~Commit(c)
  PROVE  UNCHANGED book
BY DEF StepCases, Arrive, Submit, CheckCorrection, Preflight, Pin, Acquire, ReplayLocked,
       AlreadyTracked, Uncovered, Reject, Plan, Rebuild, Fail, book

\* The initial state satisfies the inductive invariant.
LEMMA InitInv == Init => IInv
<1> SUFFICES ASSUME Init PROVE IInv
  OBVIOUS
<1> USE CoordinatorAssumption DEF Init
<1>1. TypeOK
  <2>1. pc \in [Calls -> Labels] /\ req \in [Calls -> Requests \cup {NoRequest}]
    BY DEF Labels
  <2>2. pinned \in [Calls -> SUBSET Symbols]
    OBVIOUS
  <2>3. priced \in [Calls -> BOOLEAN]
    OBVIOUS
  <2>4. attempts \in [Calls -> 0..MaxAttempts]
    OBVIOUS
  <2>5. snap \in [Calls -> [held : SUBSET Symbols, version : Nat, ranked : Nat]]
    BY DEF NoSnap
  <2>6. result \in [Calls -> [status : Statuses, version : Nat]]
    BY DEF NoResult, Statuses
  <2> QED
    BY <2>1, <2>2, <2>3, <2>4, <2>5, <2>6 DEF TypeOK
<1>2. CallInv /\ LockInv /\ StagedInv /\ PricedInv
  BY DEF CallInv, LockInv, StagedInv, PricedInv
<1>3. VersionChain /\ AtMostOnce /\ BookMatchesAudits
  BY DEF VersionChain, AtMostOnce, BookMatchesAudits
<1> QED
  BY <1>1, <1>2, <1>3 DEF IInv

\* A call that returns keeps the types of its label and its result.
LEMMA ReturnTyped ==
  ASSUME TypeOK, NEW c \in Calls, NEW res \in [status : Statuses, version : Nat], Return(c, res)
  PROVE  /\ pc' \in [Calls -> Labels]
         /\ result' \in [Calls -> [status : Statuses, version : Nat]]
         /\ pc'[c] = "done" /\ \A d \in Calls : d # c => pc'[d] = pc[d]
BY DEF TypeOK, Return, Goto, Labels

\* A call that goes on keeps the type of its label.
LEMMA GotoTyped ==
  ASSUME TypeOK, NEW c \in Calls, NEW l \in Labels, Goto(c, l)
  PROVE  /\ pc' \in [Calls -> Labels]
         /\ pc'[c] = l /\ \A d \in Calls : d # c => pc'[d] = pc[d]
BY DEF TypeOK, Goto

\* Every refusal is a result.
LEMMA RefusalTyped ==
  ASSUME NEW why \in Statuses
  PROVE  Refusal(why) \in [status : Statuses, version : Nat]
BY DEF Refusal

\* A step keeps every call and the book well formed, and spends an attempt only
\* where one is left.
LEMMA TypeStep ==
  ASSUME IInv, [Next]_vars
  PROVE  TypeOK' /\ CallInv'
<1> USE CoordinatorAssumption
<1>0. TypeOK /\ CallInv /\ StagedInv
  BY DEF IInv
<1>1. CASE UNCHANGED vars
  BY <1>0, <1>1 DEF TypeOK, CallInv, vars, calls, book
<1>2. ASSUME NEW c \in Calls, StepCases(c)
      PROVE  TypeOK' /\ CallInv'
  <2>1. CASE Arrive(c)
    <3>1. PICK k \in Keys \cup {NoKey}, b \in Bodies : Submit(c, k, b)
      BY <2>1 DEF Arrive
    <3>2. Request(k, b) \in Requests
      BY RequestMade
    <3>3. TypeOK'
      BY <1>0, <3>1, <3>2 DEF TypeOK, Submit, Goto, Labels, book
    <3> QED
      BY <1>0, <3>1, <3>2, <3>3 DEF TypeOK, CallInv, Submit, Goto
  <2>2. CASE CheckCorrection(c)
    <3>1. \/ Return(c, Refusal("already_corrected"))
          \/ Goto(c, "preflight") /\ result' = result
      BY <2>2 DEF CheckCorrection
    <3>2. /\ pc' \in [Calls -> Labels]
          /\ result' \in [Calls -> [status : Statuses, version : Nat]]
          /\ pc'[c] \in {"preflight", "done"} /\ \A d \in Calls : d # c => pc'[d] = pc[d]
      BY <1>0, <3>1, ReturnTyped, GotoTyped, RefusalTyped DEF TypeOK, Labels, Statuses
    <3>3. TypeOK'
      BY <1>0, <2>2, <3>2 DEF TypeOK, CheckCorrection, book
    <3> QED
      BY <1>0, <2>2, <3>2, <3>3 DEF CallInv, CheckCorrection
  <2>3. CASE Preflight(c)
    <3>1. \/ Return(c, Refusal("conflict"))
          \/ (Goto(c, "lock") \/ Goto(c, "pin")) /\ result' = result
      BY <2>3 DEF Preflight
    <3>2. /\ pc' \in [Calls -> Labels]
          /\ result' \in [Calls -> [status : Statuses, version : Nat]]
          /\ pc'[c] \in {"lock", "pin", "done"} /\ \A d \in Calls : d # c => pc'[d] = pc[d]
      BY <1>0, <3>1, ReturnTyped, GotoTyped, RefusalTyped DEF TypeOK, Labels, Statuses
    <3>3. TypeOK'
      BY <1>0, <2>3, <3>2 DEF TypeOK, Preflight, book
    <3> QED
      BY <1>0, <2>3, <3>2, <3>3 DEF CallInv, Preflight
  <2>4. CASE Pin(c)
    <3>1. Seed(req[c]) \subseteq Symbols
      BY <1>0, SeedSymbols DEF TypeOK
    <3>2. pinned' \in [Calls -> SUBSET Symbols]
      BY <1>0, <2>4, <3>1 DEF TypeOK, Pin
    <3> QED
      BY <1>0, <2>4, <3>2 DEF TypeOK, CallInv, Pin, Goto, Labels, book
  <2>5. CASE Acquire(c)
    BY <1>0, <2>5 DEF TypeOK, CallInv, Acquire, Goto, Labels, book
  <2>6. CASE ReplayLocked(c)
    <3>1. PICK a \in AuditsFor(req[c]) :
            Return(c, IF SameRequest(a, req[c])
                      THEN replay(a)
                      ELSE Refusal("conflict"))
      BY <2>6 DEF ReplayLocked
    <3>2. a.version \in Nat
      BY <1>0 DEF TypeOK, AuditsFor
    <3>3. result' \in [Calls -> [status : Statuses, version : Nat]]
      BY <1>0, <3>1, <3>2 DEF TypeOK, replay, Return, Refusal, Statuses
    <3> QED
      BY <1>0, <2>6, <3>1, <3>3 DEF TypeOK, CallInv, ReplayLocked, Return, Goto, Labels, book
  <2>7. CASE AlreadyTracked(c)
    <3>1. /\ pc' \in [Calls -> Labels]
          /\ result' \in [Calls -> [status : Statuses, version : Nat]]
          /\ pc'[c] = "done" /\ \A d \in Calls : d # c => pc'[d] = pc[d]
      BY <1>0, <2>7, ReturnTyped, RefusalTyped DEF AlreadyTracked, Statuses
    <3>2. TypeOK'
      BY <1>0, <2>7, <3>1 DEF TypeOK, AlreadyTracked, book
    <3> QED
      BY <1>0, <2>7, <3>1, <3>2 DEF CallInv, AlreadyTracked, Proceeds, Fresh
  <2>8. CASE Uncovered(c)
    <3>1. attempts[c] < MaxAttempts
      BY <1>0, <2>8 DEF CallInv, Uncovered, Proceeds, Fresh
    <3>2. attempts' \in [Calls -> 0..MaxAttempts]
      BY <1>0, <2>8, <3>1 DEF TypeOK, Uncovered
    <3>3. snap' \in [Calls -> [held : SUBSET Symbols, version : Nat, ranked : Nat]]
      BY <1>0, <2>8 DEF TypeOK, Uncovered, Read
    <3> QED
      BY <1>0, <2>8, <3>2, <3>3
      DEF TypeOK, CallInv, Uncovered, Proceeds, Fresh, Goto, Labels, book
  <2>9. CASE Reject(c)
    <3>1. /\ pc' \in [Calls -> Labels]
          /\ result' \in [Calls -> [status : Statuses, version : Nat]]
          /\ pc'[c] = "done" /\ \A d \in Calls : d # c => pc'[d] = pc[d]
      BY <1>0, <2>9, ReturnTyped, RefusalTyped DEF Reject, Statuses
    <3>2. TypeOK'
      BY <1>0, <2>9, <3>1 DEF TypeOK, Reject, book
    <3> QED
      BY <1>0, <2>9, <3>1, <3>2 DEF CallInv, Reject, Proceeds, Fresh
  <2>10. CASE Plan(c)
    <3>1. snap' \in [Calls -> [held : SUBSET Symbols, version : Nat, ranked : Nat]]
      BY <1>0, <2>10 DEF TypeOK, Plan, Read
    <3> QED
      BY <1>0, <2>10, <3>1 DEF TypeOK, CallInv, Plan, Proceeds, Fresh, Goto, Labels, book
  <2>11. CASE Commit(c)
    <3>1. /\ req[c] \in Requests
          /\ snap[c].version \in Nat /\ snap[c].ranked \in Nat /\ snap[c].held \subseteq Symbols
      BY <1>0, <2>11 DEF TypeOK, CallInv, Commit
    <3>2. After(req[c], snap[c].held) \subseteq Symbols
      BY <3>1, RequestFields DEF After
    <3>3. result' \in [Calls -> [status : Statuses, version : Nat]]
      BY <1>0, <2>11, <3>1 DEF TypeOK, Commit, Return, Refusal, Statuses
    <3>4. audits' \in SUBSET [req : Requests, version : Nat]
      BY <1>0, <2>11, <3>1 DEF TypeOK, Commit, RecordAudit
    <3>5. /\ pc' \in [Calls -> Labels] /\ pc'[c] = "done"
          /\ \A d \in Calls : d # c => pc'[d] = pc[d]
      BY <1>0, <2>11 DEF TypeOK, Commit, Return, Goto, Labels
    <3>6. /\ held' \in SUBSET Symbols /\ version' \in Nat \ {0} /\ ranked' \in Nat
          /\ outbox' \in SUBSET Nat
      <4>1. held' \in SUBSET Symbols
        BY <1>0, <2>11, <3>2 DEF TypeOK, Commit
      <4>2. version' \in Nat \ {0}
        BY <1>0, <2>11, <3>1 DEF TypeOK, Commit, SetPortfolioVersion
      <4>3. ranked' \in Nat
        BY <2>11, <3>1 DEF Commit, PutRankedState
      <4>4. outbox' \in SUBSET Nat
        <5>1. outbox' = outbox \/ outbox' = outbox \cup {snap[c].version + 1}
          BY <2>11 DEF Commit
        <5>2. snap[c].version + 1 \in Nat /\ outbox \subseteq Nat
          BY <1>0, <3>1 DEF TypeOK
        <5> QED
          BY <5>1, <5>2
      <4> QED
        BY <4>1, <4>2, <4>3, <4>4
    <3>7. TypeOK'
      BY <1>0, <2>11, <3>3, <3>4, <3>5, <3>6 DEF TypeOK, Commit
    <3> QED
      BY <1>0, <2>11, <3>5, <3>7 DEF CallInv, Commit
  <2>12. CASE Rebuild(c)
    <3>1. pinned' \in [Calls -> SUBSET Symbols]
      BY <1>0, <2>12 DEF TypeOK, Rebuild
    <3>2. \/ Return(c, Refusal("busy"))
          \/ Goto(c, "lock") /\ attempts[c] < MaxAttempts /\ result' = result
      BY <2>12 DEF Rebuild
    <3>3. /\ pc' \in [Calls -> Labels]
          /\ result' \in [Calls -> [status : Statuses, version : Nat]]
          /\ pc'[c] = "done" \/ attempts[c] < MaxAttempts
          /\ \A d \in Calls : d # c => pc'[d] = pc[d]
      BY <1>0, <3>2, ReturnTyped, GotoTyped, RefusalTyped DEF TypeOK, Labels, Statuses
    <3>4. TypeOK'
      BY <1>0, <2>12, <3>1, <3>3 DEF TypeOK, Rebuild, book
    <3> QED
      BY <1>0, <2>12, <3>3, <3>4 DEF CallInv, Rebuild
  <2>13. CASE Fail(c)
    BY <1>0, <2>13 DEF TypeOK, CallInv, Fail, Return, Goto, Refusal, Labels, Statuses, book
  <2> QED
    BY <1>2, <2>1, <2>2, <2>3, <2>4, <2>5, <2>6, <2>7, <2>8, <2>9, <2>10, <2>11, <2>12, <2>13
    DEF StepCases
<1> QED
  BY <1>1, <1>2, NextCases

\* A step of one call leaves the private state of the others alone.
LEMMA OthersKeep ==
  ASSUME TypeOK, NEW c \in Calls, StepCases(c), NEW d \in Calls, d # c
  PROVE  pc'[d] = pc[d] /\ req'[d] = req[d] /\ priced'[d] = priced[d] /\ snap'[d] = snap[d]
BY DEF TypeOK, StepCases, Arrive, Submit, CheckCorrection, Preflight, Pin, Acquire, ReplayLocked,
       AlreadyTracked, Uncovered, Reject, Plan, Commit, Rebuild, Fail, Return, Goto

\* What the step of a call does to its own label, and to the lock: only Acquire
\* takes it, only the ends of a transaction release it, only Plan stages.
LEMMA OwnStep ==
  ASSUME IInv, NEW c \in Calls, StepCases(c)
  PROVE  \/ /\ pc[c] \notin {"locked", "staged"} /\ pc'[c] \notin {"locked", "staged"}
            /\ holder' = holder
         \/ pc[c] = "lock" /\ holder = NoCall /\ pc'[c] = "locked" /\ holder' = c /\ Acquire(c)
         \/ pc[c] = "locked" /\ pc'[c] = "staged" /\ holder' = holder /\ Plan(c)
         \/ /\ pc[c] \in {"locked", "staged"} /\ pc'[c] \notin {"locked", "staged"}
            /\ holder' = NoCall
<1>0. TypeOK /\ LockInv
  BY DEF IInv
<1>1. CASE Arrive(c)
  BY <1>0, <1>1 DEF TypeOK, Arrive, Submit, Goto
<1>2. CASE CheckCorrection(c)
  BY <1>0, <1>2 DEF TypeOK, CheckCorrection, Return, Goto
<1>3. CASE Preflight(c)
  BY <1>0, <1>3 DEF TypeOK, Preflight, Return, Goto
<1>4. CASE Pin(c)
  BY <1>0, <1>4 DEF TypeOK, Pin, Goto
<1>5. CASE Acquire(c)
  BY <1>0, <1>5 DEF TypeOK, Acquire, Goto
<1>6. CASE ReplayLocked(c)
  BY <1>0, <1>6 DEF TypeOK, ReplayLocked, Return, Goto
<1>7. CASE AlreadyTracked(c) \/ Uncovered(c) \/ Reject(c)
  BY <1>0, <1>7 DEF TypeOK, AlreadyTracked, Uncovered, Reject, Proceeds, Fresh, Return, Goto
<1>8. CASE Plan(c)
  BY <1>0, <1>8 DEF TypeOK, Plan, Proceeds, Fresh, Goto
<1>9. CASE Commit(c)
  BY <1>0, <1>9 DEF TypeOK, Commit, Return, Goto
<1>10. CASE Rebuild(c)
  BY <1>0, <1>10 DEF TypeOK, Rebuild, Return, Goto
<1>11. CASE Fail(c)
  BY <1>0, <1>11 DEF TypeOK, LockInv, Fail, Return, Goto
<1> QED
  BY <1>1, <1>2, <1>3, <1>4, <1>5, <1>6, <1>7, <1>8, <1>9, <1>10, <1>11 DEF StepCases

\* The lock excludes: the holder is always the one call in its transaction.
LEMMA LockStep ==
  ASSUME IInv, [Next]_vars
  PROVE  LockInv'
<1>0. TypeOK /\ LockInv
  BY DEF IInv
<1>1. CASE UNCHANGED vars
  BY <1>0, <1>1 DEF LockInv, vars, calls
<1>2. ASSUME NEW c \in Calls, StepCases(c)
      PROVE  LockInv'
  <2> SUFFICES ASSUME NEW d \in Calls
               PROVE  pc'[d] \in {"locked", "staged"} <=> holder' = d
    BY DEF LockInv
  <2>1. CASE d = c
    BY <1>0, <1>2, <2>1, OwnStep, CoordinatorAssumption DEF LockInv
  <2>2. CASE d # c
    <3>1. pc'[d] = pc[d]
      BY <1>0, <1>2, <2>2, OthersKeep
    <3> QED
      BY <1>0, <1>2, <2>2, <3>1, OwnStep, CoordinatorAssumption DEF LockInv
  <2> QED
    BY <2>1, <2>2
<1> QED
  BY <1>1, <1>2, NextCases

\* What a call has staged stays what is committed until it commits: only Commit
\* writes the book, and the lock keeps the others from committing.
LEMMA StagedStep ==
  ASSUME IInv, [Next]_vars
  PROVE  StagedInv'
<1>0. TypeOK /\ LockInv /\ StagedInv
  BY DEF IInv
<1>1. CASE UNCHANGED vars
  BY <1>0, <1>1 DEF StagedInv, AuditsFor, Read, vars, calls, book
<1>2. ASSUME NEW c \in Calls, StepCases(c)
      PROVE  StagedInv'
  <2> SUFFICES ASSUME NEW d \in Calls, pc'[d] = "staged"
               PROVE  /\ snap'[d] = Read'
                      /\ AuditsFor(req[d])' = {}
                      /\ req'[d].op = "ensure" => ranked' = 0
    BY DEF StagedInv
  <2>1. CASE d = c
    <3>1. Plan(c)
      BY <1>2, <2>1, OwnStep
    <3>2. UNCHANGED <<book, req>> /\ snap'[c] = Read
      BY <1>0, <3>1 DEF TypeOK, Plan
    <3>3. AuditsFor(req[c]) = {} /\ (req[c].op = "ensure" => ranked = 0)
      BY <3>1 DEF Plan, Proceeds, Fresh
    <3> QED
      BY <2>1, <3>2, <3>3 DEF AuditsFor, Read, book
  <2>2. CASE d # c
    <3>1. pc[d] = "staged" /\ req'[d] = req[d] /\ snap'[d] = snap[d]
      BY <1>0, <1>2, <2>2, OthersKeep
    <3>2. ~Commit(c)
      BY <1>0, <2>2, <3>1 DEF LockInv, Commit
    <3>3. UNCHANGED book
      BY <1>2, <3>2, OnlyCommitWrites
    <3> QED
      BY <1>0, <3>1, <3>3 DEF StagedInv, AuditsFor, Read, book
  <2> QED
    BY <2>1, <2>2
<1> QED
  BY <1>1, <1>2, NextCases

\* No audit row is ever removed, and only Commit adds one.
LEMMA AuditsGrow ==
  ASSUME NEW c \in Calls, StepCases(c)
  PROVE  audits \subseteq audits'
BY OnlyCommitWrites DEF Commit, RecordAudit, book

\* A call without quotes stays one whose key is audited, so it never plans.
LEMMA PricedStep ==
  ASSUME IInv, [Next]_vars
  PROVE  PricedInv'
<1>0. TypeOK /\ PricedInv
  BY DEF IInv
<1>1. CASE UNCHANGED vars
  BY <1>0, <1>1 DEF PricedInv, AuditsFor, vars, calls, book
<1>2. ASSUME NEW c \in Calls, StepCases(c)
      PROVE  PricedInv'
  <2>0. audits \subseteq audits'
    BY <1>2, AuditsGrow
  <2> SUFFICES ASSUME NEW d \in Calls
               PROVE  /\ pc'[d] \in {"lock", "locked"} => priced'[d] \/ AuditsFor(req[d])' # {}
                      /\ pc'[d] \in {"staged", "rebuild"} => priced'[d]
    BY DEF PricedInv
  <2>1. CASE d # c
    <3>1. pc'[d] = pc[d] /\ req'[d] = req[d] /\ priced'[d] = priced[d]
      BY <1>0, <1>2, <2>1, OthersKeep
    <3> QED
      BY <1>0, <2>0, <3>1 DEF PricedInv, AuditsFor
  <2>2. CASE d = c
    <3>1. CASE Arrive(c) \/ CheckCorrection(c)
      BY <1>0, <2>2, <3>1 DEF TypeOK, Arrive, Submit, CheckCorrection, Return, Goto
    <3>2. CASE Preflight(c)
      BY <1>0, <2>0, <2>2, <3>2 DEF TypeOK, Preflight, AuditsFor, Return, Goto
    <3>3. CASE Pin(c)
      BY <1>0, <2>2, <3>3 DEF TypeOK, Pin, Goto
    <3>4. CASE Acquire(c)
      BY <1>0, <2>0, <2>2, <3>4 DEF TypeOK, PricedInv, Acquire, AuditsFor, Goto
    <3>5. CASE ReplayLocked(c) \/ AlreadyTracked(c) \/ Reject(c) \/ Commit(c) \/ Fail(c)
      BY <1>0, <2>2, <3>5
      DEF TypeOK, ReplayLocked, AlreadyTracked, Reject, Commit, Fail, Return, Goto
    <3>6. CASE Uncovered(c) \/ Plan(c)
      BY <1>0, <2>2, <3>6 DEF TypeOK, PricedInv, Uncovered, Plan, Proceeds, Fresh, Goto
    <3>7. CASE Rebuild(c)
      BY <1>0, <2>2, <3>7 DEF TypeOK, PricedInv, Rebuild, Return, Goto
    <3> QED
      BY <1>2, <3>1, <3>2, <3>3, <3>4, <3>5, <3>6, <3>7 DEF StepCases
  <2> QED
    BY <2>1, <2>2
<1> QED
  BY <1>1, <1>2, NextCases

\* The versions of the committed mutations never run ahead of the aggregate's.
LEMMA AuditedVersions ==
  ASSUME VersionChain
  PROVE  \A a \in audits : a.version \in 2..version
BY DEF VersionChain

\* A commit works from the committed state: it adds the next version for a key
\* that has none, and applies its request to the symbols that are held.
LEMMA CommitWrites ==
  ASSUME IInv, NEW c \in Calls, Commit(c)
  PROVE  /\ req[c] \in Requests /\ AuditsFor(req[c]) = {}
         /\ ranked' = ranked + 1
         /\ Mutates(req[c]) =>
              /\ held' = After(req[c], held) /\ version' = version + 1
              /\ audits' = audits \cup {[req |-> req[c], version |-> version + 1]}
              /\ outbox' = outbox \cup {version + 1}
         /\ ~Mutates(req[c]) => ranked = 0 /\ UNCHANGED <<held, version, audits, outbox>>
<1>1. pc[c] = "staged" /\ snap[c] = Read
  BY DEF IInv, StagedInv, Commit
<1>2. snap[c].held = held /\ snap[c].version = version /\ snap[c].ranked = ranked
  BY <1>1 DEF Read
<1>3. req[c] \in Requests /\ AuditsFor(req[c]) = {} /\ (req[c].op = "ensure" => ranked = 0)
  BY <1>1 DEF IInv, CallInv, StagedInv
<1> QED
  BY <1>2, <1>3 DEF Commit, PutRankedState, SetPortfolioVersion, RecordAudit, Mutates

\* The version chain has no gap and no version twice after a step either.
LEMMA ChainStep ==
  ASSUME IInv, [Next]_vars
  PROVE  VersionChain'
<1>0. TypeOK /\ VersionChain
  BY DEF IInv
<1>1. CASE UNCHANGED book
  BY <1>0, <1>1 DEF VersionChain, book
<1>2. ASSUME NEW c \in Calls, Commit(c), Mutates(req[c])
      PROVE  VersionChain'
  <2> DEFINE new == [req |-> req[c], version |-> version + 1]
  <2>1. /\ version' = version + 1 /\ audits' = audits \cup {new}
        /\ outbox' = outbox \cup {version + 1} /\ ranked' = ranked + 1
    BY <1>2, CommitWrites
  <2>2. version \in Nat \ {0} /\ ranked \in Nat /\ new.version = version + 1
    BY <1>0 DEF TypeOK
  <2>3. \A a \in audits : a.version \in 2..version
    BY <1>0, AuditedVersions
  <2>4. {a.version : a \in audits'} = {a.version : a \in audits} \cup {version + 1}
    BY <2>1, <2>2
  <2>5. 2..version' = (2..version) \cup {version + 1}
    BY <2>1, <2>2
  <2>6. {a.version : a \in audits} = 2..version /\ outbox = 2..version
    BY <1>0 DEF VersionChain
  <2>7. \A a, b \in audits' : a.version = b.version => a = b
    <3> HIDE DEF new
    <3> SUFFICES ASSUME NEW a \in audits', NEW b \in audits', a.version = b.version
                 PROVE  a = b
      OBVIOUS
    <3>1. CASE a \in audits /\ b \in audits
      BY <1>0, <3>1 DEF VersionChain
    <3>2. \A x \in audits : x.version # new.version
      BY <2>2, <2>3
    <3> QED
      BY <2>1, <3>1, <3>2
  <2>8. IF ranked' = 0 THEN version' = 1 ELSE ranked' \in {version' - 1, version'}
    BY <1>0, <2>1, <2>2 DEF VersionChain
  <2> QED
    BY <2>1, <2>4, <2>5, <2>6, <2>7, <2>8 DEF VersionChain
<1>3. ASSUME NEW c \in Calls, Commit(c), ~Mutates(req[c])
      PROVE  VersionChain'
  <2>1. ranked = 0 /\ ranked' = ranked + 1 /\ UNCHANGED <<version, audits, outbox>>
    BY <1>3, CommitWrites
  <2> QED
    BY <1>0, <2>1 DEF VersionChain
<1>4. UNCHANGED vars => UNCHANGED book
  BY DEF vars
<1> QED
  BY <1>1, <1>2, <1>3, <1>4, NextCases, OnlyCommitWrites

\* A commit is made only for a key no audit row has, so no key is audited twice.
LEMMA OnceStep ==
  ASSUME IInv, [Next]_vars
  PROVE  AtMostOnce'
<1>0. AtMostOnce
  BY DEF IInv
<1>1. CASE UNCHANGED audits
  BY <1>0, <1>1 DEF AtMostOnce
<1>2. ASSUME NEW c \in Calls, Commit(c), Mutates(req[c])
      PROVE  AtMostOnce'
  <2> DEFINE new == [req |-> req[c], version |-> version + 1]
  <2>1. audits' = audits \cup {new} /\ AuditsFor(req[c]) = {}
    BY <1>2, CommitWrites
  <2>2. \A a \in audits : new.req.key # NoKey => a.req.key # new.req.key
    BY <2>1 DEF AuditsFor
  <2> HIDE DEF new
  <2> QED
    BY <1>0, <2>1, <2>2 DEF AtMostOnce
<1>3. ASSUME NEW c \in Calls, Commit(c), ~Mutates(req[c])
      PROVE  UNCHANGED audits
  BY <1>3, CommitWrites
<1>4. UNCHANGED vars => UNCHANGED audits
  BY DEF vars, book
<1>5. UNCHANGED book => UNCHANGED audits
  BY DEF book
<1> QED
  BY <1>1, <1>2, <1>3, <1>4, <1>5, NextCases, OnlyCommitWrites

\* What is held is still the outcome of the audited mutations after a commit:
\* its version is above every other, so its request decides its symbol.
LEMMA BookStep ==
  ASSUME IInv, [Next]_vars
  PROVE  BookMatchesAudits'
<1>0. TypeOK /\ VersionChain /\ BookMatchesAudits
  BY DEF IInv
<1>1. CASE UNCHANGED <<held, audits>>
  BY <1>0, <1>1 DEF BookMatchesAudits
<1>2. ASSUME NEW c \in Calls, Commit(c), Mutates(req[c])
      PROVE  BookMatchesAudits'
  <2> DEFINE new == [req |-> req[c], version |-> version + 1]
  <2>1. /\ req[c] \in Requests
        /\ held' = After(req[c], held) /\ audits' = audits \cup {new}
    BY <1>2, CommitWrites
  <2>2. /\ version \in Nat /\ new.version = version + 1 /\ new.req = req[c]
        /\ \A a \in audits : a.version \in Nat /\ a.version < new.version
    BY <1>0, AuditedVersions DEF TypeOK
  <2> HIDE DEF new
  <2> SUFFICES ASSUME NEW s \in Symbols
               PROVE  s \in held' <=>
                        \E a \in audits' :
                          /\ a.req.op = "open" /\ a.req.sym = s
                          /\ \A b \in audits' : b.req.op = "close" /\ b.req.sym = s => b.version < a.version
    BY DEF BookMatchesAudits
  <2>3. s \in held <=>
          \E a \in audits :
            /\ a.req.op = "open" /\ a.req.sym = s
            /\ \A b \in audits : b.req.op = "close" /\ b.req.sym = s => b.version < a.version
    BY <1>0 DEF BookMatchesAudits
  <2>4. CASE req[c].op = "open" /\ req[c].sym = s
    <3>1. s \in held'
      BY <2>1, <2>4 DEF After
    <3>2. \A b \in audits' : b.req.op = "close" /\ b.req.sym = s => b.version < new.version
      BY <2>1, <2>2, <2>4
    <3> QED
      BY <2>1, <2>2, <2>4, <3>1, <3>2
  <2>5. CASE req[c].op = "close" /\ req[c].sym = s
    <3>1. s \notin held'
      BY <2>1, <2>5 DEF After
    <3>2. \A a \in audits' : a.req.op = "open" => a \in audits /\ ~(new.version < a.version)
      BY <2>1, <2>2, <2>5
    <3> QED
      BY <2>1, <2>2, <2>5, <3>1, <3>2
  <2>6. CASE req[c].sym # s \/ req[c].op \notin {"open", "close"}
    <3>1. s \in held' <=> s \in held
      BY <2>1, <2>6 DEF After
    <3>2. ~(new.req.op = "open" /\ new.req.sym = s) /\ ~(new.req.op = "close" /\ new.req.sym = s)
      BY <2>2, <2>6
    <3> QED
      BY <2>1, <2>3, <3>1, <3>2
  <2> QED
    BY <2>4, <2>5, <2>6
<1>3. ASSUME NEW c \in Calls, Commit(c), ~Mutates(req[c])
      PROVE  UNCHANGED <<held, audits>>
  BY <1>3, CommitWrites
<1>4. UNCHANGED vars => UNCHANGED <<held, audits>>
  BY DEF vars, book
<1>5. UNCHANGED book => UNCHANGED <<held, audits>>
  BY DEF book
<1> QED
  BY <1>1, <1>2, <1>3, <1>4, <1>5, NextCases, OnlyCommitWrites

\* Every reachable state satisfies the inductive invariant IInv.
THEOREM Invariance == Spec => []IInv
<1>1. IInv /\ [Next]_vars => IInv'
  BY TypeStep, LockStep, StagedStep, PricedStep, ChainStep, OnceStep, BookStep DEF IInv
<1> QED
  BY InitInv, <1>1, PTL DEF Spec

\* Type correctness: in particular no call ever exceeds its retry budget.
THEOREM TypeCorrect == Spec => []TypeOK
<1>1. IInv => TypeOK
  BY DEF IInv
<1> QED
  BY Invariance, <1>1, PTL

\* Idempotency: a keyed request takes effect at most once, however many calls
\* carry it and however they overlap, by the check under the lock alone.
THEOREM IdempotencyKeysAreHonoured == Spec => []AtMostOnce
<1>1. IInv => AtMostOnce
  BY DEF IInv
<1> QED
  BY Invariance, <1>1, PTL

\* Serializability of the aggregate: audit rows, outbox events and ranked state
\* follow the aggregate version one by one, and what is held is what the audit
\* rows say, so no commit overwrites another.
THEOREM NoLostUpdate == Spec => [](VersionChain /\ BookMatchesAudits)
<1>1. IInv => VersionChain /\ BookMatchesAudits
  BY DEF IInv
<1> QED
  BY Invariance, <1>1, PTL

\* The replay path, which pins no quotes, never reaches the planner.
THEOREM ReplayNeverPlans == Spec => []UnpricedCallsNeverPlan
<1>1. IInv => UnpricedCallsNeverPlan
  BY DEF IInv, PricedInv, UnpricedCallsNeverPlan
<1> QED
  BY Invariance, <1>1, PTL

-----------------------------------------------------------------------------
(* Refinement: every step of a call is a step of AtomicPortfolio, or none.  A  *)
(* call is pending there from its Submit until it returns.                      *)

AbstractVars == <<Asked, Answer, version, audits>>

\* A call under way is pending, with the request it was submitted with.
LEMMA UnderWay ==
  ASSUME IInv, NEW c \in Calls, pc[c] \notin {"idle", "done"}
  PROVE  /\ Abstract!Pending(c)
         /\ Asked[c] = req[c] /\ req[c] \in Requests
<1>1. req[c] \in Requests
  BY DEF IInv, CallInv
<1>2. req[c].op # "none"
  BY <1>1, RequestFields
<1>3. Asked[c] = req[c] /\ Answer[c] = NoResult
  BY DEF Asked, Answer
<1> QED
  BY <1>1, <1>2, <1>3 DEF Abstract!Pending, Abstract!NoRequest, Abstract!NoReply, NoResult

\* A step that neither submits nor answers changes nothing the callers see.
LEMMA SilentStep ==
  ASSUME IInv, NEW c \in Calls, pc[c] \notin {"idle", "done"},
         NEW l \in Labels \ {"idle", "done"}, Goto(c, l), UNCHANGED <<req, result, version, audits>>
  PROVE  UNCHANGED AbstractVars
<1>1. /\ pc'[c] = l /\ \A d \in Calls : d # c => pc'[d] = pc[d]
  BY GotoTyped DEF IInv
<1>2. \A d \in Calls : (pc'[d] = "idle" <=> pc[d] = "idle") /\ (pc'[d] = "done" <=> pc[d] = "done")
  BY <1>1
<1>3. Asked' = Asked
  BY <1>2 DEF Asked
<1>4. Answer' = Answer
  BY <1>2 DEF Answer
<1> QED
  BY <1>3, <1>4 DEF AbstractVars

\* A step that answers a call replaces that call's answer alone.
LEMMA AnswerStep ==
  ASSUME IInv, NEW c \in Calls, pc[c] \notin {"idle", "done"},
         NEW res \in [status : Statuses, version : Nat], Return(c, res), UNCHANGED req
  PROVE  /\ Asked' = Asked
         /\ Answer' = [Answer EXCEPT ![c] = IF res.status \in Took THEN res
                                           ELSE [status |-> "refused", version |-> 0]]
<1>0. TypeOK
  BY DEF IInv
<1>1. /\ pc'[c] = "done" /\ \A d \in Calls : d # c => pc'[d] = pc[d]
      /\ result'[c] = res /\ \A d \in Calls : d # c => result'[d] = result[d]
  BY <1>0, ReturnTyped DEF Return, TypeOK
<1>2. Asked' = Asked
  BY <1>1 DEF Asked
<1>3. Answer' = [Answer EXCEPT ![c] = IF res.status \in Took THEN res
                                    ELSE [status |-> "refused", version |-> 0]]
  BY <1>1 DEF Answer
<1> QED
  BY <1>2, <1>3

\* A refusal, for whatever reason, is a refusal there.
LEMMA RefusalRefines ==
  ASSUME IInv, NEW c \in Calls, pc[c] \notin {"idle", "done"},
         NEW why \in Statuses \ Took, Return(c, Refusal(why)), UNCHANGED <<req, version, audits>>
  PROVE  Abstract!Refuse(c)
<1>1. Refusal(why) \in [status : Statuses, version : Nat] /\ Refusal(why).status = why
  BY RefusalTyped DEF Refusal
<1>2. Asked' = Asked /\ Answer' = [Answer EXCEPT ![c] = [status |-> "refused", version |-> 0]]
  BY <1>1, AnswerStep
<1> QED
  BY <1>2, UnderWay DEF Abstract!Refuse, Abstract!Refused

\* The initial states map to the abstract initial state.
LEMMA InitRefines == Init => Abstract!Init
<1> SUFFICES ASSUME Init PROVE Abstract!Init
  OBVIOUS
<1>1. Asked = [c \in Calls |-> Abstract!NoRequest]
  BY DEF Init, Asked, Abstract!NoRequest
<1>2. Answer = [c \in Calls |-> Abstract!NoReply]
  BY DEF Init, Answer, NoResult, Abstract!NoReply
<1> QED
  BY <1>1, <1>2 DEF Init, Abstract!Init

\* One step of a call: submitting is Call, a commit that mutates is TakeEffect, a
\* replay of the same request is Resend, every other answer is Refuse.
LEMMA CallRefines ==
  ASSUME IInv, NEW c \in Calls, StepCases(c)
  PROVE  Abstract!Next \/ UNCHANGED AbstractVars
<1>0. TypeOK
  BY DEF IInv
<1>1. CASE Arrive(c)
  <2>1. PICK k \in Keys \cup {NoKey}, b \in Bodies : Submit(c, k, b)
    BY <1>1 DEF Arrive
  <2> DEFINE r == Request(k, b)
             l == CASE b.op = "correct" -> "check" [] b.op = "ensure" -> "pin" [] OTHER -> "preflight"
  <2>2. r \in Requests
    BY RequestMade
  <2>3. /\ pc[c] = "idle" /\ pc' = [pc EXCEPT ![c] = l] /\ req' = [req EXCEPT ![c] = r]
        /\ l \notin {"idle", "done"}
    BY <2>1 DEF Submit, Goto
  <2> HIDE DEF r, l
  <2>4. Asked[c] = Abstract!NoRequest /\ Asked' = [Asked EXCEPT ![c] = r]
    BY <1>0, <2>3 DEF TypeOK, Asked, Abstract!NoRequest
  <2>5. Answer' = Answer
    BY <1>0, <2>1, <2>3 DEF TypeOK, Answer, Submit
  <2>6. UNCHANGED <<version, audits>>
    BY <2>1 DEF Submit, book
  <2>7. Abstract!Call(c, r)
    BY <2>4, <2>5, <2>6 DEF Abstract!Call
  <2> QED
    BY <2>2, <2>7 DEF Abstract!Next
<1>2. CASE CheckCorrection(c) \/ Preflight(c) \/ Pin(c) \/ Acquire(c) \/ Uncovered(c) \/ Plan(c) \/ Rebuild(c)
  <2>1. pc[c] \notin {"idle", "done"} /\ UNCHANGED <<req, version, audits>>
    BY <1>2 DEF CheckCorrection, Preflight, Pin, Acquire, Uncovered, Plan, Rebuild, Proceeds, Fresh, book
  <2>2. \/ Return(c, Refusal("already_corrected")) \/ Return(c, Refusal("conflict"))
        \/ Return(c, Refusal("busy"))
        \/ \E l \in Labels \ {"idle", "done"} : Goto(c, l) /\ UNCHANGED result
    BY <1>2 DEF CheckCorrection, Preflight, Pin, Acquire, Uncovered, Plan, Rebuild, Labels
  <2>3. CASE \E l \in Labels \ {"idle", "done"} : Goto(c, l) /\ UNCHANGED result
    BY <2>1, <2>3, SilentStep
  <2>4. CASE Return(c, Refusal("already_corrected")) \/ Return(c, Refusal("conflict"))
             \/ Return(c, Refusal("busy"))
    BY <2>1, <2>4, RefusalRefines DEF Abstract!Next, Statuses, Took
  <2> QED
    BY <2>2, <2>3, <2>4
<1>3. CASE AlreadyTracked(c) \/ Reject(c) \/ Fail(c)
  <2>1. pc[c] \notin {"idle", "done"} /\ UNCHANGED <<req, version, audits>>
    BY <1>3 DEF AlreadyTracked, Reject, Fail, Proceeds, Fresh, book
  <2>2. \/ Return(c, Refusal("tracked")) \/ Return(c, Refusal("rejected")) \/ Return(c, Refusal("failed"))
    BY <1>3 DEF AlreadyTracked, Reject, Fail
  <2> QED
    BY <2>1, <2>2, RefusalRefines DEF Abstract!Next, Statuses, Took
<1>4. CASE ReplayLocked(c)
  <2>1. pc[c] = "locked" /\ UNCHANGED <<req, version, audits>>
    BY <1>4 DEF ReplayLocked, book
  <2>2. PICK a \in AuditsFor(req[c]) :
          Return(c, IF SameRequest(a, req[c]) THEN replay(a) ELSE Refusal("conflict"))
    BY <1>4 DEF ReplayLocked
  <2>3. CASE ~SameRequest(a, req[c])
    BY <2>1, <2>2, <2>3, RefusalRefines DEF Abstract!Next, Statuses, Took
  <2>4. CASE SameRequest(a, req[c])
    <3>1. /\ a \in audits /\ a.req = req[c] /\ a.req.key # NoKey /\ a.version \in Nat
      BY <1>0, <2>2, <2>4 DEF TypeOK, AuditsFor, SameRequest
    <3>2. replay(a) \in [status : Statuses, version : Nat] /\ replay(a).status \in Took
      BY <3>1 DEF replay, Statuses, Took
    <3>3. Asked' = Asked /\ Answer' = [Answer EXCEPT ![c] = replay(a)]
      BY <2>1, <2>2, <2>4, <3>2, AnswerStep
    <3>4. Abstract!Resend(c)
      BY <2>1, <3>1, <3>3, UnderWay DEF Abstract!Resend, replay
    <3> QED
      BY <3>4 DEF Abstract!Next
  <2> QED
    BY <2>3, <2>4
<1>5. CASE Commit(c)
  <2>1. pc[c] = "staged" /\ UNCHANGED req
    BY <1>5 DEF Commit
  <2>2. CASE ~Mutates(req[c])
    <3>1. Return(c, Refusal("tracked")) /\ UNCHANGED <<version, audits>>
      BY <1>5, <2>2 DEF Commit
    <3> QED
      BY <2>1, <3>1, RefusalRefines DEF Abstract!Next, Statuses, Took
  <2>3. CASE Mutates(req[c])
    <3> DEFINE res == [status |-> "committed", version |-> version + 1]
    <3>1. /\ version' = version + 1
          /\ audits' = audits \cup {[req |-> req[c], version |-> version + 1]}
          /\ AuditsFor(req[c]) = {} /\ version \in Nat
      BY <1>0, <1>5, <2>3, CommitWrites DEF TypeOK
    <3>2. snap[c].version = version
      BY <2>1 DEF IInv, StagedInv, Read
    <3>3. Return(c, res)
      BY <1>5, <2>3, <3>2 DEF Commit
    <3>4. res \in [status : Statuses, version : Nat] /\ res.status \in Took
      BY <3>1 DEF Statuses, Took
    <3>5. Asked' = Asked /\ Answer' = [Answer EXCEPT ![c] = res]
      BY <2>1, <3>3, <3>4, AnswerStep
    <3>6. ~Abstract!Used(req[c].key)
      BY <3>1 DEF Abstract!Used, AuditsFor
    <3>7. Abstract!TakeEffect(c)
      BY <2>1, <3>1, <3>5, <3>6, UnderWay DEF Abstract!TakeEffect, Abstract!Entry
    <3> QED
      BY <3>7 DEF Abstract!Next
  <2> QED
    BY <2>2, <2>3
<1> QED
  BY <1>1, <1>2, <1>3, <1>4, <1>5 DEF StepCases

\* The coordinator implements AtomicPortfolio for any number of calls, keys and
\* symbols: whatever overlaps, requests take effect one at a time, each at one
\* instant (the commit of Apply's transaction), a key at most once, and a resend
\* is answered with the version its mutation reached.
THEOREM CoordinatorIsAtomic == Spec => Atomic
<1>1. ASSUME IInv, [Next]_vars
      PROVE  Abstract!Next \/ UNCHANGED AbstractVars
  <2>1. CASE UNCHANGED vars
    BY <2>1 DEF vars, calls, book, AbstractVars, Asked, Answer
  <2> QED
    BY <1>1, <2>1, NextCases, CallRefines
<1>2. IInv /\ [Next]_vars => [Abstract!Next]_<<Asked, Answer, version, audits>>
  BY <1>1 DEF AbstractVars
<1> QED
  BY Invariance, InitRefines, <1>2, PTL DEF Spec, Atomic, Abstract!Spec
=============================================================================
