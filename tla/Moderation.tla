----------------------------- MODULE Moderation -----------------------------
(***************************************************************************)
(* Reports and their resolution (internal/moderation), composed with the   *)
(* messages and the standing of the accounts they act on.  Store           *)
(* operations are those of the Postgres repository.                        *)
(***************************************************************************)
EXTENDS Social

CONSTANTS
  ReportIds,
  Admins,          \* people and moderators with the admin role
  Moderators       \* requests of moderators being handled

VARIABLES
  reports,      \* user_reports, with the evidence of each
  audit,        \* moderation_actions
  reviewing     \* reviewing[m]: the resolution a moderator's request is at

moderationVars == <<reports, audit, reviewing>>

NoReport == [status |-> "none", by |-> {}, against |-> {}, message |-> {}, evidence |-> {}]
NoReview == [at |-> "idle", report |-> {}, action |-> "none"]

Resolved(status) == status \in {"resolved_action_taken", "resolved_no_action"}

-----------------------------------------------------------------------------
(* Reporting *)

\* An open report of the same thing by the same person.
HasOpenDuplicate(u, v, about) ==
  \E r \in ReportIds : reports[r].status = "open" /\ reports[r].by = {u} /\ reports[r].against = {v} /\ reports[r].message = about

\* The report and, for a message, its evidence, in one transaction.
createReportTx(r, u, v, about, evidence) ==
  /\ Serve /\ reports[r].status = "none" /\ ~HasOpenDuplicate(u, v, about)
  /\ reports' = [reports EXCEPT ![r] = [status |-> "open", by |-> {u}, against |-> {v}, message |-> about, evidence |-> evidence]]
  /\ UNCHANGED <<graph, mail, locks, handling, tick, audit, reviewing>>

ReportUser(r, u, v) ==
  /\ u # v /\ standing[u] # "deleted" /\ standing[v] # "deleted"
  /\ createReportTx(r, u, v, {}, {})

\* Only a participant of its conversation is given a message to report.
MessageForReport(u) == {m \in messages : u \in m.in}

\* About what the other one wrote.
ReportMessage(r, u, m) ==
  /\ m \in MessageForReport(u) /\ u # m.from
  /\ createReportTx(r, u, m.from, {m.id}, {m.from})

-----------------------------------------------------------------------------
(* Resolution *)

actionRequiresLiveTarget(action) == action \in {"warning", "temporary_suspension", "permanent_ban"}

targetGone(report) == report.against = {}

\* The unlocked read: an unresolved report, a valid action, a target the
\* moderator may act on.
ResolveReport(m, r, action) ==
  /\ Serve /\ reviewing[m].at = "idle" /\ reports[r].status = "open"
  /\ IF targetGone(reports[r]) THEN ~actionRequiresLiveTarget(action)
     ELSE reports[r].against \cap Admins # {} => m \in Admins
  /\ reviewing' = [reviewing EXCEPT ![m] = [at |-> "write", report |-> {r}, action |-> action]]
  /\ UNCHANGED <<graph, mail, locks, handling, tick, reports, audit>>

\* What the decision does to the account or the message.
applyResolutionEffect(report, action) ==
  CASE action = "temporary_suspension" ->
         standing' = [u \in People |-> IF {u} = report.against /\ standing[u] # "banned" THEN "suspended" ELSE standing[u]]
           /\ UNCHANGED messages
    [] action = "permanent_ban" ->
         standing' = [u \in People |-> IF {u} = report.against THEN "banned" ELSE standing[u]] /\ UNCHANGED messages
    [] action = "content_removal" ->
         messages' = {IF {m.id} = report.message THEN [m EXCEPT !.removed = TRUE] ELSE m : m \in messages} /\ UNCHANGED standing
    [] OTHER -> UNCHANGED <<standing, messages>>

\* A removal needs a message, unless its author's account took it away.
effectApplies(report, action) == action = "content_removal" => report.message # {} \/ targetGone(report)

anyStatus(r) == TRUE

\* The status read again under the row lock.
stillOpen(r) == ~Resolved(reports[r].status)

\* The audit record and the decision on the report.
recordResolution(m, r, action) ==
  /\ audit' = audit \cup {[report |-> r, by |-> m, action |-> action]}
  /\ reports' = [reports EXCEPT ![r].status = IF action = "no_action" THEN "resolved_no_action" ELSE "resolved_action_taken"]

resolutionNotice(report, r, action) ==
  IF action \in {"warning", "temporary_suspension"}
  THEN {[to |-> u, key |-> <<"moderation", r>>, read |-> FALSE] : u \in report.against} ELSE {}

\* Audit, decision, effect and notice commit together; a report that was
\* resolved meanwhile is left alone.
resolveTx(m) ==
  \E r \in reviewing[m].report :
    LET action == reviewing[m].action
        refused == (targetGone(reports[r]) /\ actionRequiresLiveTarget(action)) \/ ~effectApplies(reports[r], action)
    IN  /\ reviewing[m].at = "write"
        /\ reviewing' = [reviewing EXCEPT ![m] = NoReview]
        /\ IF ~refused /\ stillOpen(r)
           THEN /\ recordResolution(m, r, action)
                /\ applyResolutionEffect(reports[r], action)
                /\ notifications' = notifications \cup resolutionNotice(reports[r], r, action)
           ELSE UNCHANGED <<reports, audit, standing, messages, notifications>>
        /\ UNCHANGED <<follows, blocks, conversations, lastRead, hidden, locks, handling, tick, accepted>>

-----------------------------------------------------------------------------

\* The suspension runs out.
suspensionEnds(u) ==
  /\ standing[u] = "suspended" /\ standing' = [standing EXCEPT ![u] = "active"]
  /\ UNCHANGED <<follows, blocks, mail, locks, handling, tick, accepted, moderationVars>>

\* What the foreign keys do to a report: its references are set to null.
setNull(r, u) == [r EXCEPT !.by = @ \ {u}, !.against = @ \ {u}, !.message = {i \in @ : \E m \in messages' : m.id = i}]

\* Deleting an account takes everything social with it; reports, evidence and
\* the audit stay, without the reference.
DeletePerson(u) ==
  /\ Serve /\ standing[u] # "deleted"
  /\ standing' = [standing EXCEPT ![u] = "deleted"]
  /\ follows' = {f \in follows : u \notin {f[1], f[2]}} /\ blocks' = {b \in blocks : u \notin {b[1], b[2]}}
  /\ conversations' = {pair \in conversations : u \notin pair}
  /\ messages' = {m \in messages : u \notin m.in} /\ hidden' = {x \in hidden : \E m \in messages' : m.id = x[1]}
  /\ notifications' = {n \in notifications : n.to # u}
  /\ reports' = [r \in ReportIds |-> setNull(reports[r], u)]
  /\ UNCHANGED <<lastRead, locks, handling, tick, audit, reviewing>>

ModerationInit ==
  /\ SocialInit
  /\ reports = [r \in ReportIds |-> NoReport] /\ audit = {} /\ reviewing = [m \in Moderators |-> NoReview]

ModerationNext ==
  \/ SocialNext /\ UNCHANGED moderationVars
  \/ \E u \in People : suspensionEnds(u) \/ DeletePerson(u)
  \/ \E r \in ReportIds, u \in People : (\E v \in People : ReportUser(r, u, v)) \/ (\E m \in messages : ReportMessage(r, u, m))
  \/ \E m \in Moderators : resolveTx(m)
       \/ \E r \in ReportIds, action \in {"no_action", "warning", "temporary_suspension", "permanent_ban", "content_removal"} :
            ResolveReport(m, r, action)

\* A request that was accepted runs on: the handlers are goroutines, and a lock
\* is granted once it is free.
CommunitySpec ==
  /\ ModerationInit /\ [][ModerationNext]_<<socialVars, moderationVars>>
  /\ \A h \in Handlers : WF_<<socialVars, moderationVars>>(SocialStep(h) /\ UNCHANGED moderationVars)

-----------------------------------------------------------------------------
(* Properties *)

\* "Resolving an already-resolved report is idempotent": a report has one audit
\* record exactly when it is resolved, and what that record says was done: the
\* message is gone or a tombstone, the account banned or deleted, although two
\* moderators and the account's owner act at the same time.
ResolvedOnceWithItsEffect ==
  \A r \in ReportIds :
    LET records == {a \in audit : a.report = r}
    IN  /\ Cardinality(records) = IF Resolved(reports[r].status) THEN 1 ELSE 0
        /\ \A a \in records :
             /\ a.action = "content_removal" => \A m \in messages : {m.id} = reports[r].message => m.removed
             /\ a.action = "permanent_ban" => \A u \in reports[r].against : standing[u] = "banned"

\* "its evidence must remain reviewable even in that state": the evidence of a
\* report is never lost or rewritten, not even when the accounts and the
\* message are deleted.
EvidenceIsRetained ==
  [][\A r \in ReportIds : reports[r].status # "none" => reports'[r].evidence = reports[r].evidence]_<<socialVars, moderationVars>>
=============================================================================
