-------------------------- MODULE AtomicPortfolio ---------------------------
(***************************************************************************)
(* What the mutation coordinator promises its callers: requests take       *)
(* effect one at a time, each at a single instant between its call and its *)
(* return; a keyed request takes effect at most once however often it is   *)
(* sent, and a resend is answered with the version the first one reached;  *)
(* a key is never answered with another request's result.                  *)
(***************************************************************************)
EXTENDS Integers

CONSTANTS Calls, Requests, NoKey

VARIABLES
  asked,    \* the request of each call, NoRequest before it is made
  reply,    \* the answer of each call
  version,  \* the aggregate version
  log       \* what took effect: request and version reached

NoRequest == [key |-> NoKey, op |-> "none"]
NoReply   == [status |-> "none", version |-> 0]
Refused   == [status |-> "refused", version |-> 0]

Pending(c) == asked[c] # NoRequest /\ reply[c] = NoReply

Entry(r, v)     == [req |-> r, version |-> v]
Used(key)       == key # NoKey /\ \E a \in log : a.req.key = key

Call(c, r) ==
  /\ asked[c] = NoRequest
  /\ asked' = [asked EXCEPT ![c] = r]
  /\ UNCHANGED <<reply, version, log>>

TakeEffect(c) ==
  /\ Pending(c) /\ ~Used(asked[c].key)
  /\ version' = version + 1
  /\ log' = log \cup {Entry(asked[c], version + 1)}
  /\ reply' = [reply EXCEPT ![c] = [status |-> "committed", version |-> version + 1]]
  /\ UNCHANGED asked

Resend(c) ==
  /\ Pending(c)
  /\ \E a \in log :
       /\ a.req = asked[c] /\ a.req.key # NoKey
       /\ reply' = [reply EXCEPT ![c] = [status |-> "replayed", version |-> a.version]]
  /\ UNCHANGED <<asked, version, log>>

Refuse(c) ==
  /\ Pending(c)
  /\ reply' = [reply EXCEPT ![c] = Refused]
  /\ UNCHANGED <<asked, version, log>>

Init ==
  /\ asked = [c \in Calls |-> NoRequest]
  /\ reply = [c \in Calls |-> NoReply]
  /\ version = 1 /\ log = {}

Next == \E c \in Calls : TakeEffect(c) \/ Resend(c) \/ Refuse(c) \/ \E r \in Requests : Call(c, r)

Spec == Init /\ [][Next]_<<asked, reply, version, log>>
=============================================================================
