------------------------------- MODULE Social -------------------------------
(***************************************************************************)
(* Following, blocking and direct messages (internal/social, internal/     *)
(* safety, internal/pairlock).  Requests run on replicas that share only   *)
(* the database, so they interleave between statements; transactions hold  *)
(* advisory locks until they commit.  Store operations are those of the    *)
(* Postgres repositories.  A message is its sender, its conversation and   *)
(* the time it was stamped with; wording is left out but for repetition.   *)
(***************************************************************************)
EXTENDS Integers, FiniteSets, Functions

CONSTANTS
  People,
  Handlers,        \* requests being handled at the same time
  ReplicaOf,       \* the replica each runs on
  Private,         \* people whose profile is not public
  UserLimit, UserWindow, ConversationLimit, ConversationWindow,   \* the abuse policy
  MaxRequests, LastTick    \* bounds

ASSUME SocialAssumption ==
  /\ UserLimit \in Nat /\ ConversationLimit \in Nat /\ UserWindow \in Nat /\ ConversationWindow \in Nat
  /\ LastTick \in Nat /\ Private \subseteq People

VARIABLES
  follows, blocks,   \* sets of <<who, whom>>
  standing,          \* standing[u]: active, suspended, banned or deleted
  conversations,     \* sets of two participants
  messages,          \* dm_messages
  lastRead,          \* lastRead[<<pair, u>>]: a stamp, 0 before the first
  hidden,            \* pairs of a message and a user who hid it
  notifications,
  locks,             \* locks[k]: the handler that holds it, as a set
  handling,          \* handling[h]: the request at hand
  tick, accepted

socialVars == <<follows, blocks, standing, conversations, messages, lastRead, hidden, notifications, locks, handling, tick, accepted>>

graph == <<follows, blocks, standing>>
mail  == <<conversations, messages, lastRead, hidden, notifications>>

Idle == [at |-> "idle", who |-> {}, whom |-> {}, stamp |-> 0]

Accept(h, request) ==
  /\ handling[h].at = "idle" /\ accepted < MaxRequests /\ accepted' = accepted + 1
  /\ handling' = [handling EXCEPT ![h] = request]

\* A request of a single statement, or outside the handlers that wait.
Serve == accepted < MaxRequests /\ accepted' = accepted + 1

Go(h, at) == handling' = [handling EXCEPT ![h].at = at]

Who(h)  == CHOOSE u \in People : handling[h].who = {u}
Whom(h) == CHOOSE u \in People : handling[h].whom = {u}

Pair(h) == handling[h].who \cup handling[h].whom

-----------------------------------------------------------------------------
(* Locks.  pairlock is a map of mutexes inside one process; the advisory   *)
(* locks belong to the database and are keyed in a fixed order.            *)

PairMutex(h)        == <<"process", ReplicaOf[h], Pair(h)>>
PairAdvisory(h)     == <<"pair", "db", Pair(h)>>
SenderAdvisory(h)   == <<"dm-user", "db", handling[h].who>>
ThreadBehindWhom(h) == <<"dm-user", "db", handling[h].whom>>
ThreadAdvisory(h)   == <<"dm-conversation", "db", Pair(h)>>

TwoPeople == {pair \in SUBSET People : Cardinality(pair) = 2}

LockKeys ==
  {<<"process", ReplicaOf[h], pair>> : h \in Handlers, pair \in TwoPeople}
    \cup {<<kind, "db", pair>> : kind \in {"pair", "dm-conversation"}, pair \in TwoPeople}
    \cup {<<"dm-user", "db", {u}>> : u \in People}

Lock(h, key) == locks[key] = {} /\ locks' = [locks EXCEPT ![key] = {h}]

\* Ending a request or its transaction gives back everything it holds.
Finish(h) ==
  /\ handling' = [handling EXCEPT ![h] = Idle]
  /\ locks' = [k \in LockKeys |-> locks[k] \ {h}]

-----------------------------------------------------------------------------
(* The interaction policy (safety/service.go, safety/postgres_repository.go) *)

IsBlockedEitherDirection(u, v) == <<u, v>> \in blocks \/ <<v, u>> \in blocks

\* Neither side is suspended or banned and no block stands between them.
CanUsersInteract(u, v) == standing[u] = "active" /\ standing[v] = "active" /\ ~IsBlockedEitherDirection(u, v)

BlockedPairUserIDs(u) == {v \in People : IsBlockedEitherDirection(u, v)}

IsFollowing(u, v) == <<u, v>> \in follows

areFriends(u, v) == IsFollowing(u, v) /\ IsFollowing(v, u)

-----------------------------------------------------------------------------
(* Following (social/service.go Follow, postgres_repository.go Follow) *)

Follow(h, u, v) ==
  /\ u # v /\ standing[u] # "deleted" /\ standing[v] # "deleted" /\ v \notin Private
  /\ Accept(h, [at |-> "follow", who |-> {u}, whom |-> {v}, stamp |-> 0])
  /\ UNCHANGED <<graph, mail, locks, tick>>

\* The in-process lock of the pair, for Follow and Block alike.
lockPair(h) ==
  /\ handling[h].at \in {"follow", "block"}
  /\ Lock(h, PairMutex(h))
  /\ Go(h, IF handling[h].at = "follow" THEN "check" ELSE "blockTx")
  /\ UNCHANGED <<graph, mail, tick, accepted>>

checkInteraction(h) ==
  /\ handling[h].at = "check"
  /\ IF CanUsersInteract(Who(h), Whom(h)) THEN Go(h, "followTx") /\ UNCHANGED locks ELSE Finish(h)
  /\ UNCHANGED <<graph, mail, tick, accepted>>

followWithoutLock(h) ==
  /\ handling[h].at = "followTx"
  /\ Go(h, "exists")
  /\ UNCHANGED <<graph, mail, locks, tick, accepted>>

\* The transaction of a follow: lock the pair, look for a block, insert.
followLock(h) ==
  /\ handling[h].at = "followTx"
  /\ Lock(h, PairAdvisory(h))
  /\ Go(h, "exists")
  /\ UNCHANGED <<graph, mail, tick, accepted>>

followBlocked(h) ==
  /\ handling[h].at = "exists"
  /\ IF IsBlockedEitherDirection(Who(h), Whom(h)) THEN Finish(h) ELSE Go(h, "insert") /\ UNCHANGED locks
  /\ UNCHANGED <<graph, mail, tick, accepted>>

followInsert(h) ==
  /\ handling[h].at = "insert"
  /\ follows' = IF "deleted" \in {standing[u] : u \in Pair(h)} THEN follows ELSE follows \cup {<<Who(h), Whom(h)>>}
  /\ Finish(h)
  /\ UNCHANGED <<blocks, standing, mail, tick, accepted>>

Unfollow(u, v) ==
  /\ Serve
  /\ <<u, v>> \in follows /\ follows' = follows \ {<<u, v>>}
  /\ UNCHANGED <<blocks, standing, mail, locks, handling, tick>>

-----------------------------------------------------------------------------
(* Blocking (safety/service.go, postgres_block_coordinator.go) *)

Block(h, u, v) ==
  /\ u # v /\ standing[u] # "deleted" /\ standing[v] # "deleted"
  /\ Accept(h, [at |-> "block", who |-> {u}, whom |-> {v}, stamp |-> 0])
  /\ UNCHANGED <<graph, mail, locks, tick>>

blockLock(h) ==
  /\ handling[h].at = "blockTx"
  /\ Lock(h, PairAdvisory(h))
  /\ Go(h, "blockCommit")
  /\ UNCHANGED <<graph, mail, tick, accepted>>

\* The block and the removal of both follows commit together.
BlockAndRemoveRelationships(h) ==
  /\ handling[h].at = "blockCommit"
  /\ IF "deleted" \in {standing[u] : u \in Pair(h)} THEN UNCHANGED <<blocks, follows>>
     ELSE /\ blocks' = blocks \cup {<<Who(h), Whom(h)>>}
          /\ follows' = follows \ {<<Who(h), Whom(h)>>, <<Whom(h), Who(h)>>}
  /\ Finish(h)
  /\ UNCHANGED <<standing, mail, tick, accepted>>

Unblock(u, v) ==
  /\ Serve
  /\ <<u, v>> \in blocks /\ blocks' = blocks \ {<<u, v>>}
  /\ UNCHANGED <<follows, standing, mail, locks, handling, tick>>

-----------------------------------------------------------------------------
(* Messages *)

\* Created under the unique pair key, so a pair has one conversation.
PutConversation(u, v) == conversations' = conversations \cup {{u, v}}

CreateConversation(u, v) ==
  /\ u # v /\ Serve
  /\ CanUsersInteract(u, v) /\ areFriends(u, v)
  /\ {u, v} \notin conversations /\ PutConversation(u, v)
  /\ UNCHANGED <<graph, messages, lastRead, hidden, notifications, locks, handling, tick>>

\* The checks are made and the message is stamped before the transaction.
SendMessage(h, u, v) ==
  /\ {u, v} \in conversations /\ u # v
  /\ CanUsersInteract(u, v) /\ areFriends(u, v)
  /\ Accept(h, [at |-> "send", who |-> {u}, whom |-> {v}, stamp |-> tick])
  /\ UNCHANGED <<graph, mail, locks, tick>>

\* The sender's lock, then the conversation's.
lockSender(h) ==
  /\ handling[h].at = "send"
  /\ Lock(h, SenderAdvisory(h)) /\ Go(h, "thread")
  /\ UNCHANGED <<graph, mail, tick, accepted>>

lockThread(h) ==
  /\ handling[h].at = "thread"
  /\ Lock(h, ThreadAdvisory(h)) /\ Go(h, "count")
  /\ UNCHANGED <<graph, mail, tick, accepted>>

SentBy(u, since) == {m \in messages : m.from = u /\ m.at >= since}

SentIn(pair, since) == {m \in messages : m.in = pair /\ m.at >= since}

withinPolicyByOne(h) ==
  /\ Cardinality(SentBy(Who(h), handling[h].stamp - UserWindow)) <= UserLimit
  /\ Cardinality(SentIn(Pair(h), handling[h].stamp - ConversationWindow)) <= ConversationLimit

\* The budgets of the sender and of the conversation; 0 means no limit.
withinPolicy(h) ==
  /\ UserLimit > 0 => Cardinality(SentBy(Who(h), handling[h].stamp - UserWindow)) < UserLimit
  /\ ConversationLimit > 0 => Cardinality(SentIn(Pair(h), handling[h].stamp - ConversationWindow)) < ConversationLimit

countMessages(h) ==
  /\ handling[h].at = "count"
  /\ IF withinPolicy(h) THEN Go(h, "write") /\ UNCHANGED locks ELSE Finish(h)
  /\ UNCHANGED <<graph, mail, tick, accepted>>

\* An id no message has.
UnusedId == CHOOSE i \in 1..(Cardinality(messages) + 1) : \A m \in messages : m.id # i

NewMessage(h) ==
  [id |-> UnusedId, from |-> Who(h), in |-> Pair(h), at |-> handling[h].stamp, removed |-> FALSE]

\* The message and the recipient's notification, in one transaction.
CreateMessage(h) ==
  /\ handling[h].at = "write"
  /\ IF Pair(h) \notin conversations THEN UNCHANGED <<messages, notifications>>
     ELSE /\ messages' = messages \cup {NewMessage(h)}
          /\ notifications' = notifications \cup {[to |-> Whom(h), key |-> <<"message", NewMessage(h).id>>, read |-> FALSE]}
  /\ Finish(h)
  /\ UNCHANGED <<graph, conversations, lastRead, hidden, tick, accepted>>

HideMessage(m, u) ==
  /\ Serve /\ u \in m.in /\ hidden' = hidden \cup {<<m.id, u>>} /\ hidden' # hidden
  /\ UNCHANGED <<graph, conversations, messages, lastRead, notifications, locks, handling, tick>>

\* The stamp of the message named is the new mark, also when it is older.
MarkRead(m, u) ==
  /\ Serve /\ u \in m.in /\ lastRead[<<m.in, u>>] # m.at /\ lastRead' = [lastRead EXCEPT ![<<m.in, u>>] = m.at]
  /\ UNCHANGED <<graph, conversations, messages, hidden, notifications, locks, handling, tick>>

countsUnread(m, u) == m.from # u /\ ~m.removed /\ <<m.id, u>> \notin hidden /\ m.at > lastRead[<<m.in, u>>]

ConversationUnreadCount(pair, u) == Cardinality({m \in messages : m.in = pair /\ countsUnread(m, u)})

\* The badge: unread messages of every conversation of the user.
UnreadCount(u) ==
  Cardinality({m \in messages : \E pair \in conversations : u \in pair /\ m.in = pair /\ countsUnread(m, u)})

\* The inbox leaves out the conversations with blocked people.
Conversations(u) == {pair \in conversations : u \in pair /\ pair \cap BlockedPairUserIDs(u) = {}}

\* What the user sees when opening a conversation.
Messages(pair, u) == {m \in messages : m.in = pair /\ <<m.id, u>> \notin hidden}

MarkNotificationRead(n) ==
  /\ Serve /\ ~n.read /\ notifications' = (notifications \ {n}) \cup {[n EXCEPT !.read = TRUE]}
  /\ UNCHANGED <<graph, conversations, messages, lastRead, hidden, locks, handling, tick>>

timePasses ==
  /\ tick < LastTick /\ tick' = tick + 1
  /\ UNCHANGED <<graph, mail, locks, handling, accepted>>

-----------------------------------------------------------------------------

\* Everyone has just met, or is friends and has a conversation already.
SocialInit ==
  /\ \/ follows = {} /\ conversations = {}
     \/ follows = {f \in People \X People : f[1] # f[2]} /\ conversations = TwoPeople
  /\ blocks = {} /\ standing = [u \in People |-> "active"] /\ messages = {} /\ lastRead = [mark \in TwoPeople \X People |-> 0]
  /\ hidden = {} /\ notifications = {} /\ locks = [k \in LockKeys |-> {}]
  /\ handling = [h \in Handlers |-> Idle] /\ tick = 1 /\ accepted = 0

SocialStep(h) ==
  \/ lockPair(h) \/ checkInteraction(h) \/ followLock(h) \/ followBlocked(h) \/ followInsert(h)
  \/ blockLock(h) \/ BlockAndRemoveRelationships(h)
  \/ lockSender(h) \/ lockThread(h) \/ countMessages(h) \/ CreateMessage(h)

SocialNext ==
  \/ timePasses
  \/ \E h \in Handlers : SocialStep(h)
  \/ \E h \in Handlers, u, v \in People :
       Follow(h, u, v) \/ Block(h, u, v) \/ SendMessage(h, u, v)
  \/ \E u, v \in People : Unfollow(u, v) \/ Unblock(u, v) \/ CreateConversation(u, v)
  \/ \E m \in messages, u \in People : HideMessage(m, u) \/ MarkRead(m, u)
  \/ \E n \in notifications : MarkNotificationRead(n)

-----------------------------------------------------------------------------
(* Properties *)

\* "a follow can never be created after a block has been checked-and-passed but
\* before it commits": a block and a follow never stand between the same two
\* people, whichever replicas handle the requests.
BlockExcludesFollow ==
  \A u, v \in People : <<u, v>> \in blocks => <<u, v>> \notin follows /\ <<v, u>> \notin follows

\* "serializes the per-user budget across conversations and the per-
\* conversation budget across both participants, including across API
\* replicas": no window of time holds more messages than its limit, although a
\* message is stamped before it waits for the locks.
MessageBudget ==
  \A t \in 1..LastTick :
    /\ UserLimit > 0 => \A u \in People : Cardinality({m \in SentBy(u, t - UserWindow) : m.at <= t}) <= UserLimit
    /\ ConversationLimit > 0 =>
         \A pair \in TwoPeople : Cardinality({m \in SentIn(pair, t - ConversationWindow) : m.at <= t}) <= ConversationLimit

\* The badge and the inbox are two queries: while nobody is blocked the badge is
\* the sum of the counts in the inbox, and every unread message is one the user
\* finds in the conversation, not hidden and not taken down.
BadgeMatchesInbox ==
  \A u \in People :
    /\ BlockedPairUserIDs(u) = {} => UnreadCount(u) = FoldFunction(+, 0, [pair \in Conversations(u) |-> ConversationUnreadCount(pair, u)])
    /\ \A pair \in Conversations(u) : ConversationUnreadCount(pair, u) <= Cardinality({m \in Messages(pair, u) : ~m.removed})

\* Nobody waits for ever for the locks of others.
RequestsReturn == \A h \in Handlers : handling[h].at # "idle" ~> handling[h].at = "idle"
=============================================================================
