--------------------------- MODULE MCAchievements ---------------------------
(* Small instances of the ranked history with its awards, and of the benchmark
   index, for TLC.  They share no state, so a behaviour exercises one of them
   while the other stays in its first state.  The badge's period, with the
   boundary tolerance and one slow interval, stays inside the retention, as those
   of the 30 and 90 day badges do. *)
EXTENDS Achievements, BenchmarkIndex

MCBadges == [beat |-> [period |-> 2, kind |-> "positive_and_beat", edge |-> 0]]

Leg(s, w) == [symbol |-> s, ref |-> "", weight |-> w]
Ref(r, w) == [symbol |-> "", ref |-> r, weight |-> w]
Half      == Frac(1, 2)

Version(recipe, id, known, policy, legs) ==
  [recipe |-> recipe, id |-> id, known |-> known, from |-> known, until |-> 0, policy |-> policy, legs |-> legs]

Plain  == <<Leg("A", Half), Leg("B", Half)>>
Nested == <<Leg("A", Half), Ref("child", Half)>>
Filing(id, known, legs) == Version("r", id, known, "filing_snapshot_hold", legs)

\* Every policy, a nested, a circular and a dangling recipe, three filings, a
\* filing of another policy, and stores that are not accepted.
MCStores ==
  {{Version("r", 1, 0, policy, Plain)} : policy \in {"daily_target_weight", "buy_and_hold", "periodic_monthly", "unknown"}}
  \cup {{Version("r", 1, 0, "daily_target_weight", Nested), Version("child", 1, 0, "buy_and_hold", Plain)},
        {Version("r", 1, 0, "daily_target_weight", Nested), Version("child", 1, 0, "buy_and_hold", <<Ref("r", One)>>)},
        {Version("r", 1, 0, "daily_target_weight", Nested)},
        {Filing(1, 0, <<Leg("A", One)>>), Filing(2, 1, Plain), Filing(3, 3, <<Leg("B", One)>>)},
        {Filing(1, 0, Plain), Version("r", 2, 2, "buy_and_hold", Plain)},
        {Filing(1, 2, Plain)},
        {Version("r", 1, 0, "buy_and_hold", <<Leg("A", Half)>>)},
        {[Filing(1, 0, Plain) EXCEPT !.until = 4], Filing(2, 3, Plain)}}

Closes(S) == [close : S, synthetic : {FALSE}, stale : {FALSE}, adjusted : {TRUE}]

\* A may lack its third close; B, quoted abroad, is also served stale, synthetic or raw.
MCSeries ==
  [A |-> Closes({c \in [1..5 -> 0..2] : \A d \in 1..5 : (c[d] = 0 => d = 3) /\ c[1] = 1}),
   B |-> Closes({<<1, 2, 1, 1, 2>>, <<1, 0, 0, 0, 0>>})
         \cup {[close |-> <<2, 1, 1, 2, 1>>, synthetic |-> x = 1, stale |-> x = 2, adjusted |-> x < 3] : x \in 1..3}]

MCRates == {<<1, 1, 2, 1, 1>>, <<1, 0, 1, 1, 1>>}
MCWindows == {<<1, 5>>, <<1, 4>>, <<2, 2>>}
MCTolerance == Frac(1, 10000)

AwardsUntouched == now = 0 /\ moves + mishaps = 0 /\ rows = {} /\ pass = [e \in Workers \cup Requests |-> Resting]
IndexUntouched  == bench = IdleBench

awardsAndIndex == <<achievementVars, benchVars>>
alone(A)       == IndexUntouched /\ A /\ UNCHANGED benchVars

AwardsInit == AchievementsInit /\ BenchmarkInit

AwardsNext ==
  \/ alone(AchievementsNext)
  \/ AwardsUntouched /\ BenchmarkNext /\ UNCHANGED achievementVars

\* AchievementsSpec, as long as no index is being computed.
AwardsSpec ==
  /\ AwardsInit /\ [][AwardsNext]_awardsAndIndex
  /\ \A w \in Workers : WF_awardsAndIndex(alone(workerStep(w))) /\ []<>(pass[w].at # "evaluating")
  /\ \A q \in Requests : WF_awardsAndIndex(alone(finishRequest(q)))
  /\ WF_awardsAndIndex(alone(intervalPasses)) /\ WF_awardsAndIndex(alone(leaseLapses))
=============================================================================
