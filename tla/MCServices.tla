----------------------------- MODULE MCServices -----------------------------
(* Small instances, for TLC, of the services that answer readers: the two boards,
   market data and the instrument register.  They share no state, so a behaviour
   exercises one of them while the others stay in one of their first states. *)
EXTENDS Leaderboard, CompetitionRanking, MarketData, Instruments

Perf(ret, windows) == [state |-> "ranked", return |-> ret, windows |-> windows]
Out(state) == [state |-> state, return |-> 0, windows |-> {}]

MCPerformances == {Perf(1, {}), Perf(2, {"1W"}), Out("failing"), Out("paused")}
MCNames == [u \in Users |-> IF u = 1 THEN 2 ELSE 1]

BoardUntouched      == lock = {} /\ changes + faults = 0 /\ \A u \in Users : Row(u) = 1
RankingUntouched    == turn = NoTurn /\ mishaps = 0 /\ \A e \in Entries : status[e] = "pending"

MarketUntouched ==
  /\ Chain = "twelvedata" /\ AllowStaleOnError
  /\ now = 1 /\ quotes = {} /\ catalog = {} /\ served = {}
  /\ limiter.windowCount = 0 /\ \A c \in Callers : request[c] = NoRequest
InstrumentUntouched ==
  /\ date = 1 /\ opened = 0 /\ aliases = {} /\ \A x \in Records : records[x].symbol = "FB" /\ records[x].on = 1
  /\ \A x \in Records : queue[x] = "none"

boards   == <<vars, rankingVars>>
services == <<vars, rankingVars, marketVars, instrumentVars>>

ServicesInit == Init /\ RankingInit /\ MarketInit /\ InstrumentInit

ServicesNext ==
  \/ /\ MarketUntouched /\ InstrumentUntouched /\ UNCHANGED <<marketVars, instrumentVars>>
     /\ \/ Next /\ RankingUntouched /\ UNCHANGED rankingVars
        \/ RankingNext /\ BoardUntouched /\ UNCHANGED vars
  \/ /\ BoardUntouched /\ RankingUntouched /\ UNCHANGED boards
     /\ \/ MarketNext /\ InstrumentUntouched /\ UNCHANGED instrumentVars
        \/ InstrumentNext /\ MarketUntouched /\ UNCHANGED marketVars

ServicesSpec == ServicesInit /\ [][ServicesNext]_services
=============================================================================
