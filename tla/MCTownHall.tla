------------------------------ MODULE MCTownHall ------------------------------
(* Two providers for the one seat of a request; a provider whose plan allows   *)
(* one room with two requests; a provider and a buyer who befriend and block.  *)
EXTENDS TownHall, TLC

CONSTANTS r1, r2, p1, p2

MCRequests == {r1, r2}
MCProviders == {p1, p2}
MCScenes ==
    {[requests |-> {r1}, providers |-> {p1, p2}, social |-> FALSE],
     [requests |-> {r1, r2}, providers |-> {p1}, social |-> FALSE],
     [requests |-> {r1}, providers |-> {p1}, social |-> TRUE]}
=============================================================================
