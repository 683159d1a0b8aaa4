---------------------------- MODULE MCRacingCallers ----------------------------
(* The approval tiers of config/deployment_tiers.json, two channels, and symmetry. *)
EXTENDS RacingCallers, TLC

\* A source with its launches, and responses of the source.
Base == [id |-> "s", kind |-> "market_snapshot", https |-> TRUE, credentials |-> FALSE,
         host |-> "api", port |-> 443, allowed |-> {"api"}, method |-> "GET", auth |-> "NONE",
         reference |-> "none", types |-> {"application/json"}, ttl |-> 1, bytes |-> 2, rate |-> 1,
         redirects |-> "NO_REDIRECTS", timeout |-> 5]
Text == [type |-> "text/plain", wellFormed |-> TRUE, newlines |-> 1, bytes |-> 2]
MCBodies == {Text, [Text EXCEPT !.newlines = 0]}

TwoChannels == <<"telegram", "discord">>
Symmetry == Permutations(Launches) \cup Permutations(Recorders) \cup Permutations(Tasks) \cup Permutations(Keys)
=============================================================================
