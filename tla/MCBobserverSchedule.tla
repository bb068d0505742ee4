------------------------- MODULE MCBobserverSchedule -------------------------
(* Finite instance of BobserverSchedule: three producers and three slots   *)
(* with two voted places, the ratio of the real 17 voted of 21 slots.     *)
EXTENDS BobserverQueries

MCProducers == {1, 2, 3}
MCVotes == {0, 2}
MCVersions == {1, 2}
\* <<hardfork version, vote time>>: the genesis vote and a new target.
MCHfVotes == {<<1, 0>>, <<2, 5>>}
=============================================================================
