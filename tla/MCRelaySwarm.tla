---------------------------- MODULE MCRelaySwarm ----------------------------
(* TLC instance of RelaySwarm: the listeners are interchangeable.          *)
EXTENDS RelaySwarm, TLC

ListenerSymmetry == Permutations(Addrs \ Djs)
=============================================================================
