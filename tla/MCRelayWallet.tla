---------------------------- MODULE MCRelayWallet ----------------------------
(* TLC instance of RelayWallet: a DJ with a pre-seeded wallet, a listener   *)
(* without, two clients of it, and a charge token for the listener.         *)
EXTENDS RelayWallet, TLC

CONSTANTS dj, fan, t1

MCTokenDevice == t1 :> fan
MCTokenTime == t1 :> 1
MCTokenAmount == t1 :> 20
MCSeats == {<<dj, 1>>, <<fan, 1>>, <<fan, 2>>}
MCSeeds == dj :> 10 @@ fan :> 0
=============================================================================
