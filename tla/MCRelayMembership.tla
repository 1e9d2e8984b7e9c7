-------------------------- MODULE MCRelayMembership --------------------------
(* TLC instance of RelayMembership: two of three clients share a device and *)
(* are interchangeable, and so are the names nobody can own.                *)
EXTENDS RelayMembership, TLC

CONSTANTS a1, a2, a3, d1, d2

MCDeviceOf == a1 :> d1 @@ a2 :> d2 @@ a3 :> d2

MembershipSymmetry == Permutations({a2, a3}) \cup Permutations(Free)
=============================================================================
