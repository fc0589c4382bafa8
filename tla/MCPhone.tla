------------------------------ MODULE MCPhone ------------------------------
(* Small instances of PhoneSession.                                        *)
EXTENDS PhoneSession, TLC

\* Route ids of one kind are interchangeable.
RouteNames == Permutations(RelayRoutes) \cup Permutations(DirectRoutes)
=============================================================================
