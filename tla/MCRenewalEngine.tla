--------------------------- MODULE MCRenewalEngine ---------------------------
EXTENDS RenewalEngine, TLC

\* one subscription; three of them, all overdue from the first night on
OneSub == {1}
ThreeSubs == {1, 2, 3}
EngineSymmetry == Permutations(Engines)
ActorSymmetry == Permutations(Actors)
AddressSymmetry == Permutations(Addresses)
Symmetric == EngineSymmetry \union ActorSymmetry \union AddressSymmetry
=============================================================================
