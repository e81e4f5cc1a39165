--------------------------- MODULE MCBurnCommand ---------------------------
EXTENDS BurnCommand

CONSTANTS p1, p2

MCProcs == {p1, p2}

(* Pegnet.Network settings: another casing of MainNet, the TestNet alias, *)
(* the unit-test network (which has no burn address) and a wrong name.     *)
MCConfigNames == {"mainnet", "TestNet", "unit-test", "Bogus"}

MCLower ==
    "mainnet" :> "mainnet" @@ "MainNet" :> "mainnet" @@
    "TestNet" :> "testnet" @@ "TestNet-pM7" :> "testnet-pm7" @@
    "unit-test" :> "unit-test" @@ "UnitTest" :> "unittest" @@
    "Bogus" :> "bogus"

=============================================================================
