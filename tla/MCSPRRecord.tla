---------------------------- MODULE MCSPRRecord ----------------------------
EXTENDS SPRRecord

CONSTANTS fa1, fa2, fa3

(* MainNet is active from height 2, TestNet from height 1.                 *)
MCActivation == [n \in {"MainNet", "TestNet"} |-> IF n = "MainNet" THEN 2 ELSE 1]
MCAddresses == {fa1, fa2, fa3}
MCValidFCT == {fa1, fa2}
MCAssetsV4 == <<"PEG", "USD">>
(* A version-1 list longer than AssetsV4 (an extra asset), and one shorter. *)
MCAssetsV1Longer == <<"PEG", "USD", "XPT">>
MCAssetsV1Shorter == <<"PEG">>
==============================================================================
