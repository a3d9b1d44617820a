---------------------------- MODULE MCQuotaLease ----------------------------
(***************************************************************************)
(* Instances of QuotaLease for TLC.                                        *)
(***************************************************************************)
EXTENDS QuotaLease, TLC

CONSTANTS r1, r2, k1, k2

\* Two requests billed under keys of their own, or one redelivered.
OwnKeys   == r1 :> k1 @@ r2 :> k2
SharedKey == r1 :> k1 @@ r2 :> k1

OneCredit  == [k \in Key |-> 1]
MixedCosts == k1 :> 1 @@ k2 :> 2
TwoCredits == [k \in Key |-> 2]

NoAdjustment == {}
TopUps       == {1, -1}
=============================================================================
