------------------------------ MODULE MCLockout ------------------------------
(* Instances of Lockout for TLC: one piece of equipment, where the requests   *)
(* contend, and one or two Idempotency-Keys.                                *)
EXTENDS LockoutRefinement, TLC

CONSTANTS e1, k1, k2, s1, s2, s3, a1, a2, r1, r2

AnyBodies == {b \in [key : {k1, k2}, equipment : {e1}, result : Result] :
                b.result \in {"PASS", "FAIL_BLOCKING"}}
AllBodies == [key : {k1, k2}, equipment : {e1}, result : Result]
(* the second key only brings a second failure *)
FewBodies == {b \in AnyBodies : b.key = k1 \/ b.result = "FAIL_BLOCKING"}

Symmetric == Permutations({s1, s2, s3}) \cup Permutations({k1, k2})
               \cup Permutations({a1, a2}) \cup Permutations({r1, r2})

(* Starter(e) chooses among the submits, so that they are kept apart           *)
SymmetricButSubmits == Permutations({k1, k2}) \cup Permutations({r1, r2})
=============================================================================
