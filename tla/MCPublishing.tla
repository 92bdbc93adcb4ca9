---------------------------- MODULE MCPublishing ----------------------------
(* Instances of Publishing: item lists that add, drop, reword and repeat a  *)
(* key, and make a required item optional (v2 is the text of one that is).  *)
EXTENDS Publishing

CONSTANTS ann, bob, olga, brake, horn, v1, v2

It(k, t) == [key |-> k, text |-> t]

ThreeLists == {<<It(brake, v1)>>,
               <<It(horn, v1), It(brake, v2)>>,
               <<It(brake, v1), It(brake, v2)>>}

\* Two admins who race, or one who publishes under an operator's hands.
TwoAdminsOrOneAndAPhone == {{ann, bob}, {ann, olga}}
=============================================================================
