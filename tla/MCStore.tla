------------------------------- MODULE MCStore -------------------------------
(* Instances of Store for TLC. *)
EXTENDS Store, TLC

CONSTANTS c1, c2, h1, h2, loop, ctl

(* Any recorded blob trips the size cap, so a pass with one is aggressive;    *)
(* otherwise only commands below the loop's counter are old enough.           *)
CapConfig == [age |-> 0, cap |-> 1]

(* A cap out of reach: age alone decides. *)
AgeConfig == [age |-> 0, cap |-> 9]

MCCtlConfigs == {CapConfig}

Symm == Permutations({c1, c2}) \cup Permutations({h1, h2})
=============================================================================
