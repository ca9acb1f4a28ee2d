----------------------------- MODULE MCCooling -----------------------------
(* Instances of Cooling for TLC: the callers, the calls they make, and the   *)
(* symmetry of callers, which differ in nothing but name.                    *)
EXTENDS Cooling, TLC

OneBackendOnly == {"hw"}
TwoBackends    == {"hw", "other"}
OnOff          == {"enable", "disable"}
OnOffHeat      == {"enable", "disable", "heat"}
OnOffClose     == {"enable", "disable", "close"}
AllCalls       == {"enable", "disable", "close", "heat", "reset"}

CallerSymmetry == Permutations(Callers)
=============================================================================
