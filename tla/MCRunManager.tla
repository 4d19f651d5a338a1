---------------------------- MODULE MCRunManager -----------------------------
(***************************************************************************)
(* Instances of RunManager for TLC: a few jobs, one of which may stop      *)
(* resolving, and requests for one job, for several in a row and for every *)
(* enabled job.                                                            *)
(***************************************************************************)
EXTENDS RunManager, TLC

CONSTANTS a, b, c, h1, h2, tray, s1

TwoHandlers == {h1, h2, tray}
OneHandler == {h1, tray}
HandlerSymmetry == Permutations({h1, h2})

All(S) == [enabled |-> S, named |-> S]
Doubled(S, x) == [enabled |-> S, named |-> S \ {x}]

(* Two jobs, and none of them enabled.                                     *)
SafetySelectors == {a, b}
SafetyConfigs == {All({a, b}), All({})}
SafetyBatches == { << {a} >>, << {a}, {b} >>, << {} >> }

(* Three jobs in a row; a second job turns up under the selector of one.   *)
LivenessSelectors == {a, b, c}
LivenessConfigs == {All({a, b, c}), Doubled({a, b, c}, b)}
LivenessBatches == { << {a}, {b}, {c} >>, << {b} >> }
==============================================================================
