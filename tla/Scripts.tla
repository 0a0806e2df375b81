------------------------------- MODULE Scripts -------------------------------
(***************************************************************************)
(* The scripts whose models share no state: the self-tests, the full       *)
(* build, the orphan gate, the measurement of a process tree and the       *)
(* writer of reviewer addresses.  A behaviour runs one of them, chosen at  *)
(* the start, while the others rest in one of their initial states, so     *)
(* that an invariant of a script holds here exactly if it holds of the     *)
(* script.                                                                 *)
(***************************************************************************)
EXTENDS SelfTest, BuildPlan, OrphanModules, MeasureTree, ReviewerAttribution

VARIABLE script

scriptsVars == <<script, selfTestVars, planVars, orphanVars, measureVars, reviewerVars>>

(* One initial state of each script; it stays in it.                       *)
SelfTestRests ==
    /\ regime = CHOOSE x \in Regimes : TRUE
    /\ blind = CHOOSE x \in Blinds : TRUE
    /\ SelfTestInit
PlanRests ==
    /\ imports = CHOOSE x \in ImportGraphs : TRUE
    /\ targets = CHOOSE x \in Configs : TRUE
    /\ setting = CHOOSE x \in Settings : TRUE
    /\ PlanInit
OrphanRests ==
    /\ lakefile = CHOOSE x \in Lakefiles : TRUE
    /\ index = CHOOSE x \in Graphs : TRUE
    /\ tracked = Names \ CHOOSE x \in Untracked : TRUE
    /\ OrphanInit
MeasureRests == lock = Free /\ MeasureInit
ReviewerRests == (typed = CHOOSE x \in Addresses : TRUE) /\ ReviewerInit

Init ==
    \/ /\ script = "self-test"
       /\ PlanRests /\ OrphanRests /\ MeasureRests /\ ReviewerRests
       /\ SelfTestInit
    \/ /\ script = "build_full"
       /\ SelfTestRests /\ OrphanRests /\ MeasureRests /\ ReviewerRests
       /\ PlanInit
    \/ /\ script = "check_orphan_modules"
       /\ SelfTestRests /\ PlanRests /\ MeasureRests /\ ReviewerRests
       /\ OrphanInit
    \/ /\ script = "measure_process_tree"
       /\ SelfTestRests /\ PlanRests /\ OrphanRests /\ ReviewerRests
       /\ MeasureInit
    \/ /\ script = "check_references"
       /\ SelfTestRests /\ PlanRests /\ OrphanRests /\ MeasureRests
       /\ ReviewerInit

Next ==
    /\ UNCHANGED script
    /\ \/ /\ script = "self-test" /\ SelfTestNext
          /\ UNCHANGED <<planVars, orphanVars, measureVars, reviewerVars>>
       \/ /\ script = "build_full" /\ PlanNext
          /\ UNCHANGED <<selfTestVars, orphanVars, measureVars, reviewerVars>>
       \/ /\ script = "check_orphan_modules" /\ OrphanNext
          /\ UNCHANGED <<selfTestVars, planVars, measureVars, reviewerVars>>
       \/ /\ script = "measure_process_tree" /\ MeasureNext
          /\ UNCHANGED <<selfTestVars, planVars, orphanVars, reviewerVars>>
       \/ /\ script = "check_references" /\ ReviewerNext
          /\ UNCHANGED <<selfTestVars, planVars, orphanVars, measureVars>>

Spec == Init /\ [][Next]_scriptsVars

==============================================================================
