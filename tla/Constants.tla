------------------------------ MODULE Constants ------------------------------
(***************************************************************************)
(* The tool classification of option/constants.py, as the collect task,   *)
(* the result set helpers and the command-line checks use it.  Each test  *)
(* is a substring test on one tool name; Sig[t] is the set of tested      *)
(* substrings that occur in t ("16" and "32" included, for the core-count *)
(* check of CmdLine.parse).                                                *)
(***************************************************************************)
CONSTANT Sig

isPintool(t) == "pintool" \in Sig[t]

isMESIConfig(t) == "mesi" \in Sig[t]

isCEConfig(t) == "ce" \in Sig[t] /\ "mesi" \notin Sig[t]

isViserConfig(t) == "viseroptregularplru" \notin Sig[t] /\ "viser" \in Sig[t]

isPauseConfig(t) ==
    \/ Sig[t] \cap {"pause", "restart", "viseroptregularplru"} # {}
    \/ isCEConfig(t)

isRCCSIConfig(t) == "rccsi" \in Sig[t]

isSimulatorConfig(t) ==
    \/ isMESIConfig(t) \/ isViserConfig(t) \/ isRCCSIConfig(t)
    \/ isPauseConfig(t) \/ isCEConfig(t)

=============================================================================
