------------------------------- MODULE MCPads -------------------------------
(* An instance of the ports and of the saves for TLC.  A save works on the *)
(* pak in sections that hold the ports' lock and shares nothing else with  *)
(* them, so a behaviour of the instance is one of either part.             *)
EXTENDS Controllers, PakNotes, TLC

VARIABLE part    \* the part that runs

padsVars == <<vars, pakVars, part>>

\* The part that does not run has one initial state.
PadsInit ==
  /\ Init /\ PakInit
  /\ \/ part = "ports" /\ slot = Nothing /\ note = [p \in Paks |-> [f \in Files |-> "none"]]
     \/ part = "saves" /\ mode = "game" /\ socket = [p \in Ports |-> "empty"]

\* Paks, notes and names are alike; no state of the ports tells them apart.
PakSymmetry == Permutations(Paks) \cup Permutations(Files) \cup Permutations(Names)

InPorts(A) == part = "ports" /\ A /\ UNCHANGED <<pakVars, part>>
InSaves(A) == part = "saves" /\ A /\ UNCHANGED <<vars, part>>

PadsSpec ==
  /\ PadsInit /\ [][InPorts(Next) \/ InSaves(PakNext)]_padsVars
  /\ WF_padsVars(InPorts(ServiceStep)) /\ WF_padsVars(InPorts(SI_Answers))
  /\ SF_padsVars(InPorts(MainGoesOn)) /\ SF_padsVars(InPorts(Controller_UpdatePakInsertion))
=============================================================================
