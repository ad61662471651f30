----------------------------- MODULE MCPrograms -----------------------------
(* The page replacement and the two measuring programs, of which one is run. *)
EXTENDS LRU, CntxtSwitch, TLBtest

VARIABLE program

\* A program that is not run is given no work.
MCInit ==
  /\ program \in {"LRU", "CntxtSwitchTest", "TLBtest"}
  /\ Init /\ SwitchInit /\ TlbInit
  /\ program # "CntxtSwitchTest" => total = 0
  /\ program # "TLBtest" => USE_MEM = 0 /\ PAGENUMS = 1

RunLRU == program = "LRU" /\ Next /\ UNCHANGED <<program, switchVars, tlbVars>>

RunSwitch == program = "CntxtSwitchTest" /\ SwitchNext /\ UNCHANGED <<program, vars, tlbVars>>

RunTlb == program = "TLBtest" /\ TlbNext /\ UNCHANGED <<program, vars, switchVars>>

\* The processes of the context switch test are scheduled.
MCSpec ==
  /\ MCInit
  /\ [][RunLRU \/ RunSwitch \/ RunTlb]_<<program, vars, switchVars, tlbVars>>
  /\ WF_switchVars(program = "CntxtSwitchTest" /\ ParentStep)
  /\ WF_switchVars(program = "CntxtSwitchTest" /\ ChildStep)
=============================================================================
