----------------------------- MODULE MCProcess -----------------------------
(***************************************************************************)
(* Processes, one part per behaviour: several that want the scheduler lock *)
(* and recover each other's scans (MCCrashRecovery), the inside of one of  *)
(* them (Runner), and its port scanner (PortScan).  The parts share no     *)
(* state; `part` says which of them a behaviour is about.                  *)
(***************************************************************************)
EXTENDS MCCrashRecovery, PortScan, Runner

VARIABLE part

procVars == <<part, vars, runVars, portVars>>

\* What an earlier process has left matters to the runner only.
ProcInit ==
  /\ part \in {"recovery", "runner", "ports"} /\ RecInit /\ RunnerInit /\ PortInit
  /\ part # "runner" => file = [error |-> FALSE, age |-> 0]

\* A step of the part, while the others rest.
InRecovery(A) == part = "recovery" /\ A /\ UNCHANGED <<part, runVars, portVars>>
InRunner(A)   == part = "runner" /\ A /\ UNCHANGED <<part, vars, portVars>>
InPorts(A)    == part = "ports" /\ A /\ UNCHANGED <<part, vars, runVars>>

ProcNext == InRecovery(RecNext) \/ InRunner(RunnerNext) \/ InPorts(PortNext)

ProcLiveSpec ==
  /\ ProcInit /\ [][ProcNext]_procVars
  /\ WF_procVars(InRecovery(AgeRow /\ UNCHANGED recVars))
  /\ \A p \in Procs : SF_procVars(InRecovery(Acquire(p) /\ UNCHANGED recVars))
  /\ WF_procVars(InRunner(Main)) /\ WF_procVars(InRunner(LoopSteps))
  /\ WF_procVars(InRunner(Supervisor)) /\ WF_procVars(InRunner(Age))
  /\ WF_procVars(InPorts(Loop)) /\ \A p \in ProbeIds : WF_procVars(InPorts(Goroutine(p)))
  /\ Apart

\* Every part is well typed.
ProcTypeOK == RecTypeOK /\ RunnerTypeOK /\ PortTypeOK
=============================================================================
