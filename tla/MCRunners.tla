------------------------------ MODULE MCRunners ------------------------------
(***************************************************************************)
(* Sessions of poolint_runner (CollectorRun) or of net_runner (NetRun),    *)
(* one script per behaviour.                                               *)
(***************************************************************************)
EXTENDS NetRun

CONSTANTS NumSessions, Drops, MaxPackets

VARIABLES script, session_no, pc, fault, flows, coll, json, returned

Pool == INSTANCE CollectorRun WITH session <- session_no

ASSUME RunnersAssumption == Pool!SessionAssumption

pool_vars == <<session_no, pc, fault, flows, coll, json, returned>>

RunnersInit == script \in {"poolint_runner", "net_runner"} /\ Pool!Init /\ Init

RunnersNext ==
    \/ script = "poolint_runner" /\ Pool!Next /\ UNCHANGED <<script, vars>>
    \/ script = "net_runner" /\ Next /\ UNCHANGED <<script, pool_vars>>

\* The fairness each module assumes of its own steps.
PoolRunner == script = "poolint_runner" /\ Pool!Runner /\ UNCHANGED <<script, vars>>
NetRunner  == script = "net_runner" /\ Runner /\ UNCHANGED <<script, pool_vars>>
NetSender  == script = "net_runner" /\ SendEnds /\ UNCHANGED <<script, pool_vars>>

RunnersSpec ==
    /\ RunnersInit /\ [][RunnersNext]_<<script, vars, pool_vars>>
    /\ WF_pool_vars(PoolRunner) /\ WF_vars(NetRunner) /\ WF_vars(NetSender)
-----------------------------------------------------------------------------
(* Sessions of poolint_runner: see CollectorRun. *)
ReturnedIsOwn   == Pool!ReturnedIsOwn
TakenUnderFault == Pool!TakenUnderFault

(* No session of either runner lasts for ever, whatever its collectors and  *)
(* starting switches do (poolint_runner.py:168-172, net_runner.py:108-111,  *)
(* p4_switch.py:70).                                                        *)
EverySessionEnds ==
    /\ script = "poolint_runner" => Pool!SessionsEnd
    /\ script = "net_runner" => SessionsEnd
=============================================================================
