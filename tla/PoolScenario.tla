---------------------------- MODULE PoolScenario ----------------------------
(***************************************************************************)
(* One fault-localisation scenario (scripts/poolint_runner.py scen_d and   *)
(* scen_d2_leaf around run_flows_and_capture): the runner injects the      *)
(* ground-truth faults, starts the collector, starts the flows, waits for  *)
(* the collector to stop sniffing and decode, and clears the faults.       *)
(* Packets stay in flight through all of it; the switches never pause.     *)
(* The runner's timeouts and the kill of the collector are not here.       *)
(***************************************************************************)
EXTENDS PoolNet

CONSTANT FlakyTarget  \* bound: the targets whose register_write may fail

VARIABLES
    phase,  \* where the runner and its collector are
    gt,     \* "fail_ports" of the ground-truth file
    missed  \* history: ports whose register_write has failed

svars == <<vars, phase, gt, missed>>

ScenarioInit == Init /\ phase = "inject" /\ gt = {} /\ missed = {}

\* Mutant: a fault may be injected at any time.
InjectAnytime(u) ==
    u \notin gt /\ WriteFault(u, 1) /\ gt' = gt \cup {u} /\ UNCHANGED <<phase, missed>>

\* inject_fail(puid) for one target.
InjectTarget(u) ==
    /\ phase = "inject" /\ u \notin gt
    /\ WriteFault(u, 1)
    /\ gt' = gt \cup {u}
    /\ UNCHANGED <<phase, missed>>

\* simple_switch_CLI fails, which nobody looks at: the target is recorded all the same.
InjectFails(u) ==
    /\ phase = "inject" /\ u \in FlakyTarget \ gt
    /\ gt' = gt \cup {u} /\ missed' = missed \cup {u}
    /\ UNCHANGED <<vars, phase>>

\* The collector is started and sniffs before any flow is.
StartCollector ==
    /\ phase = "inject" /\ phase' = "sniff"
    /\ UNCHANGED <<vars, gt, missed>>

StartFlows ==
    /\ phase = "sniff" /\ phase' = "flows"
    /\ UNCHANGED <<vars, gt, missed>>

\* Hosts send once the flows are started, and may still when the faults are cleared.
HostSend(i, f) ==
    /\ phase \in {"flows", "decode", "clear"}
    /\ SourceIngress(i, f)
    /\ UNCHANGED <<phase, gt, missed>>

\* The switches forward whatever is in flight, in every phase.
Forward(u) == (EgressHop(u) \/ Ingress(u) \/ Lose(u)) /\ UNCHANGED <<phase, gt, missed>>

Advance(s) == Tick(s) /\ UNCHANGED <<phase, gt, missed>>

Sniff(u) ==
    /\ phase \in {"sniff", "flows"}
    /\ Capture(u)
    /\ UNCHANGED <<phase, gt, missed>>

\* sniff() returns: the collector holds its packets and starts to decode.
EndSniff ==
    /\ phase = "flows" /\ phase' = "decode"
    /\ UNCHANGED <<vars, gt, missed>>

\* --drop-frac
Discard(i) ==
    /\ phase = "decode"
    /\ DropReport(i)
    /\ UNCHANGED <<phase, gt, missed>>

CollectorExits ==
    /\ phase = "decode" /\ phase' = "clear"
    /\ UNCHANGED <<vars, gt, missed>>

\* Mutant: the fault is cleared while the collector runs.
ClearAnytime(u) ==
    /\ phase # "inject" /\ u \in gt /\ r_fault[Cell(u)] # 0
    /\ WriteFault(u, 0)
    /\ UNCHANGED <<phase, gt, missed>>

\* clear_fail(puid) for one target; a write that fails leaves everything as it is.
ClearTarget(u) ==
    /\ phase = "clear"
    /\ u \in gt /\ r_fault[Cell(u)] # 0
    /\ WriteFault(u, 0)
    /\ UNCHANGED <<phase, gt, missed>>

ScenarioNext ==
    \/ \E u \in Target : InjectTarget(u)
    \/ \E u \in Target : InjectFails(u)
    \/ StartCollector
    \/ StartFlows
    \/ \E i \in Pid, f \in Flow : HostSend(i, f)
    \/ \E u \in Port : Forward(u)
    \/ \E s \in Source : Advance(s)
    \/ \E u \in Port : Sniff(u)
    \/ EndSniff
    \/ \E i \in Pid : Discard(i)
    \/ CollectorExits
    \/ \E u \in Target : ClearTarget(u)

ScenarioSpec == ScenarioInit /\ [][ScenarioNext]_svars

\* The decode of one epoch's FAIL tests: what DD and COMP name, and the columns.
decode(e) ==
    LET T == Tests(FAIL, e)
    IN  [definite |-> Definite(T), suspects |-> Suspects(T), cols |-> Columns(T)]

-----------------------------------------------------------------------------
(* Properties *)

(* From the last injection to the first clear the flagged registers are     *)
(* those of the ground-truth ports whose write got through, and of no other *)
(* port: the injector's index and the data plane's index of a port agree    *)
(* and no two ports share a register (port_index.py:5-9,                    *)
(* poolint_runner.py:100-117).                                              *)
FaultsAreGroundTruth ==
    phase # "clear" => {u \in Port : r_fault[Cell(u)] = 1} = gt \ missed

\* Of the recorded faults, those a switch reports: the register was written, and a
\* port without a tb_port_idx entry does not look at it.
Visible == (gt \ missed) \cap Installed

(* verify_gate: every FAIL bit of every captured report is what synth_fail  *)
(* computes from its member set and the injected faults, although hops are  *)
(* crossed one at a time while other packets, injections and clears go on   *)
(* (offline_faultsim.py:71-92).                                             *)
GateBitExact == \A e \in 0..(EpochMod - 1) : Consistent(Tests(FAIL, e), Visible)

(* DD never blames a healthy port, in any epoch, for any subset of reports  *)
(* that survives the network and --drop-frac.  A register write that failed *)
(* unnoticed, or a port without an entry, costs a false negative at that    *)
(* port and never a false accusation (poolint_collector.py:92-109, 199-209, *)
(* poolint_runner.py:100-109).                                              *)
DDSound == \A e \in 0..(EpochMod - 1) : decode(e).definite \subseteq Visible

(* COMP never clears a defective port that some test covers                 *)
(* (poolint_collector.py:99-102).                                           *)
CompComplete ==
    \A e \in 0..(EpochMod - 1) :
        Visible \cap decode(e).cols \subseteq decode(e).suspects

\* The abstract view: the tests of all epochs, and the runner's three stages.
AllTests ==
    UNION {{[epoch |-> e, mem |-> t.mem, y |-> t.y] : t \in Tests(FAIL, e)} :
              e \in 0..(EpochMod - 1)}
Stage ==
    CASE phase = "inject"             -> "choose"
      [] phase \in {"sniff", "flows"} -> "observe"
      [] OTHER                        -> "closed"

Abstract == INSTANCE PooledTest WITH truth <- Visible, tests <- AllTests, stage <- Stage

(* The hop-by-hop data plane, seen through the reports, is the atomic       *)
(* pooled test of PooledTest, of the faults the switches can see.           *)
ImplementsPooledTest == Abstract!Spec
=============================================================================
