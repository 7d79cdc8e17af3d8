----------------------------- MODULE CaptureRun -----------------------------
(***************************************************************************)
(* One session of scripts/m3a_runner.py with the capture processes it      *)
(* spawns (collector/m3a_capture.py).  The runner probes the fabric, reads *)
(* the probe's file, picks targets among the ports it observed, injects    *)
(* the faults, captures the run and clears the faults.  A capture process  *)
(* starts some time after it is spawned, truncates its file when it opens  *)
(* it, and buffers the lines it writes, so what is on disk ends where the  *)
(* last flush did, possibly in the middle of a line.  When the runner's    *)
(* wait times out it kills the shell it spawned: the kill reaches Python   *)
(* only when the shell has replaced itself by it.                          *)
(*                                                                         *)
(* A packet crosses the fabric much faster than a simple_switch_CLI call   *)
(* starts: a packet sent and sniffed is one step.                          *)
(***************************************************************************)
EXTENDS Integers, Sequences, FiniteSets, SequencesExt, FiniteSetsExt

CONSTANTS
    Flow,           \* the flows of flow_set
    Route,          \* Route[f]: the set of port_uids reconstruct_path gives f
    D,              \* numbers of faults the scenarios ask for
    Leftover,       \* captures whose file an earlier session left in raw_dir
    MaxLines        \* bound: lines a capture records

ASSUME RunAssumption ==
    /\ Flow # {} /\ D \subseteq Nat /\ MaxLines \in Nat
    /\ Leftover \subseteq {"probe", "run"}
    /\ \A f \in Flow : IsFiniteSet(Route[f]) /\ Route[f] \subseteq Nat

VARIABLES
    pc,         \* where run_scenario is
    phase,      \* "probe": in observed_coverage; "run": after it
    d,          \* the scenario's number of faults
    cap,        \* each capture process: its state and its unwritten lines
    file,       \* _probe.jsonl and <label>.jsonl on disk
    rec,        \* history: the lines each capture has recorded
    flows,      \* iperf clients are sending
    fault,      \* ports whose r_fault cell is 1
    seen,       \* the probe's lines as the runner read them
    targets,    \* the ports it picked
    next,       \* index of the next target to write
    missed      \* history: a register write has failed

vars == <<pc, phase, d, cap, file, rec, flows, fault, seen, targets, next, missed>>

Phase == {"probe", "run"}
Line  == [new : BOOLEAN, flow : Flow, faults : SUBSET UNION {Route[f] : f \in Flow}]
Old   == [new |-> FALSE, flow |-> CHOOSE f \in Flow : TRUE, faults |-> {}]

-----------------------------------------------------------------------------
(* pick_targets *)

Count(lines, u) == Cardinality({i \in DOMAIN lines : u \in Route[lines[i].flow]})
Observed(lines) == UNION {Route[lines[i].flow] : i \in DOMAIN lines}

\* sorted(S): each element behind those that less puts before it.
InOrder(S, less) ==
    [k \in 1..Cardinality(S) |->
        CHOOSE x \in S : Cardinality({y \in S : <<y, x>> \in less}) = k - 1]
Ascending(S) == InOrder(S, {x \in S \X S : x[1] < x[2]})

\* sorted(cov, key=(cov[u], u))
Fewer(lines) ==
    LET cov == [u \in Observed(lines) |-> Count(lines, u)]
    IN  {x \in (DOMAIN cov) \X (DOMAIN cov) :
            cov[x[1]] < cov[x[2]] \/ (cov[x[1]] = cov[x[2]] /\ x[1] < x[2])}
ByCoverage(lines) == InOrder(Observed(lines), Fewer(lines))

\* Python's round(a / b): to the nearest, a tie to the even neighbour.
Round(a, b) ==
    LET q == a \div b
    IN  IF 2 * (a % b) < b \/ (2 * (a % b) = b /\ q % 2 = 0) THEN q ELSE q + 1

\* Mutant: one evenly spaced port short of the end.
pick_short(lines, n) ==
    LET order == ByCoverage(lines)
        idxs  == {Round(i * (Len(order) - 1), n) : i \in 0..(n - 1)}
    IN  [k \in 1..Cardinality(idxs) |-> order[1 + Ascending(idxs)[k]]]
pick_targets(lines, n) ==
    LET order == ByCoverage(lines)
        idxs  == IF n = 1 THEN {0}
                 ELSE {Round(i * (Len(order) - 1), n - 1) : i \in 0..(n - 1)}
    IN  [k \in 1..Cardinality(idxs) |-> order[1 + Ascending(idxs)[k]]]

-----------------------------------------------------------------------------
Init ==
    /\ pc = "start" /\ phase = "probe" /\ d \in D
    /\ cap = [p \in Phase |-> [st |-> "none", buf |-> <<>>]]
    /\ file = [p \in Phase |-> [exists |-> p \in Leftover, torn |-> FALSE,
                                lines |-> IF p \in Leftover THEN <<Old>> ELSE <<>>]]
    /\ rec = [p \in Phase |-> <<>>]
    /\ flows = FALSE /\ fault = {} /\ seen = <<>> /\ targets = <<>> /\ next = 1
    /\ missed = FALSE

runner  == <<pc, phase, d, seen, targets, next, missed>>
capture == <<cap, file, rec>>

(* The runner *)

StartCapture ==
    /\ pc = "start"
    /\ cap' = [cap EXCEPT ![phase].st = "starting"]
    /\ pc' = "flows"
    /\ UNCHANGED <<phase, d, file, rec, flows, fault, seen, targets, next, missed>>

LaunchFlows ==
    /\ pc = "flows"
    /\ flows' = TRUE
    /\ pc' = "wait"
    /\ UNCHANGED <<phase, d, capture, fault, seen, targets, next, missed>>

Ended(p) == cap[p].st \in {"closed", "crashed", "killed"}

WaitReturns ==
    /\ pc = "wait" /\ Ended(phase)
    /\ pc' = "pkill"
    /\ UNCHANGED <<phase, d, capture, flows, fault, seen, targets, next, missed>>

\* Mutant: the wait has no timeout once the capture has opened its file.
TimeoutOpenOnly ==
    /\ pc = "wait" /\ cap[phase].st = "starting"
    /\ pc' = "pkill"
    /\ cap' = [cap EXCEPT ![phase] = [st |-> "killed", buf |-> <<>>]]
    /\ UNCHANGED <<phase, d, file, rec, flows, fault, seen, targets, next, missed>>

\* subprocess.TimeoutExpired: kill ends Python, or only its shell.
WaitTimeout ==
    /\ pc = "wait" /\ ~ Ended(phase)
    /\ pc' = "pkill"
    /\ \/ cap' = [cap EXCEPT ![phase] = [st |-> "killed", buf |-> <<>>]]
       \/ UNCHANGED cap
    /\ UNCHANGED <<phase, d, file, rec, flows, fault, seen, targets, next, missed>>

Pkill ==
    /\ pc = "pkill"
    /\ flows' = FALSE
    /\ pc' = IF phase = "probe" THEN "read" ELSE "clear"
    /\ next' = 1
    /\ UNCHANGED <<phase, d, capture, fault, seen, targets, missed>>

\* Mutant: the run's file is read, not the probe's.
ReadWrongFile ==
    /\ pc = "read"
    /\ pc' = "pick" /\ phase' = "run" /\ seen' = file["run"].lines
    /\ UNCHANGED <<d, capture, flows, fault, targets, next, missed>>

\* A line cut short is no JSON: the exception ends the session.
ReadProbe ==
    /\ pc = "read"
    /\ IF file["probe"].torn
       THEN pc' = "error" /\ UNCHANGED <<phase, seen>>
       ELSE pc' = "pick" /\ phase' = "run" /\ seen' = file["probe"].lines
    /\ UNCHANGED <<d, capture, flows, fault, targets, next, missed>>

\* pick_targets fails on an empty coverage (order[0]); gate0 (d = 0) skips it.
PickTargets ==
    /\ pc = "pick"
    /\ IF d > 0 /\ Observed(seen) = {}
       THEN pc' = "error" /\ UNCHANGED targets
       ELSE pc' = "inject" /\ targets' = IF d = 0 THEN <<>> ELSE pick_targets(seen, d)
    /\ UNCHANGED <<phase, d, capture, flows, fault, seen, next, missed>>

\* inject_fault: a register_write that fails goes unnoticed.
Written(f) == {f, fault}

\* Mutant: the run's flows start before the faults are written.
InjectLate ==
    /\ pc = "inject"
    /\ IF next > Len(targets)
       THEN pc' = "start" /\ UNCHANGED <<fault, missed, next, flows>>
       ELSE /\ fault' \in Written(fault \cup {targets[next]})
            /\ missed' = (missed \/ fault' # fault \cup {targets[next]})
            /\ next' = next + 1
            /\ flows' = TRUE
            /\ cap' = [cap EXCEPT !["run"].st = IF @ = "none" THEN "starting" ELSE @]
            /\ UNCHANGED pc
    /\ next > Len(targets) => UNCHANGED cap
    /\ UNCHANGED <<phase, d, file, rec, seen, targets>>

Inject ==
    /\ pc = "inject"
    /\ IF next > Len(targets)
       THEN pc' = "start" /\ UNCHANGED <<fault, missed, next>>
       ELSE /\ fault' \in Written(fault \cup {targets[next]})
            /\ missed' = (missed \/ fault' # fault \cup {targets[next]})
            /\ next' = next + 1
            /\ UNCHANGED pc
    /\ UNCHANGED <<phase, d, capture, flows, seen, targets>>

\* Mutant: the loop stops one target early.
ClearButLast ==
    /\ pc = "clear"
    /\ IF next >= Len(targets)
       THEN pc' = "done" /\ UNCHANGED <<fault, missed, next>>
       ELSE /\ fault' \in Written(fault \ {targets[next]})
            /\ missed' = (missed \/ fault' # fault \ {targets[next]})
            /\ next' = next + 1
            /\ UNCHANGED pc
    /\ UNCHANGED <<phase, d, capture, flows, seen, targets>>

Clear ==
    /\ pc = "clear"
    /\ IF next > Len(targets)
       THEN pc' = "done" /\ UNCHANGED <<fault, missed, next>>
       ELSE /\ fault' \in Written(fault \ {targets[next]})
            /\ missed' = (missed \/ fault' # fault \ {targets[next]})
            /\ next' = next + 1
            /\ UNCHANGED pc
    /\ UNCHANGED <<phase, d, capture, flows, seen, targets>>

(* The capture process p *)

\* Mutant: the file is opened for appending.
OpenAppend(p) ==
    /\ cap[p].st = "starting"
    /\ cap' = [cap EXCEPT ![p].st = "sniffing"]
    /\ file' = [file EXCEPT ![p].exists = TRUE]
    /\ UNCHANGED <<runner, rec, flows, fault>>

Open(p) ==
    /\ cap[p].st = "starting"
    /\ cap' = [cap EXCEPT ![p].st = "sniffing"]
    /\ file' = [file EXCEPT ![p] = [exists |-> TRUE, torn |-> FALSE, lines |-> <<>>]]
    /\ UNCHANGED <<runner, rec, flows, fault>>

\* It ends before open(): no interface, a failed import, no memory.
Crash(p) ==
    /\ cap[p].st = "starting"
    /\ cap' = [cap EXCEPT ![p].st = "crashed"]
    /\ UNCHANGED <<runner, file, rec, flows, fault>>

Sniff(p, f) ==
    LET l == [new |-> TRUE, flow |-> f, faults |-> fault]
    IN  /\ cap[p].st = "sniffing" /\ flows /\ Len(rec[p]) < MaxLines
        /\ cap' = [cap EXCEPT ![p].buf = Append(@, l)]
        /\ rec' = [rec EXCEPT ![p] = Append(@, l)]
        /\ UNCHANGED <<runner, file, flows, fault>>

\* The buffer is full: n lines and perhaps a part of the next go to disk.
Flush(p) ==
    LET b == cap[p].buf
    IN  /\ cap[p].st = "sniffing"
        /\ \E n \in 0..Len(b), t \in BOOLEAN :
              /\ t => n < Len(b)
              /\ n > 0 \/ t
              /\ cap' = [cap EXCEPT ![p].buf = SubSeq(b, n + 1, Len(b))]
              /\ file' = [file EXCEPT ![p].lines = @ \o SubSeq(b, 1, n), ![p].torn = t]
        /\ UNCHANGED <<runner, rec, flows, fault>>

\* sniff() returns after its own timeout and the file is closed.
Close(p) ==
    /\ cap[p].st = "sniffing"
    /\ cap' = [cap EXCEPT ![p] = [st |-> "closed", buf |-> <<>>]]
    /\ file' = [file EXCEPT ![p].lines = @ \o cap[p].buf, ![p].torn = FALSE]
    /\ UNCHANGED <<runner, rec, flows, fault>>

\* iperf -t: the clients stop by themselves.
FlowsEnd ==
    /\ flows /\ flows' = FALSE
    /\ UNCHANGED <<runner, capture, fault>>

Runner ==
    \/ StartCapture \/ LaunchFlows \/ WaitReturns \/ WaitTimeout \/ Pkill
    \/ ReadProbe \/ PickTargets \/ Inject \/ Clear
Capture(p) ==
    Open(p) \/ Crash(p) \/ (\E f \in Flow : Sniff(p, f)) \/ Flush(p) \/ Close(p)

Next == Runner \/ (\E p \in Phase : Capture(p)) \/ FlowsEnd

\* The runner keeps running; nothing is assumed of the captures and the flows.
Spec     == Init /\ [][Next]_vars
LiveSpec == Spec /\ WF_vars(Runner)
-----------------------------------------------------------------------------
(* Properties *)

(* Every line the coverage is counted from was sniffed by this session's    *)
(* probe, before any fault: "every port in it provably carries real         *)
(* collector-bound traffic this session" (m3a_runner.py:127-129).           *)
ObservedThisSession ==
    \A i \in DOMAIN seen : seen[i].new /\ seen[i].faults = {}

(* Once a capture has opened its file, the file is a prefix of what it      *)
(* recorded, and all of it when the capture closed it: no line of an        *)
(* earlier session in front and no hole; a line is cut short only while the *)
(* rest of it is buffered or its writer has been killed                     *)
(* (m3a_capture.py:37-54 against m3a_runner.py:144-147, 218-221).           *)
FileIsPrefix ==
    \A p \in Phase :
        /\ cap[p].st \in {"sniffing", "closed"} \/ rec[p] # <<>> =>
              IsPrefix(file[p].lines, rec[p])
        /\ cap[p].st = "closed" => file[p].lines = rec[p] /\ ~ file[p].torn
        /\ file[p].torn => cap[p].buf # <<>> \/ cap[p].st = "killed"

(* The targets are distinct observed ports, as many as asked for or as      *)
(* there are, and reach from the least to the most covered port             *)
(* ("always include the min-coverage port", m3a_runner.py:112-121).         *)
TargetsSpan ==
    targets # <<>> =>
        LET order == ByCoverage(seen)
        IN  /\ IsInjective(targets) /\ ToSet(targets) \subseteq Observed(seen)
            /\ Len(targets) = Min({d, Cardinality(Observed(seen))})
            /\ targets[1] = order[1]
            /\ d > 1 => Last(targets) = Last(order)

(* The run's reports were all taken under one fault set, made of targets    *)
(* only, although the capture may outlive its wait and writes may fail: no  *)
(* line of the run predates the last injection or follows the first clear   *)
(* ("faults injected before flows, constant all run", m3a_prefix.py).       *)
RunIsStationary ==
    \A i, j \in DOMAIN rec["run"] :
        /\ rec["run"][i].faults = rec["run"][j].faults
        /\ rec["run"][i].faults \subseteq ToSet(targets)

(* Unless a write failed, that fault set is the ground truth of <label>_gt,    *)
(* and no session leaves a fault behind, however its captures ended.        *)
GroundTruthHolds ==
    ~ missed =>
        /\ \A i \in DOMAIN rec["run"] : rec["run"][i].faults = ToSet(targets)
        /\ pc \in {"done", "error"} => fault = {}

(* The session ends, whatever the capture processes do.                     *)
SessionEnds == <>(pc \in {"done", "error"})
=============================================================================
