# PoolINT in TLA+

PoolINT localises faulty switch ports from in-band telemetry. Every packet that
leaves for the collector carries a small syndrome header; each egress port on
its way decides by a hash gate, per (metric, round), whether it is a member of
that packet's pooled test, and if so merges its local value into the header.
The collector never learns who the members were: it replays the packet's route
from the 5-tuple, recomputes the gates, and decodes the group tests (COMP, DD)
to a set of faulty ports. Nearly everything that can go wrong lies between
these parts: the data plane works hop by hop while packets, injections and
losses interleave; the replay has to agree with tables and numbering written
elsewhere; the runner's ground truth has to be what the switches saw; and a
capture process may die, hang or outlive its kill.

This directory models those parts, checks them with TLC and proves some of
their properties with TLAPS. `PROJECT.json` lists the runs, the mutants that
show each property can fail, the source lines behind each definition, the
findings, the hazards and the theorems.

## 1. The system

| Component | Source | State | Operations | Hard part |
|---|---|---|---|---|
| PoolINT data plane | `p4src/poolint/poolint.p4`, `headers.p4`, `parser.p4`, `control/port_index.py` | registers per port: fault flag, test counter, utilisation slots; header of each packet | ingress routing, egress stamp / gate / merge / debug | interleaving of packets and register writes; widths (16-bit id, 8-bit epoch, 8-bit slots); lazy reset |
| Fault-localisation scenario | `scripts/poolint_runner.py` (`scen_d`, `scen_d2_leaf`), `control/offline_faultsim.py` | the injected ports, packets in flight | inject, sniff, send, decode, clear | ordering of injections, sniffing and clears against packets in flight; loss |
| Group-testing decoder | `collector/poolint_collector.py`, `control/m3a_aggregate.py`, `control/m3a_prefix.py` | rows of tests; the prefix sweep | COMP, DD, prefix F1, smallest stable prefix, indistinguishable ports | order independence, monotonicity, grid boundaries |
| ECMP and membership hash | `control/poolint_hash.py` | none | crc16 selection, crc32 gate | both sides must hash the same key |
| Topologies | `topo/fat_tree.py` + `control/fat_tree_cmds.py`, `topo/leaf_spine.py` + `control/gen_commands.py`, `topo/line_topo.py` | numbering, wiring, tables | table generation, `reconstruct_path` | the replay and the tables are written separately |
| M3a runner and capture | `scripts/m3a_runner.py`, `collector/m3a_capture.py` | capture files, picked targets, injected faults | probe, pick, inject, capture, kill, clear | process failure, buffering, stale files, ignored failures |
| M2 runner and collector | `scripts/poolint_runner.py` (`run_flows_and_capture`), `collector/poolint_collector.py` (`main`) | one JSON summary per label | remove, start, wait, kill, read | stale or half-written summaries; exceptions |
| Network sessions, switch lifecycle | `scripts/net_runner.py`, `topo/p4_switch.py` | switch processes, their thrift ports and tables; the netem delay and the queue rate in force; one JSON summary per phase | start and poll, give up, populate, inject, wait, kill, read, take back, stop | slow, dying and left-over processes; a collector that survives its kill; anomalies of one phase in the next |
| Baseline INT | `p4src/baseline_int/`, `collector/int_collector.py` | the record stack and hop counter of a frame; the unsynchronised clocks of the switches | push a record per hop, parse it at the next, deparse, read back, latency of a link | stack limit against a counter that goes on; parser and deparser agree only if both do; clocks differ |
| Dynamic-fault comparison | `control/m3final.py`, `m3c1_loss.py`, `m3b3_dynamic.py`, `m3d2_scaling.py` | per scheme: what the switch last reported, what the collector knows, bytes | replay of a capture's windows under each scheme | stale values after a lost record; refresh against change report; what is paid for |
| Static comparisons | `control/m3b_offline.py`, `m3b1b_study.py`, `m3b2_pareto.py` | the loaded board | byte-to-F1 curves, byte budgets | grids, ties and boundaries; which scheme may be first |
| Seed selection | `control/m3seed.py` | the loaded board | pairs a seed tells apart, greedy choice | greedy against best |
| Scaling probes | `scripts/m3d_*.py`, `control/m3a_diag.py` | none that lasts | sampling, fits | numeric studies |
| CRC calibration | `control/calibrate_*.py` | none | brute force over CRC variants | stale: it calibrates a field the header no longer has |
| Earlier data plane | `poolint_m2.p4`, `headers_m2.p4` | as the data plane | as the data plane | superseded |
| Traffic, demo | `traffic/`, `scripts/run_demo.sh`, ... | none | glue | - |

The parts meet in four places. Runner and switches: a process, its thrift port,
and `table_add` and `register_write` through `simple_switch_CLI`, whose failure is
discarded. Switches and collector: the
frames on the collector host's interface. Runner and collector/capture: a
process, a file and a timeout. Topology, controller, data plane and collector:
the shared numbering `port_uid = (switch_id << 8) | egress_port`.

What makes each correct: a syndrome bit is the OR over exactly the recomputed
members; the replayed route is the crossed one; DD blames no healthy port for
any subset of the reports; more reports never take a verdict back; a run's
reports were all taken under the one ground truth; a session ends, leaves no
process behind, and its result is its own; what is compared was measured in two
networks that differ by the anomaly only; the INT stack is the route, and the
difference of two latency readings is the difference of the link's delays; a
telemetry scheme is wrong only where a record was lost, and its cost stands in
the order the comparison takes for granted; Full-INT is never overtaken, and a
larger budget never loses a fault.

## 2. Modules

| Module | Models | Composes |
|---|---|---|
| `GroupTest` | COMP and DD as set operators over tests `[mem, y]`; `Pooled`, the truth of a test | - |
| `PoolNet` | the data plane: ingress, egress, links, loss, capture, register writes | `GroupTest` |
| `PooledTest` | abstract promise: each report is *one* atomic pooled test of a fixed set of ports | `GroupTest` |
| `PoolScenario` | runner and collector around `PoolNet`; refinement to `PooledTest` | `PoolNet`, `PooledTest` |
| `PrefixDecode` | `m3a_prefix.main` with `comp_dd` as its loops | `GroupTest` |
| `Forwarding` | one packet through any topology's tables | - |
| `FatTree`, `LeafSpine`, `LineTopo` | numbering, wiring, tables, `reconstruct_path` | instantiate `Forwarding` |
| `CaptureRun` | one `m3a_runner` session with its two capture processes | - |
| `CollectorRun` | consecutive `poolint_runner` sessions on one results directory | - |
| `NetRun` | consecutive `net_runner` sessions: switch bring-up, phases, shutdown | - |
| `BaselineInt` | baseline INT frames through a network's switches, and their collector | - |
| `StaticStudies` | the byte curves, budgets and seed choice on a stationary board | `GroupTest` |
| `TelemetryReplay` | every telemetry scheme over one timeline of dynamic faults, with loss | `GroupTest` |
| `MCPool`, `MCPoolScenario`, `MCCapture`, `MCTelemetry` | the instances TLC checks | the module of that name |
| `MCTopo` | one packet in one of three topologies, or INT frames in the leaf-spine | `BaselineInt`; `FatTree`, `LeafSpine`, `LineTopo` |
| `MCPrefix` | one study per behaviour | `PrefixDecode`, `StaticStudies` |
| `MCRunners` | sessions of one runner script per behaviour | `NetRun`, `CollectorRun` |
| `DataProofs`, `PoolNetProofs` | theorems about the decoder and the data plane | `GroupTest`, `PoolNet` |
| `ScenarioProofs` | theorems about the pipeline, and its refinement | `PoolScenario`, both above |
| `TelemetryProofs`, `CaptureProofs` | theorems | `TelemetryReplay`, `CaptureRun` |
| `StudyProofs` | theorems about the prefix study, the static comparisons and the seeds | `MCPrefix`, so `PrefixDecode` and `StaticStudies` |
| `RunnerProofs` | theorems about the sessions of both runners | `MCRunners`, so `NetRun` and `CollectorRun` |
| `TopologyProofs` | theorems about replay, numbering and the INT stack | `MCTopo`, so the topologies and `BaselineInt` |

### PoolNet

| Model | Code |
|---|---|
| `r_fault`, `r_testctr`, `r_util` by `Cell(u)` | the registers of `PoolEgress` at the local index of a port |
| `queue[u]`, `link[u]` | bmv2's egress queue of a port; the veth behind it (both FIFO) |
| `SourceIngress`, `Ingress` | `PoolIngress.apply`; the epoch is the source switch's clock at that moment |
| `EgressHop` | `PoolEgress.apply` as a whole: header, test id, epoch, register reads, utilisation reset, gates, merges, debug fields |
| `Gate` | crc32 under RHO - any predicate of (test id, epoch, port_uid, metric, round) |
| `Capture`, `DropReport`, `Lose` | sniffer, `--drop-frac`, tail drop |
| `WriteFault` | `inject_fail`, `clear_fail`, `_fault_write` |
| `Members`, `TestOf`, `Tests` | `m3a_aggregate.main`: what the collector rebuilds |
| `gate0a`, `gate0b` | `m3a_aggregate.main`: its checks of the debug header against its own hash and replay |

`EgressHop` is one step because bmv2 serves an egress port by one thread and
the register cells belong to the port; steps of different ports, and register
writes, interleave freely. The history field `hist` of a packet (the values
each egress read) is read by no guard. The metrics of a kind are numbered 0, 1
here (FAIL, QHI; QDEPTH, UTIL), and `Gate` gets 2, 3 for the quantitative ones
as in `headers.p4`.

### PoolScenario

The phases are those of `scen_d`: inject, start the collector, start the flows,
stop sniffing, clear. The switches never pause: packets are forwarded and lost
in every phase, and hosts may go on sending after the sniffer has stopped.
`_fault_write` runs `simple_switch_CLI` and looks at neither its output nor its
result, so a write may fail and the target is recorded all the same
(`InjectFails`; `missed` is the history of these ports). `Visible` are the
recorded ports whose write got through and whose switch has a `tb_port_idx`
entry for them: any other port reports itself healthy. `DDSound` is about
`Visible`, so a failed write can hide a fault but accuse nobody. The refinement maps the whole
of it, hop by hop, to `PooledTest`, in which a test is taken atomically.
`decode` is what the aggregation makes of one epoch's tests; `DDSound` and
`CompComplete` are about its answers.

### CaptureRun, CollectorRun

`pc` is the position in `run_scenario` (probe, then run) or
`run_flows_and_capture`. Capture processes open their file late, buffer lines,
flush whole and part lines, close, crash or get killed. A kill goes to the
shell the runner spawned: whether it ends Python as well depends on whether the
shell has exec'ed it (it does in newer dash for a last command, not in others),
so both happen in the model; an orphan goes on. `m3a_runner` kills all iperf
processes after the wait, so nothing is sent to an orphan afterwards;
`poolint_runner` kills only the servers before its network is stopped. In
`CollectorRun` a collector that holds at least one report ends in the exception
of gate #0 (section 6): what the live collector would decode is therefore
studied where the code does decode it, in `m3a_aggregate` and `m3a_prefix`.

### NetRun

| Model | Code |
|---|---|
| `at`, `sw`, `polls` | where `net_runner.main` and `P4Switch.check_switch_started` are |
| `proc`, `stray` | each switch's `simple_switch`; thrift ports a process of an earlier session holds |
| `StartSwitch`, `PollReady`, `PollAgain`, `StartFails` | `P4Switch.start`: `ss` lists the port, another turn, or `exit(1)` |
| `Populate`, `tables` | `populate`: `simple_switch_CLI` writes to whichever process answers |
| `Prepare`, `SkipDelay`, `WaitEnds`, `Read`, `Restored` | `run_capture`, `run_iperf_capture`, and the phases of `main` with `tc`, `set_queue_rate` and what takes them back |
| `env` | netem delay, queue rate, and the link's own `TCLink` shape |
| `sniffer`, `orphans`, `out` | `int_collector` of the phase, those that survived a kill, `<label>.json` |
| `StopSwitch` | `net.stop` in the `finally` clause |

Switch processes serve, or die, at any time; `exit(1)` happens before the `try`
block, so the switches started so far stay behind as strays and hold their
ports in the next session. `InProc` is true for a dead process as well: nobody
has waited for the child, so `/proc/<pid>` is still there.

### BaselineInt

| Model | Code |
|---|---|
| `frame.recs`, `frame.hopCount` | the records between Ethernet and IPv4, and the shim's counter |
| `stack`, `ipv4Valid` | `parser.p4`: extract `hopCount` records, then IPv4 - which is there only if the stack held them all |
| `EgressSpec`, `int_source` | ingress: LPM, ECMP group, `tb_int_source` |
| `Shim`, `push_front`, `int_append_hop` | egress: insert the shim, push a record, count |
| `Hop` | one switch from parser to deparser, and the link behind it |
| `isInt`, `parse_int`, `link_latency` | `int_collector.parse_int` and the link times of `main` |

Time is a number: `clock` is the true one, `off` what each switch's clock is off
by. `q` and `l` are how long a frame is queued and on the wire. `trace` is
history and read by no guard.

### StaticStudies

The board (`pkts`) is loaded packet by packet, as the studies load a capture;
what they compute of it are operators - `full_curve`, `samp_curve`,
`pool_curve`, `to_f1`, `pool_pkts`, `bzero`, `full_reveal_bytes`, `Dset`,
`opt_seeds` - and each property is about every placement of faults and every
board. The hash gate is whatever `Gate` lists, one set of members per candidate
seed. Sampling is the strided one; F1 is compared in integers.

### TelemetryReplay

| Model | Code |
|---|---|
| `compared`, `lossy` | which runs of `run_full`, `run_pint`, `run_delta`, `run_pool` one comparison makes; q > 0 |
| `w`, `tw`, `NextWindow` | the window, `truth_at(sched, w)`, the schedule's flips at a window border |
| `last_rep`, `known`, `refreshed`, `nbytes` | the variables of those names |
| `Records` | what a scheme puts on a packet: everything, a sample, one port, or refresh and changes |
| `RevealReport`, `PoolReport` | the loop body of the reveal schemes, and of `run_pool` |
| `Cut` | `run_pool` of `m3d2_scaling`: rows cut to the monitored ports |
| `est` | the estimate of a window, at any point of it |

The studies run the schemes one after the other over the same schedule, each
with its own random losses; the model replays those of one comparison side by
side, each with losses of its own, so that their costs and knowledge can be
compared packet by packet. `"every"` is the refresh of `m3c1_loss`, `"once"`
that of `m3final`, `"delta"` the loss-free DeltaINT-O of `m3b3_dynamic`, which
compares with what the collector knows instead of what the switch reported.
`m3d2_scaling` replays `"every"` against a PoolINT of its own, `"cut"`, on
random sets of monitored ports (`Monitored` is any set of ports). Costs are
those of `m3final`, which replaces the earlier two. `crossed`,
`declared`, `heard`, `missed` and `reports` are history.

## 3. Runs

| Run | Checks | Bounds, and why they are enough |
|---|---|---|
| `Pool` | `TypeOK`, `InPlace`, `SyndromeIsPool`, `QuantIsCappedSum`, `OneTestPerCount`, `DebugMatchesReplay`, `UtilPerPortEpoch` | two packets, two three-hop flows that share the last two ports; one injectable shared port; the sums of a path pass the cap of 3; two rounds; dbg_path of two ids so that a third hop shifts it; two utilisation slots, four epochs and clocks up to 2, so that a slot is reused. The states kept are those in which the clocks agree to within the slots (`Synced`), which `UtilPerPortEpoch` needs |
| `PoolUtilSkew` (violation) | `UtilPerPortEpoch` without that constraint | three packets: two epochs and a return to the first |
| `Scenario` | `FaultsAreGroundTruth`, `GateBitExact`, `DDSound`, `CompComplete`, `ImplementsPooledTest` | two packets, three injectable ports, one without a table entry and one whose register write may fail (`FlakyTarget`), two epochs, two rounds: up to four tests in the collector, any subset lost |
| `Prefix` | `DecodeIsOrderFree`, `RecoveryIsStable`, `FullIsFirst`, `BudgetIsKept`, `GreedyNearBest` | three ports. Prefix study: every sequence of up to four tests, grid from 1. Static studies: boards of up to three packets on four paths, five gate outcomes over three candidate seeds, of which two are used; every second packet sampled; grid from 1 with the code's growth; budgets 9, 26, 40: one report, two with a rest, one Full-INT record and more |
| `Topo` | `ReplayIsRoute`, `UidIsGlobalLabel`, `StackIsRoute`, `DeltaIsTheLinks`, `Delivered` | the fat-tree with k=4 and the leaf-spine of 2 spines, 4 leaves and 2 hosts each, every pair of hosts and every outcome of the hashes; a line of 60. Baseline INT: three flows over one and three switches, two frames, queues and links of two lengths, clocks in step and apart; a stack of three, so the longest route exactly fills it |
| `Telemetry` | `StaleNeedsLoss`, `DeltaIsFull`, `DeclaredOnce`, `RefreshHeals`, `CostOrder`, `PoolHasNoHistory` | three windows of up to two packets: a refresh window on either side of one without; two monitored ports, one that is only crossed, three paths; every scheme alone with losses, the compared pairs without, one pair with |
| `TelemetryBytes` (violation) | `TransmittedBytes` | as `Telemetry` |
| `LeafSpineReplay` (violation) | `ReplayIsPath` | as `Topo` |
| `Capture` | `ObservedThisSession`, `FileIsPrefix`, `TargetsSpan`, `RunIsStationary`, `GroundTruthHolds`, `SessionEnds` | 0, 1, 2, 3 or 5 faults asked for over four observable ports (fewer and more than there are), a run file left over, two lines per capture, so a flush may fall before, between and inside lines |
| `CaptureStale` (violation) | `ObservedThisSession` with a probe file left over | as `Capture` |
| `Runners` | `ReturnedIsOwn`, `TakenUnderFault`, `SummaryOfPhase`, `NothingLeft`, `ReadyIsServing`, `EverySessionEnds` | `poolint_runner`: two sessions of one label, three reports each. `net_runner`: two sessions of any two of its five scenarios, two switches (one before and one after the one that fails), two polls, at most one orphaned collector |
| `CollectorJson` (violation) | `ResultIsWritten` | as the first of `Runners` |

Constants named `Max...`, `Num...`, `FlakyTarget`, `Windows` and `PerWindow` are bounds; each is
declared with the comment "bound". Deadlock checking is off in all runs: every
system here stops (a session ends, packets arrive, clocks are bounded).
Symmetry permutes packet identities only; no definition distinguishes them and
no run with symmetry checks a liveness property.

What the runs show, in one sentence each:

- *Pool*: however two packets, an injection and losses interleave, the header a
  collector gets is one pooled test over its recomputed members, a port stamps
  one packet per count of its register (so an id comes back only by the wrap of
  the counter, once per wrap), sums are exact below the cap, and the debug header agrees with the replay.
- *Scenario*: the whole pipeline is a sequence of atomic pooled tests; DD is
  sound and COMP complete for any surviving subset, in every epoch, even though
  epochs wrap, a switch lacks a table entry and a register write fails unnoticed:
  these cost a missed fault, never a wrong accusation.
- *Prefix*: the decoder's loops are the set operators whatever the order of
  reports; because DD only grows, the smallest prefix with a good F1 is stable;
  no scheme of the static comparison overtakes Full-INT, budgets are kept and
  larger ones lose nothing, and the greedy seeds are within the bound the study
  quotes.
- *Topo*: tables and replay agree, wherever the hash sends the packet; the
  baseline's stack is the route, and its latency deltas are exact.
- *Telemetry*: a collector is stale only through a loss, refreshes declare what
  they should and no more, and the cost order of the schemes is the one the
  choice of a refresh period takes for granted; PoolINT forgets between windows.
- *Capture*: once a probe of this session has opened its file, the coverage is
  this session's; a run's lines are all taken under one fault set, which is the
  ground truth unless a write failed; no fault is left behind; the session ends.
- *Runners*: a session returns its own summary or none; a phase's summary was
  captured under the phase's anomaly, unless a collector survived its kill; a
  session past its bring-up leaves no switch behind, and every session ends.

## 4. Fairness

Safety properties assume none. `Topo` assumes `WF` of the network: switches
forward what they hold, and there is one packet at a time. `Capture` and
`Runners` assume `WF` of the runner as a whole: it is a sequential program whose
waits (`subprocess.wait(timeout=...)`, a bounded number of polls) return or
raise. `NetRun` also assumes `WF` of `SendEnds`, as `net_runner` waits in the
foreground for `send.py` and `iperf -t`, which stop after a count or a number of
seconds, and its stop waits for a process it has terminated. Nothing is assumed
of capture processes, collectors, starting switches or background iperf clients:
they may do nothing for ever. The wait timeout is an action that may fire at any
time while its wait lasts.

## 5. Proofs

`DataProofs` holds what all the others rest on. The libraries' induction
theorems take an operator, which no installed prover can instantiate; here
induction is stated over a *set* of numbers or of finite sets
(`NatSetInduction`, `SubsetInduction`: a set that contains 0, or {}, and with
every member the next one contains them all), which the provers apply like any
other fact. With it follow that sums over finite sets exist, do not depend on
the order in which `CHOOSE` picks, and add up (`SumIs` to `SumSame`). Then, for
every set of tests over any ports:

- `SuspectsComplete`: COMP keeps every defective column, if all tests are
  pooled tests of the defective set;
- `DefiniteSound`: under the same condition DD names only defective ports;
- `DefiniteMonotone`: tests added to a set never take back what DD named;
- `TwinsNotDefinite`: of two ports that are members of the same tests, neither
  is ever named.

`PoolNetProofs` states for `Spec` of `PoolNet`, for all packets, routes, port
sets, gates and widths that satisfy `ConstAssumption`:

- `TypeCorrect`: `[]TypeOK`;
- `AlwaysInPlace`: `[]InPlace`. Inductive together with `TypeOK`: the steps
  need that a packet at the head of a queue or a link is queued or linked at
  that very port, that a sequence holds it once, and that no other sequence
  holds it - which follows from each member's own `NextPort` or last port;
- `SyndromeAlwaysPool`: `[]SyndromeIsPool`. Inductive relative to `TypeOK` and
  `InPlace`: `EgressHop` appends to `hist` and advances `hop` by one, so the OR
  over the crossed hops gains exactly the disjunct that `Merged` may set. The
  one subtle step is the source hop, where `Stamped` creates the header: there
  the packet has no history, and the fresh test id only changes gates nobody
  has evaluated yet. `InPlace` supplies both (`Len(hist) = hop`).

About the other fields of the header it adds, for the same specification:

- `DebugAlwaysMatches`: `[]DebugMatchesReplay`. With `InPlace` and `TypeOK`,
  what a hop writes into the debug header is decided by `hop` alone
  (`DebugIsRoute`); the proof is by the cases of the shift (header not yet full,
  just full, full). A captured packet has made all hops of its route
  (`Arrived`), so the aggregation's gates, which see no hops, pass.
- `IdsAlwaysCounted`: `[]OneTestPerCount`, by `TidInv`: at every source port
  and for every id, the packets stamped with it are as many as the values of the
  counter that truncate to it. The source hop adds one to both sides for one id
  and leaves the others alone; no other step touches either side.
  `IdsAlwaysDistinct`, `[]TestIdsDistinct`, is its corollary up to the first
  wrap: no two packets of a port share an id;
- `QuantAlwaysCapped`: `[]QuantIsCappedSum`. `SumsOf` is a recursive function of
  the hop, which a hop extends by one term; capping at every hop is then the
  same as capping the sum once, since all terms are non-negative;
- `UtilAlwaysPerEpoch`: `SyncedSpec => []UtilPerPortEpoch`. `UtilInv` says that
  no packet is dated ahead of the clocks (`Dated`), that a live slot is labelled
  with an epoch that belongs there (`Labelled`), and that the newest epoch sent
  at a port of those sharing a slot is the one in it (`Newest`). `SyncedSpec`
  takes the steps from states in which the epochs in use fit the slots, the
  condition `PoolUtilSkew` shows to be needed; `NoWrap` says that the bounded
  clock ends before the 8-bit label comes round, and that there are finitely many
  packets to sum over.

`ConstAssumption` asks only what the code gives: finitely many port ids, none
of them 0 (0 marks an unset debug entry), non-empty routes over them, non-zero
widths. Nothing is assumed of `Gate`.

`ScenarioProofs` states for `ScenarioSpec` of `PoolScenario`, under the same
assumption:

- `GroundTruthInRegisters`, `ReportsBitExact`, `DecoderBlamesFaulty`,
  `DecoderKeepsFaulty`: `FaultsAreGroundTruth`, `GateBitExact`, `DDSound` and
  `CompComplete`. The invariant adds to those of the data plane that up to the
  first clear the flagged registers are the ground truth less the failed writes and
  afterwards nothing is captured any more, and that what a packet has read on
  its way is `Visible` (`TruthRead`). Its steps need that no two ports
  share a register (`CellInjective`): the local index counts the smaller ports
  of a switch, so it is strictly increasing. Soundness and completeness then
  follow from `DataProofs`.
- `RefinesPooledTest`: `ScenarioSpec => ImplementsPooledTest`. A capture maps to
  one abstract test, every other step to a stutter or to a change of phase.

`TelemetryProofs` states for `Spec` of `TelemetryReplay`, for all comparisons,
periods, paths, costs, timelines and losses:

- `StaleOnlyByLoss`, `AlwaysDeclaredOnce`, `RefreshAlwaysHeals`,
  `CostIsOrdered`, `DeltaEqualsFull`: the properties of the run of those names.
  They share one inductive invariant `Inv`. `Links` ties the three views of a
  port: a port crossed in this window was last reported at its present value,
  and the collector knows that value unless the record was lost. `Counts` says
  that the ports a refresh window has crossed are those it has declared.
  `Agree` says that what was last reported is the same under all schemes that
  report every change, loss or no loss - this is why a loss never changes the
  order of costs. From these, every record set of a scheme includes that of the
  schemes it covers (`CoversRecords`), where a longer period must be a multiple
  of the shorter (`RefreshNested`).
- `PoolNeverStale`: the tests of a window are pooled tests of its faults, and
  stay so when they are cut to the monitored ports, so `DefiniteSound` applies.
- `CuttingKeepsNames`: `m3d2_scaling` cuts the rows to the monitored ports and
  then decodes, `m3c1_loss` decodes and then cuts. What the second way names the
  first names too: since only monitored ports fail, a cut row keeps its bit, so
  suspects are cut with the rows (`CutTest`) and a row with one suspect still
  has it. So PoolINT's recall in the
  scaling study is, if anything, above that of the loss study.

`ReplayAssumption` asks for finitely many ports and natural costs.

`CaptureProofs` states for `Spec` of `CaptureRun`, for all flows, routes and
numbers of faults:

- `RunAlwaysStationary`, `GroundTruthAlwaysHolds`: by `CInv`. Nothing of the run
  exists before its capture is started, which is after the last injection
  (`Before`); during the loop over the targets the registers hold exactly those
  given so far, or a write was missed (`Faults`); no flow is on once the clearing
  has begun (`Stages`), so an orphaned capture records nothing then.
- `FileAlwaysPrefix`: by `Disk`: file and buffer together are what the capture
  has recorded, and a torn line has its rest in the buffer unless the writer
  was killed.
- `AlwaysObserved`: `ObservedThisSession`, if no probe file is left over: the
  hypothesis `CaptureStale` shows to be needed.
- `TargetsAlwaysSpan`: `TargetsSpan`. A sort puts each element behind as many as
  the order has before it; by counting, every rank is taken once (`InOrderSorts`).
  Python's rounding spreads d indices over n ports without repeating one if
  d <= n, and without leaving one out if d >= n (`RoundApart`, `SpreadIs`), always
  from the first port to the last.

`RunnerProofs` states for `RunnersSpec` of `MCRunners`, for any number of
sessions and reports of `poolint_runner`, by `SessionInv`:

- `SummaryIsOwn`: `ReturnedIsOwn`. As long as no collector has survived its
  kill, only the session's own collector runs (`OneAtATime`), and the file of the
  label, removed before it starts, is whole only once that collector has closed
  it (`OwnSummary`);
- `ReportsAreUnderFault`: `TakenUnderFault`. The registers are set from the
  injection to the clear, and the collector has ended before it (`Faulty`).

For `Spec` of `NetRun`, for any number of switches, polls and sessions, by
`NInv`:

- `NothingIsLeft`, `ReadyHasServed`: `NothingLeft`, `ReadyIsServing` (`Switches`:
  what has been started has been served unless a stray answers for it, what has
  been stopped is gone);
- `SummaryIsOfPhase`: `SummaryOfPhase` (`Phase`: the network is that of the
  phase and the phase's collector has seen no other; `Files`: so have the
  summaries on disk).

`TopologyProofs` states for `NetSpec` of `MCTopo`, for every topology, any pair
of hosts and every outcome of the hashes:

- `ReplayIsAlwaysRoute`: `ReplayIsRoute`. The invariant of each topology
  (`FatInv`, `LeafInv`, `LineInv`) says that the switches and ports crossed so far
  are the beginning of the route the replay computes, and where on that route the
  packet is; each step then needs the arithmetic of the numbering - which pod,
  which tier, which port a `div` or `%` names - from the table's side and from the
  replay's. A fat-tree is limited to 22 pods: from 24 on a switch id no longer
  fits a debug entry of eight bits (`K <= 22`);
- `UidIsAlwaysGlobal`: `UidIsGlobalLabel`, for fat-trees of up to four pods: with
  six the edge switches' ids reach those of the aggregation switches.

For `Spec` of `BaselineInt`:

- `StackIsAlwaysRoute`: `StackIsRoute`, and `DeltaIsAlwaysTheLinks`:
  `DeltaIsTheLinks`. `BInv` says that the records are those of the hops made
  (`Current`, `Kept`), that the hops made and the hops left are at most
  `INT_MAX_HOPS` (`Bounded`), and that the frames of a flow take one route
  (`OneRoute`). The newest time stamp is tied to the true time (`OnTime`), which
  makes the clock offsets cancel in a difference.

`NetworkAssumption` is what these two need and the code does not check: hosts
hang on ports `tb_int_source` lists, and the tables bring every frame home over
at most `INT_MAX_HOPS` switches, as a number of switches left that falls with
every hop. TLC evaluates it on the leaf-spine in `Topo`.

Both are instantiated in `MCTopo` by the leaf-spine, whose constants the baseline
shares (`BaselineIsLeafSpine`).

`StudyProofs` is about loops: `comp_dd`, the two prefix grids, the byte sums and
the greedy choice. A fold of the library and a recursive function are each
`CHOOSE g : g = [... g ...]`, of which nothing follows before such a `g` is known to
exist. `FoldExists` and `RecExists` build one layer by layer, with the step given
as a *function* instead of an operator, so that the provers can use them;
`NatSetInduction` then shows what the loop computes. On this rest

- for `Spec` of `PrefixDecode`, `DecodeAlwaysOrderFree`: `DecodeIsOrderFree`. The
  loops over the list of tests compute COMP and DD of the set of tests
  (`ColsIsColumns`, `SuspectsIsSuspects`, `DefiniteIsDefinite`), and
  `TwinsNotDefinite` does the rest;
- `RecoveryAlwaysStable`: `RecoveryIsStable`. `PInv` says that what was decoded is
  the decode of its prefix (`Swept`) and that `first_m` is the first length that
  names a fault (`FirstNamed`); the grid rises to the number of tests
  (`GridRises`), so by `DefiniteMonotone` later prefixes name at least as much, and
  F1 does not fall while what is named stays within the truth (`ReachedGrows`);

and for `StudySpec` of `MCPrefix`, on every board (`SInv`: what a gate makes a member
is on the packet's path) and for all constants of `StaticAssumption`:

- `FullAlwaysFirst`: `FullIsFirst`. Every curve climbs within the placed faults
  (`CurvesClimb`), so its first good point is the stable one; Full-INT's ends at
  all of them and is above the others at every point (`NotAhead`);
- `BudgetAlwaysKept`: `BudgetIsKept`, from the sums of `DataProofs` for the bytes
  (`BytesAreSum`) and the division for the packets a budget pays for (`PaidFor`);
- `GreedyAlwaysNearBest`: `GreedyNearBest`. Each turn takes at least one R-th of
  what the best seeds still have over the choice (`TurnGains`), because R seeds
  together add at most R times what the best single one adds (`TogetherAdd`);
  multiplied up over R turns (`StillMissing`) that is the bound.

`StaticAssumption` asks for finite paths, natural sizes, at least one seed and no
more than there are, and a grid that starts above 0 and grows. Nothing is assumed
of `Gate`, of how many packets share a path or of the placement.

Only model-checked: `ReplayIsPath` (false of the leaf-spine) and all liveness:
fairness and `ENABLED` are out of the provers' reach.

## 6. Where code and documentation differ

Five runs are expected to find a violation. Each property is a sentence of the
repository.

- `CollectorJson`: `poolint_collector.main` reads `p["dbg_spine"]`, which
  `parse_pool` no longer returns, so with any report in hand it raises before
  the summary "everything quantitative is written to" exists.
- `CaptureStale`: `observed_coverage` reads `_probe.jsonl` if it exists; a probe
  that dies before it opens the file leaves the one of an earlier session, not
  coverage of "this session".
- `LeafSpineReplay`: the leaf-spine replay leaves the switch id out of the ECMP
  key that the data plane hashes.
- `PoolUtilSkew`: the "per-(port,epoch) byte accumulator" loses bytes when two
  epochs that share a slot alternate at a port.
- `TelemetryBytes`: `run_pool` counts only the packets that survive, so the
  "cumulative TRANSMITTED bytes" of PoolINT shrink with the loss rate while
  those of the other schemes do not. The claim is that of `m3c1_loss.py:24` and
  of `m3final.py:22`; `m3d2_scaling.py` counts the same way but says so.

Seen without a run:

- with k=6, which `m3a_runner.py --k` offers, the switch ids of the tiers overlap
  and a "16-bit GLOBAL LABEL" names two ports;
- the docstring of `m3c1_loss` draws one loss per report packet where `run_delta`
  draws one per record;
- a comment of `headers.p4` (line 114) gives a former size of the debug header,
  and the CRC calibration tools target fields that are gone;
- `p4_switch.py:69-72` polls "until the thrift port is listening (or the proc
  dies)", but `/proc/<pid>` of a dead child stays until it is waited for, so a
  dead switch is polled to the end;
- a process left by a failed bring-up holds its thrift port: the next session
  takes its switch for ready and populates the stray;
- `tc qdisc replace ... root netem` removes the link's own bandwidth and delay,
  so the "after" of a delay phase differs by more than the 50ms announced
  (`net_runner.py:172`), and taking it back restores neither; the queue rate is
  put back to 100000, not to unlimited;
- when the delay phase is skipped the `delay_after.json` of an earlier session
  stays in the results directory (the runner does not read it);
- `m3b2_pareto` leaves the revealing packet out of Full-INT's bytes, which
  `m3b1b_study` counts: under a fixed budget Full-INT is ahead by one packet.

## 7. Not modelled

- The real CRC polynomials: membership and ECMP results are arbitrary functions
  of the fields the code hashes. The calibration tools that chose the variants
  are brute force over them.
- NNLS and the printed statistics of the decoder; payloads and checksums; the
  averages `int_collector` prints per flow and hop; the queue-rate scenario
  `scen_quant` of `poolint_runner`, which prints the live collector's
  quantitative estimates - a real-valued least squares.
- Random sampling, coherence and its tiers, and every mean over sampled
  placements in the static comparisons, `m3seed`, `m3final` and `m3d2_scaling`; detection
  latency; the choice of a refresh period from averages. They are estimates,
  not properties of a step.
- `scripts/m3d_*.py` and `m3a_diag.py`: one-off captures and their printed
  analysis.
- Mininet itself, and bmv2's internal queues beyond FIFO order and loss.
- `poolint_m2.p4` and `headers_m2.p4`, superseded by the data plane modelled here;
  `traffic/` and the demo scripts, which hold no state of their own.

## 8. What could follow

The order of the work was: the data plane, the scenario and their abstract
specification, because all else rests on them; the replay; the two process
models of the PoolINT runners; the telemetry replay; then `net_runner`, the
baseline and the static studies, and the proofs of section 5.

