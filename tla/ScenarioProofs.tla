--------------------------- MODULE ScenarioProofs ---------------------------
(***************************************************************************)
(* What the runner, the collector and the data plane achieve together, for *)
(* every network, gate, traffic and choice of faults: the reports are      *)
(* pooled tests of the ground truth, and the decoder is sound on them.     *)
(***************************************************************************)
EXTENDS PoolScenario, PoolNetProofs

-----------------------------------------------------------------------------
(* The invariant *)

Phase == {"inject", "sniff", "flows", "decode", "clear"}

\* The packet's reads so far are the ground truth the switches can see.
TruthRead(i) ==
    \A k \in 1..pkt[i].hop : pkt[i].hist[k].bool[FAIL] = 1 <=> Path(i)[k] \in Visible

Registers ==
    phase # "clear" => \A u \in Port : r_fault[Cell(u)] = 1 <=> u \in gt \ missed

Reports ==
    /\ phase \in {"inject", "sniff"} => \A i \in Pid : pkt[i].st = "unsent"
    /\ phase # "clear" => \A i \in Pid : TruthRead(i)
    /\ \A i \in Captured : TruthRead(i) /\ pkt[i].hop = Len(Path(i))

ScenarioType == phase \in Phase /\ gt \subseteq Target /\ missed \subseteq gt

Net == TypeOK /\ InPlace /\ SyndromeIsPool

SInv == Net /\ ScenarioType /\ Registers /\ Reports

\* Every step of the scenario is a step of the network, or leaves it as it is.
LEMMA StepOfNet == [ScenarioNext]_svars => [Next]_vars
<1> SUFFICES ASSUME [ScenarioNext]_svars PROVE [Next]_vars
    OBVIOUS
<1>1. ASSUME NEW u \in Target, InjectTarget(u) \/ ClearTarget(u) PROVE Next
    <2>1. \E v \in 0..1 : WriteFault(u, v)
        BY <1>1 DEF InjectTarget, ClearTarget
    <2> QED BY <2>1 DEF Next
<1>2. CASE StartCollector \/ StartFlows \/ EndSniff \/ CollectorExits \/ UNCHANGED svars
    BY <1>2 DEF StartCollector, StartFlows, EndSniff, CollectorExits, svars
<1>7. ASSUME NEW u \in Target, InjectFails(u) PROVE UNCHANGED vars
    BY <1>7 DEF InjectFails
<1>3. ASSUME NEW i \in Pid, NEW f \in Flow, HostSend(i, f) PROVE Next
    BY <1>3 DEF HostSend, Next
<1>4. ASSUME NEW u \in Port, Forward(u) \/ Sniff(u) PROVE Next
    BY <1>4 DEF Forward, Sniff, Next
<1>5. ASSUME NEW s \in Source, Advance(s) PROVE Next
    BY <1>5 DEF Advance, Next
<1>6. ASSUME NEW i \in Pid, Discard(i) PROVE Next
    BY <1>6 DEF Discard, Next
<1> QED BY <1>1, <1>2, <1>3, <1>4, <1>5, <1>6, <1>7 DEF ScenarioNext

LEMMA NetKept == Net /\ [ScenarioNext]_svars => Net'
  BY StepOfNet, NextTypeOK, NextInPlace, NextSyndrome DEF Net

\* As long as nothing has been sent, nothing is queued or on a link.
LEMMA NothingInFlight ==
    ASSUME TypeOK, InPlace, \A i \in Pid : pkt[i].st = "unsent", NEW u \in Port
    PROVE  queue[u] = <<>> /\ link[u] = <<>>
  BY InPids DEF InPlace, Queued, OnLink

LEMMA UnsentReadsTruth ==
    ASSUME InPlace, NEW i \in Pid, pkt[i].st = "unsent"
    PROVE  TruthRead(i)
  BY DEF TruthRead, InPlace, Progress

\* A packet whose header stays as it is keeps what it has read.
LEMMA TruthKept ==
    ASSUME NEW i, TruthRead(i), gt' = gt, missed' = missed,
           pkt'[i].hop = pkt[i].hop, pkt'[i].flow = pkt[i].flow, pkt'[i].hist = pkt[i].hist
    PROVE  TruthRead(i)'
  BY DEF TruthRead, Path, Visible


\* One more hop, outside "clear", reads what the ground truth says.
LEMMA HopReadsTruth ==
    ASSUME SInv, phase # "clear", gt' = gt, missed' = missed, NEW u \in Port, EgressHop(u), NEW j \in Pid
    PROVE  TruthRead(j)'
<1>1. PICK i : i = Head(queue[u])
    OBVIOUS
<1>2. /\ i \in Pid /\ Queued(i, u) /\ pkt[i] \in PacketType
      /\ \A k \in Pid : k # i => pkt'[k] = pkt[k]
      /\ \E v \in LocalType :
            /\ pkt'[i] = Merged(Stamped(pkt[i], u), u, v)
            /\ v.bool[FAIL] = IF u \in Installed THEN r_fault[Cell(u)] ELSE 0
    BY <1>1, EgressFacts DEF SInv, Net
<1>3. PICK v \in LocalType : /\ pkt'[i] = Merged(Stamped(pkt[i], u), u, v)
                            /\ v.bool[FAIL] = IF u \in Installed THEN r_fault[Cell(u)] ELSE 0
    BY <1>2
<1>4. TruthRead(j)
    BY DEF SInv, Reports
<1>5. CASE j # i
    BY <1>2, <1>4, <1>5, TruthKept
<1>6. CASE j = i
    <2>1. /\ pkt'[i].hop = pkt[i].hop + 1 /\ Path(i)' = Path(i)
          /\ pkt'[i].hist = Append(pkt[i].hist, v)
        BY <1>2, <1>3, EgressPacket DEF SInv, Net
    <2>2. /\ pkt[i].hop \in Nat /\ pkt[i].hist \in Seq(LocalType) /\ Len(pkt[i].hist) = pkt[i].hop
          /\ Path(i)[pkt[i].hop + 1] = u
        BY <1>2 DEF PacketType, SInv, Net, InPlace, Progress, Queued, NextPort
    <2>3. /\ \A k \in 1..pkt[i].hop : pkt'[i].hist[k] = pkt[i].hist[k]
          /\ pkt'[i].hist[pkt[i].hop + 1] = v
        BY <2>1, <2>2
    <2>4. v.bool[FAIL] = 1 <=> u \in Visible
        BY <1>3 DEF SInv, Registers, Visible
    <2>5. 1..(pkt[i].hop + 1) = 1..pkt[i].hop \cup {pkt[i].hop + 1}
        BY <2>2
    <2>6. \A k \in 1..(pkt[i].hop + 1) :
             pkt'[i].hist[k].bool[FAIL] = 1 <=> Path(i)[k] \in Visible
        BY <1>4, <1>6, <2>2, <2>3, <2>4, <2>5 DEF TruthRead
    <2>7. Visible' = Visible
        BY DEF Visible
    <2> QED BY <1>6, <2>1, <2>6, <2>7 DEF TruthRead
<1> QED BY <1>5, <1>6

\* AnyOf other step that leaves the ground truth alone only moves packets.
LEMMA MoveReadsTruth ==
    ASSUME SInv, gt' = gt, missed' = missed, NEW i \in Pid, NEW s, pkt' = [pkt EXCEPT ![i].st = s],
           NEW j \in Pid, TruthRead(j)
    PROVE  /\ TruthRead(j)'
           /\ pkt'[j].hop = pkt[j].hop /\ Path(j)' = Path(j)
           /\ j # i => pkt'[j] = pkt[j]
           /\ pkt'[i].st = s
<1>1. pkt[j] \in PacketType /\ pkt[i] \in PacketType
    BY DEF SInv, Net, TypeOK
<1>2. pkt'[j] = pkt[j] \/ pkt'[j] = [pkt[j] EXCEPT !.st = s]
    BY DEF SInv, Net, TypeOK
<1>3. pkt'[j].hop = pkt[j].hop /\ pkt'[j].flow = pkt[j].flow /\ pkt'[j].hist = pkt[j].hist
    BY <1>1, <1>2 DEF PacketType
<1>4. pkt'[i].st = s /\ (j # i => pkt'[j] = pkt[j])
    BY <1>1 DEF SInv, Net, TypeOK, PacketType
<1> QED BY <1>3, <1>4, TruthKept DEF Path

-----------------------------------------------------------------------------
(* The steps *)

LEMMA InitSInv == ScenarioInit => SInv
<1> SUFFICES ASSUME ScenarioInit PROVE SInv
    OBVIOUS
<1>1. Net
    BY InitTypeOK, InitInPlace, InitSyndrome DEF ScenarioInit, Net
<1>2. \A u \in Port : r_fault[Cell(u)] = 0
    BY DEF ScenarioInit, Init, Cells
<1>3. \A i \in Pid : pkt[i].st = "unsent"
    BY DEF ScenarioInit, Init, NoHeader
<1>4. \A i \in Pid : TruthRead(i)
    BY <1>1, <1>3, UnsentReadsTruth DEF Net
<1> QED BY <1>1, <1>2, <1>3, <1>4
        DEF SInv, ScenarioInit, ScenarioType, Phase, Registers, Reports, Captured

LEMMA WriteKeeps ==
    ASSUME SInv, NEW u \in Port, NEW v \in 0..1, WriteFault(u, v)
    PROVE  /\ r_fault'[Cell(u)] = v
           /\ \A w \in Port : w # u => r_fault'[Cell(w)] = r_fault[Cell(w)]
           /\ pkt' = pkt
<1>1. r_fault \in [Cells -> 0..1] /\ \A w \in Port : Cell(w) \in Cells
    BY DEF SInv, Net, TypeOK, Cells
<1>2. \A w \in Port : w # u => Cell(w) # Cell(u)
    BY CellInjective
<1> QED BY <1>1, <1>2 DEF WriteFault

\* During the injections no packet has read anything yet.
LEMMA NothingRead ==
    ASSUME SInv, phase = "inject", phase' = phase, pkt' = pkt
    PROVE  Reports'
<1>1. \A i \in Pid : pkt'[i].st = "unsent"
    BY DEF SInv, Reports
<1>2. \A i \in Pid : TruthRead(i)'
    <2>1. \A i \in Pid : pkt'[i].hop = 0
        BY <1>1 DEF SInv, Net, InPlace, Progress
    <2> QED BY <2>1 DEF TruthRead
<1> QED BY <1>1, <1>2 DEF Reports, Captured

LEMMA InjectStep ==
    ASSUME SInv, NEW u \in Target, InjectTarget(u)
    PROVE  ScenarioType' /\ Registers' /\ Reports'
<1>1. u \in Port
    BY ConstAssumption
<1>2. /\ r_fault'[Cell(u)] = 1 /\ pkt' = pkt
      /\ \A w \in Port : w # u => r_fault'[Cell(w)] = r_fault[Cell(w)]
    BY <1>1, WriteKeeps DEF InjectTarget
<1>3. /\ phase = "inject" /\ phase' = phase /\ gt' = gt \cup {u}
      /\ missed' = missed /\ u \notin gt
    BY DEF InjectTarget
<1>4. ScenarioType' /\ Registers'
    BY <1>2, <1>3 DEF SInv, ScenarioType, Registers
<1>5. Reports'
    BY <1>2, <1>3, NothingRead
<1> QED BY <1>4, <1>5

\* A write that fails: the register stays down, and the port is in gt and in missed.
LEMMA FailStep ==
    ASSUME SInv, NEW u \in Target, InjectFails(u)
    PROVE  ScenarioType' /\ Registers' /\ Reports'
<1>1. /\ phase = "inject" /\ phase' = phase /\ u \notin gt /\ pkt' = pkt /\ r_fault' = r_fault
      /\ gt' = gt \cup {u} /\ missed' = missed \cup {u}
    BY DEF InjectFails, vars
<1>2. gt' \ missed' = gt \ missed
    BY <1>1
<1>3. ScenarioType' /\ Registers'
    BY <1>1, <1>2 DEF SInv, ScenarioType, Registers
<1>4. Reports'
    BY <1>1, NothingRead
<1> QED BY <1>3, <1>4

LEMMA ClearStep ==
    ASSUME SInv, NEW u \in Target, ClearTarget(u)
    PROVE  ScenarioType' /\ Registers' /\ Reports'
<1>1. u \in Port
    BY ConstAssumption
<1>2. pkt' = pkt /\ phase = "clear" /\ phase' = phase /\ UNCHANGED <<gt, missed>>
    BY DEF ClearTarget, WriteFault
<1>3. Captured' = Captured /\ \A i \in Captured : i \in Pid
    BY <1>2 DEF Captured
<1>4. \A i \in Captured : TruthRead(i)' /\ pkt'[i].hop = Len(Path(i)')
    BY <1>2, TruthKept DEF SInv, Reports, Path
<1> QED BY <1>2, <1>3, <1>4 DEF SInv, ScenarioType, Registers, Reports

\* The runner and its collector move on; the network stands still.
LEMMA PhaseStep ==
    ASSUME SInv, StartCollector \/ StartFlows \/ EndSniff \/ CollectorExits \/ UNCHANGED svars
    PROVE  ScenarioType' /\ Registers' /\ Reports'
<1>1. /\ pkt' = pkt /\ r_fault' = r_fault /\ UNCHANGED <<gt, missed>> /\ phase' \in Phase
      /\ phase' \in {"inject", "sniff"} => phase \in {"inject", "sniff"}
      /\ phase = "clear" => phase' = "clear"
    BY DEF SInv, ScenarioType, Phase, StartCollector, StartFlows, EndSniff, CollectorExits,
           svars, vars
<1>2. Captured' = Captured /\ \A i \in Captured : i \in Pid
    BY <1>1 DEF Captured
<1>3. \A i \in Pid : TruthRead(i) => TruthRead(i)'
    BY <1>1, TruthKept
<1>4. \A i \in Pid : Path(i)' = Path(i)
    BY <1>1 DEF Path
<1> QED BY <1>1, <1>2, <1>3, <1>4 DEF SInv, ScenarioType, Registers, Reports

\* The switches' and hosts' own steps: the registers of faults stand still.
LEMMA TrafficStep ==
    ASSUME SInv, UNCHANGED <<phase, gt, missed, r_fault>>,
           phase \in {"inject", "sniff"} => pkt' = pkt,
           phase # "clear" => \A i \in Pid : TruthRead(i)',
           \A i \in Captured' : TruthRead(i)' /\ pkt'[i].hop = Len(Path(i)')
    PROVE  ScenarioType' /\ Registers' /\ Reports'
  BY DEF SInv, ScenarioType, Registers, Reports

LEMMA SendStep ==
    ASSUME SInv, NEW i \in Pid, NEW f \in Flow, HostSend(i, f)
    PROVE  ScenarioType' /\ Registers' /\ Reports'
<1>1. /\ phase \notin {"inject", "sniff"} /\ UNCHANGED <<phase, gt, missed, r_fault>>
      /\ pkt[i].st = "unsent"
    BY DEF SInv, ScenarioType, HostSend, SourceIngress, registers
<1>2. /\ \A j \in Pid : j # i => pkt'[j] = pkt[j]
      /\ pkt'[i].st = "queued" /\ pkt'[i].hop = 0
    <2>1. pkt[i] \in PacketType /\ pkt[i].hop = 0
        BY <1>1 DEF SInv, Net, TypeOK, InPlace, Progress
    <2> QED BY <2>1 DEF HostSend, SourceIngress, SInv, Net, TypeOK, PacketType
<1>3. ASSUME NEW j \in Pid, TruthRead(j) PROVE TruthRead(j)'
    <2>1. CASE j = i
        BY <1>2, <2>1 DEF TruthRead
    <2>2. CASE j # i
        BY <1>1, <1>2, <1>3, <2>2, TruthKept
    <2> QED BY <2>1, <2>2
<1>4. ASSUME NEW j \in Captured'
      PROVE  TruthRead(j)' /\ pkt'[j].hop = Len(Path(j)')
    <2>1. j \in Pid /\ j # i /\ pkt'[j] = pkt[j] /\ j \in Captured
        BY <1>2 DEF Captured
    <2> QED BY <1>3, <2>1 DEF SInv, Reports, Path
<1>5. phase # "clear" => \A j \in Pid : TruthRead(j)'
    BY <1>3 DEF SInv, Reports
<1> QED BY <1>1, <1>4, <1>5, TrafficStep

LEMMA HopStep ==
    ASSUME SInv, NEW u \in Port, EgressHop(u), UNCHANGED <<phase, gt, missed>>
    PROVE  ScenarioType' /\ Registers' /\ Reports'
<1>1. phase \notin {"inject", "sniff"}
    BY NothingInFlight DEF SInv, Net, Reports, EgressHop
<1>2. r_fault' = r_fault
    BY DEF EgressHop
<1>3. PICK i : i = Head(queue[u])
    OBVIOUS
<1>4. /\ i \in Pid /\ pkt[i].st = "queued"
      /\ \A j \in Pid : j # i => pkt'[j] = pkt[j]
      /\ \E v \in LocalType : pkt'[i] = Merged(Stamped(pkt[i], u), u, v)
    BY <1>3, EgressFacts DEF SInv, Net, Queued
<1>5. pkt'[i].st = "link"
    BY <1>4, EgressPacket DEF SInv, Net
<1>6. ASSUME NEW j \in Captured'
      PROVE  TruthRead(j)' /\ pkt'[j].hop = Len(Path(j)')
    <2>1. j \in Pid /\ j # i /\ pkt'[j] = pkt[j] /\ j \in Captured
        BY <1>4, <1>5 DEF Captured
    <2> QED BY <2>1, TruthKept DEF SInv, Reports, Path
<1>7. phase # "clear" => \A j \in Pid : TruthRead(j)'
    BY HopReadsTruth
<1> QED BY <1>1, <1>2, <1>6, <1>7, TrafficStep

\* A packet leaves a link, or a captured report is dropped.
LEMMA MoveStep ==
    ASSUME SInv, NEW i \in Pid, NEW s, pkt' = [pkt EXCEPT ![i].st = s],
           UNCHANGED <<phase, gt, missed, r_fault>>, phase \notin {"inject", "sniff"},
           s = "captured" => phase # "clear" /\ pkt[i].hop = Len(Path(i))
    PROVE  ScenarioType' /\ Registers' /\ Reports'
<1>1. phase # "clear" => \A j \in Pid : TruthRead(j)'
    BY MoveReadsTruth DEF SInv, Reports
<1>2. ASSUME NEW j \in Captured'
      PROVE  TruthRead(j)' /\ pkt'[j].hop = Len(Path(j)')
    <2>1. j \in Pid /\ pkt'[j].st = "captured"
        BY DEF Captured
    <2>2. CASE j # i
        <3>1. pkt'[j] = pkt[j]
            BY <2>1, <2>2 DEF SInv, Net, TypeOK
        <3>2. j \in Captured
            BY <2>1, <3>1 DEF Captured
        <3> QED BY <2>1, <3>1, <3>2, TruthKept DEF SInv, Reports, Path
    <2>3. CASE j = i
        <3>1. pkt'[i].st = s
            BY DEF SInv, Net, TypeOK, PacketType
        <3>2. TruthRead(i) /\ pkt[i].hop = Len(Path(i))
            BY <2>1, <2>3, <3>1 DEF SInv, Reports
        <3> QED BY <2>3, <3>2, MoveReadsTruth
    <2> QED BY <2>2, <2>3
<1> QED BY <1>1, <1>2, TrafficStep

LEMMA NextSInv == SInv /\ [ScenarioNext]_svars => SInv'
<1> SUFFICES ASSUME SInv, [ScenarioNext]_svars PROVE SInv'
    OBVIOUS
<1>1. Net'
    BY NetKept DEF SInv
<1> SUFFICES ScenarioType' /\ Registers' /\ Reports'
    BY <1>1 DEF SInv
<1>2. ASSUME NEW u \in Target, InjectTarget(u) PROVE ScenarioType' /\ Registers' /\ Reports'
    BY <1>2, InjectStep
<1>3. ASSUME NEW u \in Target, ClearTarget(u) \/ InjectFails(u)
      PROVE  ScenarioType' /\ Registers' /\ Reports'
    BY <1>3, ClearStep, FailStep
<1>4. CASE StartCollector \/ StartFlows \/ EndSniff \/ CollectorExits \/ UNCHANGED svars
    BY <1>4, PhaseStep
<1>5. ASSUME NEW i \in Pid, NEW f \in Flow, HostSend(i, f)
      PROVE  ScenarioType' /\ Registers' /\ Reports'
    BY <1>5, SendStep
<1>6. ASSUME NEW s \in Source, Advance(s) PROVE ScenarioType' /\ Registers' /\ Reports'
    <2>1. pkt' = pkt /\ UNCHANGED <<phase, gt, missed, r_fault>> /\ Captured' = Captured
        BY <1>6 DEF Advance, Tick, registers, Captured
    <2>2. \A i \in Pid : TruthRead(i) => TruthRead(i)'
        BY <2>1, TruthKept
    <2>3. \A i \in Captured : TruthRead(i)' /\ pkt'[i].hop = Len(Path(i)')
        BY <2>1, <2>2 DEF SInv, Reports, Path, Captured
    <2> QED BY <2>1, <2>2, <2>3, TrafficStep DEF SInv, Reports
<1>7. ASSUME NEW u \in Port, EgressHop(u), UNCHANGED <<phase, gt, missed>>
      PROVE  ScenarioType' /\ Registers' /\ Reports'
    BY <1>7, HopStep
<1>8. ASSUME NEW u \in Port, Ingress(u) \/ Lose(u) \/ Sniff(u), UNCHANGED <<phase, gt, missed>>
      PROVE  ScenarioType' /\ Registers' /\ Reports'
    <2>1. link[u] # <<>> /\ r_fault' = r_fault
        BY <1>8 DEF Ingress, Lose, Sniff, Capture, registers
    <2>2. phase \notin {"inject", "sniff"}
        BY <2>1, NothingInFlight DEF SInv, Net, Reports
    <2>3. PICK i \in Pid : i = Head(link[u])
        BY <2>1, HeadInPid DEF SInv, Net
    <2>4. CASE Ingress(u)
        <3>1. pkt' = [pkt EXCEPT ![i].st = "queued"]
            BY <2>3, <2>4 DEF Ingress
        <3> QED BY <1>8, <2>1, <2>2, <3>1, MoveStep
    <2>5. CASE Lose(u)
        <3>1. pkt' = [pkt EXCEPT ![i].st = "lost"]
            BY <2>3, <2>5 DEF Lose
        <3> QED BY <1>8, <2>1, <2>2, <3>1, MoveStep
    <2>6. CASE Sniff(u)
        <3>1. /\ pkt' = [pkt EXCEPT ![i].st = "captured"] /\ pkt[i].hop = Len(Path(i))
              /\ phase # "clear"
            BY <2>3, <2>6 DEF Sniff, Capture
        <3> QED BY <1>8, <2>1, <2>2, <3>1, MoveStep
    <2> QED BY <1>8, <2>4, <2>5, <2>6
<1>9. ASSUME NEW i \in Pid, Discard(i) PROVE ScenarioType' /\ Registers' /\ Reports'
    <2>1. /\ pkt' = [pkt EXCEPT ![i].st = "lost"] /\ phase = "decode"
          /\ UNCHANGED <<phase, gt, missed, r_fault>>
        BY <1>9 DEF Discard, DropReport, registers
    <2> QED BY <2>1, MoveStep
<1> QED BY <1>2, <1>3, <1>4, <1>5, <1>6, <1>7, <1>8, <1>9 DEF ScenarioNext, Forward, Sniff

LEMMA ScenarioInvariant == ScenarioSpec => []SInv
  BY InitSInv, NextSInv, PTL DEF ScenarioSpec

-----------------------------------------------------------------------------
(* What the invariant says of the reports *)

\* A test of a captured report is a pooled test of the visible faults.
LEMMA TestIsPooled ==
    ASSUME SInv, NEW i \in Captured, NEW r \in Round
    PROVE  /\ TestOf(i, FAIL, r).mem \subseteq Port
           /\ TestOf(i, FAIL, r).y = Pooled(TestOf(i, FAIL, r).mem, Visible)
<1> DEFINE G(k) == Gate(pkt[i].tid, pkt[i].epoch, Path(i)[k], FAIL, r)
<1>1. i \in Pid /\ pkt[i] \in PacketType
    BY DEF Captured, SInv, Net, TypeOK
<1>2. Path(i) \in Seq(Port) /\ DOMAIN Path(i) = 1..Len(Path(i))
    BY <1>1, RouteFacts DEF Path, PacketType
<1>3. TruthRead(i) /\ pkt[i].hop = Len(Path(i))
    BY DEF SInv, Reports
<1>4. Bit(FAIL, r) \in pkt[i].bsynd
        <=> \E k \in 1..pkt[i].hop : G(k) /\ pkt[i].hist[k].bool[FAIL] = 1
    <2>1. FAIL \in Metric
        BY DEF FAIL, Metric
    <2> QED BY <1>1, <2>1 DEF SInv, Net, SyndromeIsPool
<1> HIDE DEF G
<1>5. Bit(FAIL, r) \in pkt[i].bsynd <=> \E k \in DOMAIN Path(i) : G(k) /\ Path(i)[k] \in Visible
    BY <1>2, <1>3, <1>4 DEF TruthRead
<1>6. Members(i, FAIL, r) \cap Visible # {}
         <=> \E k \in DOMAIN Path(i) : G(k) /\ Path(i)[k] \in Visible
    BY DEF Members, G
<1>7. Members(i, FAIL, r) \subseteq Port
    BY <1>2 DEF Members
<1> QED BY <1>5, <1>6, <1>7 DEF TestOf, Pooled

EpochsPooled ==
    \A e \in 0..(EpochMod - 1) : /\ Consistent(Tests(FAIL, e), Visible)
                                /\ \A t \in Tests(FAIL, e) : t.mem \subseteq Port

LEMMA TestsArePooled == SInv => EpochsPooled
<1> SUFFICES ASSUME SInv, NEW e \in 0..(EpochMod - 1), NEW t \in Tests(FAIL, e)
             PROVE  t.y = Pooled(t.mem, Visible) /\ t.mem \subseteq Port
    BY DEF EpochsPooled, Consistent
<1>1. PICK i \in Captured, r \in Round : t = TestOf(i, FAIL, r)
    BY DEF Tests
<1> QED BY <1>1, TestIsPooled

(* Up to the first clear the registers flag the ports of the ground truth   *)
(* whose write got through and no other, for every numbering of ports and   *)
(* switches: the index of a port counts the smaller ports of its switch, so *)
(* no two ports share one.                                                  *)
THEOREM GroundTruthInRegisters == ScenarioSpec => []FaultsAreGroundTruth
<1>1. SInv => FaultsAreGroundTruth
    <2>1. Target \subseteq Port
        BY ConstAssumption
    <2> QED BY <2>1 DEF SInv, ScenarioType, Registers, FaultsAreGroundTruth
<1> QED BY <1>1, ScenarioInvariant, PTL

(* The verify gate: every bit of every captured report is the one computed  *)
(* from its members and the injected faults, also while faults are cleared  *)
(* under packets that are still on their way.                               *)
THEOREM ReportsBitExact == ScenarioSpec => []GateBitExact
<1>1. SInv => GateBitExact
    BY TestsArePooled DEF EpochsPooled, GateBitExact
<1> QED BY <1>1, ScenarioInvariant, PTL

(* DD names only ports whose register was written and whose switch reports  *)
(* it, in any epoch, whichever reports and register writes are lost.        *)
THEOREM DecoderBlamesFaulty == ScenarioSpec => []DDSound
<1>1. SInv => DDSound
    <2>1. SUFFICES ASSUME SInv, NEW e \in 0..(EpochMod - 1)
                   PROVE  Definite(Tests(FAIL, e)) \subseteq Visible
        BY DEF DDSound, decode
    <2>2. Consistent(Tests(FAIL, e), Visible)
        BY <2>1, TestsArePooled DEF EpochsPooled
    <2> QED BY <2>2, DefiniteSound
<1> QED BY <1>1, ScenarioInvariant, PTL

(* COMP keeps every faulty port that some report covers.                    *)
THEOREM DecoderKeepsFaulty == ScenarioSpec => []CompComplete
<1>1. SInv => CompComplete
    <2>1. SUFFICES ASSUME SInv, NEW e \in 0..(EpochMod - 1)
                   PROVE  Visible \cap Columns(Tests(FAIL, e)) \subseteq Suspects(Tests(FAIL, e))
        BY DEF CompComplete, decode
    <2>2. Consistent(Tests(FAIL, e), Visible)
        BY <2>1, TestsArePooled DEF EpochsPooled
    <2> QED BY <2>2, SuspectsComplete
<1> QED BY <1>1, ScenarioInvariant, PTL

-----------------------------------------------------------------------------
(* Refinement: a network of hops implements atomic pooled tests *)

\* Reports that stay captured, unchanged, keep their tests.
LEMMA TestsKept ==
    ASSUME NEW e, \A i \in Captured : i \in Captured' /\ pkt'[i] = pkt[i]
    PROVE  Tests(FAIL, e) \subseteq Tests(FAIL, e)'
<1> SUFFICES ASSUME NEW t \in Tests(FAIL, e) PROVE t \in Tests(FAIL, e)'
    OBVIOUS
<1>1. PICK i \in Captured, r \in Round :
         /\ pkt[i].epoch = e /\ Members(i, FAIL, r) # {} /\ t = TestOf(i, FAIL, r)
    BY DEF Tests
<1>2. i \in Captured' /\ pkt'[i] = pkt[i]
    BY <1>1
<1>3. Members(i, FAIL, r)' = Members(i, FAIL, r) /\ TestOf(i, FAIL, r)' = TestOf(i, FAIL, r)
    BY <1>2 DEF Members, TestOf, Path
<1>4. <<i, r>> \in {y \in Captured' \X Round :
          pkt'[y[1]].epoch = e /\ Members(y[1], FAIL, y[2])' # {}}
    BY <1>1, <1>2, <1>3
<1> QED BY <1>1, <1>3, <1>4 DEF Tests

LEMMA AllTestsKept ==
    ASSUME \A i \in Captured : i \in Captured' /\ pkt'[i] = pkt[i]
    PROVE  AllTests \subseteq AllTests'
  BY TestsKept DEF AllTests

\* And when no report is added, none appear.
LEMMA NoNewTests ==
    ASSUME \A i \in Captured' : i \in Captured /\ pkt'[i] = pkt[i]
    PROVE  AllTests' \subseteq AllTests
<1> SUFFICES ASSUME NEW e \in 0..(EpochMod - 1), NEW t \in Tests(FAIL, e)'
             PROVE  t \in Tests(FAIL, e)
    BY DEF AllTests
<1>1. PICK i \in Captured', r \in Round :
         /\ pkt'[i].epoch = e /\ Members(i, FAIL, r)' # {} /\ t = TestOf(i, FAIL, r)'
    BY DEF Tests
<1>2. i \in Captured /\ pkt'[i] = pkt[i]
    BY <1>1
<1>3. Members(i, FAIL, r)' = Members(i, FAIL, r) /\ TestOf(i, FAIL, r)' = TestOf(i, FAIL, r)
    BY <1>2 DEF Members, TestOf, Path
<1>4. <<i, r>> \in {y \in Captured \X Round :
          pkt[y[1]].epoch = e /\ Members(y[1], FAIL, y[2]) # {}}
    BY <1>1, <1>2, <1>3
<1> QED BY <1>1, <1>3, <1>4 DEF Tests

LEMMA SameTests ==
    ASSUME Captured' = Captured, \A i \in Captured : pkt'[i] = pkt[i]
    PROVE  AllTests' = AllTests
  BY AllTestsKept, NoNewTests

\* Traffic changes the header of no report: a report is in no queue and on no link.
LEMMA TrafficKeepsReports ==
    ASSUME SInv, \/ \E i \in Pid, f \in Flow : SourceIngress(i, f)
                 \/ \E u \in Port : EgressHop(u) \/ Ingress(u) \/ Lose(u)
                 \/ UNCHANGED pkt
    PROVE  Captured' = Captured /\ \A i \in Captured : pkt'[i] = pkt[i]
<1> SUFFICES ASSUME NEW i \in Pid, pkt[i].st # "captured", pkt'[i].st # "captured",
                    \A j \in Pid : j # i => pkt'[j] = pkt[j]
             PROVE  Captured' = Captured /\ \A j \in Captured : pkt'[j] = pkt[j]
    <2>1. CASE UNCHANGED pkt
        BY <2>1 DEF Captured
    <2>2. ASSUME NEW i \in Pid, NEW f \in Flow, SourceIngress(i, f)
          PROVE  /\ pkt[i].st # "captured" /\ pkt'[i].st # "captured"
                 /\ \A j \in Pid : j # i => pkt'[j] = pkt[j]
        BY <2>2 DEF SourceIngress, SInv, Net, TypeOK, PacketType
    <2>3. ASSUME NEW u \in Port, EgressHop(u)
          PROVE  \E i \in Pid : /\ pkt[i].st # "captured" /\ pkt'[i].st # "captured"
                               /\ \A j \in Pid : j # i => pkt'[j] = pkt[j]
        <3>1. PICK i : i = Head(queue[u])
            OBVIOUS
        <3>2. /\ i \in Pid /\ pkt[i].st = "queued"
              /\ \A j \in Pid : j # i => pkt'[j] = pkt[j]
              /\ \E v \in LocalType : pkt'[i] = Merged(Stamped(pkt[i], u), u, v)
            BY <2>3, <3>1, EgressFacts DEF SInv, Net, Queued
        <3>3. pkt'[i].st = "link"
            BY <3>2, EgressPacket DEF SInv, Net
        <3> QED BY <3>2, <3>3
    <2>4. ASSUME NEW u \in Port, Ingress(u) \/ Lose(u)
          PROVE  \E i \in Pid : /\ pkt[i].st # "captured" /\ pkt'[i].st # "captured"
                               /\ \A j \in Pid : j # i => pkt'[j] = pkt[j]
        <3>1. link[u] # <<>>
            BY <2>4 DEF Ingress, Lose
        <3>2. PICK i \in Pid : i = Head(link[u]) /\ OnLink(i, u)
            BY <3>1, InPids DEF SInv, Net, InPlace
        <3>3. PICK s \in {"queued", "lost"} : pkt' = [pkt EXCEPT ![i].st = s]
            BY <2>4, <3>2 DEF Ingress, Lose
        <3> QED BY <3>2, <3>3 DEF OnLink, SInv, Net, TypeOK, PacketType
    <2> QED BY <2>1, <2>2, <2>3, <2>4
<1> QED BY DEF Captured

LEMMA RefinesInit == ScenarioInit => Abstract!Init
<1> SUFFICES ASSUME ScenarioInit PROVE Abstract!Init
    OBVIOUS
<1>1. Captured = {}
    BY DEF ScenarioInit, Init, Captured, NoHeader
<1>2. AllTests = {}
    BY <1>1 DEF AllTests, Tests
<1> QED BY <1>2 DEF ScenarioInit, Abstract!Init, Visible, Stage

LEMMA RefinesNext == SInv /\ SInv' /\ [ScenarioNext]_svars => [Abstract!Next]_(Abstract!vars)
<1> SUFFICES ASSUME SInv, SInv', [ScenarioNext]_svars PROVE [Abstract!Next]_(Abstract!vars)
    OBVIOUS
<1>1. ASSUME pkt' = pkt PROVE AllTests' = AllTests
    BY <1>1, TrafficKeepsReports, SameTests
<1>2. ASSUME NEW u \in Target, InjectTarget(u) PROVE [Abstract!Next]_(Abstract!vars)
    <2>1. /\ AllTests' = AllTests /\ phase = "inject" /\ phase' = phase
          /\ gt' = gt \cup {u} /\ missed' = missed /\ u \in Port
          /\ u \notin gt /\ missed \subseteq gt
        BY <1>1, <1>2, ConstAssumption DEF InjectTarget, WriteFault, SInv, ScenarioType
    <2>2. Visible' = Visible \/ Visible' = Visible \cup {u}
        BY <2>1 DEF Visible
    <2>3. Stage = "choose" /\ Stage' = Stage
        BY <2>1 DEF Stage
    <2> QED BY <2>1, <2>2, <2>3 DEF Abstract!Next, Abstract!Choose, Abstract!vars
<1>3. ASSUME NEW u \in Target, ClearTarget(u) PROVE UNCHANGED Abstract!vars
    BY <1>1, <1>3 DEF ClearTarget, WriteFault, Abstract!vars, Visible, Stage
<1>13. ASSUME NEW u \in Target, InjectFails(u) PROVE UNCHANGED Abstract!vars
    <2>1. gt' \ missed' = gt \ missed /\ phase' = phase /\ pkt' = pkt
        BY <1>13 DEF InjectFails, vars
    <2>2. Visible' = Visible /\ Stage' = Stage
        BY <2>1 DEF Visible, Stage
    <2> QED BY <1>1, <2>1, <2>2 DEF Abstract!vars
<1>4. CASE StartCollector
    <2>1. AllTests' = AllTests /\ Visible' = Visible
        BY <1>1, <1>4 DEF StartCollector, vars, Visible
    <2>2. Stage = "choose" /\ Stage' = "observe"
        BY <1>4 DEF StartCollector, Stage
    <2> QED BY <2>1, <2>2 DEF Abstract!Next, Abstract!Start
<1>5. CASE EndSniff
    <2>1. AllTests' = AllTests /\ Visible' = Visible
        BY <1>1, <1>5 DEF EndSniff, vars, Visible
    <2>2. Stage = "observe" /\ Stage' = "closed"
        BY <1>5 DEF EndSniff, Stage
    <2> QED BY <2>1, <2>2 DEF Abstract!Next, Abstract!Close
<1>6. CASE StartFlows \/ CollectorExits \/ UNCHANGED svars
    <2>1. AllTests' = AllTests /\ Visible' = Visible
        BY <1>1, <1>6 DEF StartFlows, CollectorExits, svars, vars, Visible
    <2>2. Stage' = Stage
        BY <1>6 DEF StartFlows, CollectorExits, svars, Stage
    <2> QED BY <2>1, <2>2 DEF Abstract!vars
<1>7. ASSUME UNCHANGED <<phase, gt, missed>>, AllTests' = AllTests PROVE UNCHANGED Abstract!vars
    BY <1>7 DEF Abstract!vars, Visible, Stage
<1>8. ASSUME NEW i \in Pid, NEW f \in Flow, HostSend(i, f) PROVE UNCHANGED Abstract!vars
    BY <1>7, <1>8, TrafficKeepsReports, SameTests DEF HostSend
<1>9. ASSUME NEW s \in Source, Advance(s) PROVE UNCHANGED Abstract!vars
    BY <1>1, <1>7, <1>9 DEF Advance, Tick
<1>10. ASSUME NEW u \in Port, Forward(u) PROVE UNCHANGED Abstract!vars
    BY <1>7, <1>10, TrafficKeepsReports, SameTests DEF Forward
<1>11. ASSUME NEW u \in Port, Sniff(u) PROVE Abstract!Next
    <2>1. UNCHANGED <<phase, gt, missed>> /\ phase \in {"sniff", "flows"} /\ link[u] # <<>>
        BY <1>11 DEF Sniff, Capture
    <2>2. PICK i \in Pid : i = Head(link[u]) /\ OnLink(i, u)
        BY <2>1, InPids DEF SInv, Net, InPlace
    <2>3. pkt' = [pkt EXCEPT ![i].st = "captured"] /\ pkt[i].st = "link"
        BY <1>11, <2>2 DEF Sniff, Capture, OnLink
    <2>4. \A j \in Captured : j \in Captured' /\ pkt'[j] = pkt[j]
        BY <2>3 DEF Captured, SInv, Net, TypeOK
    <2>5. AllTests \subseteq AllTests'
        BY <2>4, AllTestsKept
    <2>6. Stage = "observe" /\ Stage' = "observe" /\ Visible' = Visible
        BY <2>1 DEF Stage, Visible
    <2>7. ASSUME NEW t \in AllTests' PROVE t.mem \subseteq Port /\ t.y = Pooled(t.mem, Visible)
        <3>1. PICK e \in 0..(EpochMod - 1) :
                 \E q \in Tests(FAIL, e)' : t = [epoch |-> e, mem |-> q.mem, y |-> q.y]
            BY DEF AllTests
        <3>2. EpochsPooled'
            BY TestsArePooled, PTL
        <3> QED BY <2>6, <3>1, <3>2 DEF EpochsPooled, Consistent
    <2>8. Abstract!Observe
        BY <2>5, <2>6, <2>7 DEF Abstract!Observe, Abstract!Pooled, Pooled
    <2> QED BY <2>8 DEF Abstract!Next
<1>12. ASSUME NEW i \in Pid, Discard(i) PROVE Abstract!Next
    <2>1. /\ phase = "decode" /\ UNCHANGED <<phase, gt, missed>>
          /\ pkt' = [pkt EXCEPT ![i].st = "lost"]
        BY <1>12 DEF Discard, DropReport
    <2>2. \A j \in Captured' : j \in Captured /\ pkt'[j] = pkt[j]
        BY <2>1 DEF Captured, SInv, Net, TypeOK, PacketType
    <2>3. AllTests' \subseteq AllTests
        BY <2>2, NoNewTests
    <2>4. Stage = "closed" /\ Stage' = "closed" /\ Visible' = Visible
        BY <2>1 DEF Stage, Visible
    <2> QED BY <2>3, <2>4 DEF Abstract!Next, Abstract!Discard
<1> QED BY <1>2, <1>3, <1>4, <1>5, <1>6, <1>8, <1>9, <1>10, <1>11, <1>12, <1>13 DEF ScenarioNext

(* The network of hops, whatever it interleaves and loses, behaves for its  *)
(* collector as if every packet were one atomic pooled test of a fault set  *)
(* that is chosen first and stays (headers.p4:6).                           *)
THEOREM RefinesPooledTest == ScenarioSpec => ImplementsPooledTest
  BY RefinesInit, RefinesNext, ScenarioInvariant, PTL
  DEF ScenarioSpec, ImplementsPooledTest, Abstract!Spec
=============================================================================
