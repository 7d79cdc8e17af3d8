--------------------------- MODULE PoolNetProofs ---------------------------
(***************************************************************************)
(* PoolNet for every network, gate function, packet population and         *)
(* traffic: type correctness, the meaning of the boolean syndrome, and the *)
(* other fields of a syndrome header and the registers behind them.  The   *)
(* debug header agrees with the replay, test ids repeat only when the      *)
(* counter of their source port wraps, a quantitative slot is its members' *)
(* sum cut off once, and the utilisation registers count the bytes of      *)
(* their epoch while the clocks agree.                                     *)
(***************************************************************************)
EXTENDS PoolNet, DataProofs, SequenceTheorems

USE DEF Metric, FAIL

-----------------------------------------------------------------------------
(* Arithmetic of the slots *)

\* A (metric, round) pair has a bit of its own.
LEMMA BitInjective ==
    ASSUME NEW b \in Metric, NEW c \in Metric, NEW r \in Round, NEW s \in Round
    PROVE  /\ Bit(b, r) \in Slot
           /\ Bit(b, r) = Bit(c, s) => b = c /\ r = s
<1>1. R \in Nat \ {0}
    BY ConstAssumption
<1>2. b = 0 \/ b = 1
    OBVIOUS
<1>3. c = 0 \/ c = 1
    OBVIOUS
<1> QED BY <1>1, <1>2, <1>3 DEF Bit, Round, Slot

LEMMA SlotMetric ==
    ASSUME NEW s \in Slot
    PROVE  s \div R \in Metric
<1>1. R \in Nat \ {0}
    BY ConstAssumption
<1> QED BY <1>1 DEF Slot

LEMMA CappedType ==
    ASSUME NEW n \in Nat
    PROVE  Capped(n) \in 0..QMax
  BY ConstAssumption DEF Capped

-----------------------------------------------------------------------------
(* Register cells *)

LEMMA PortParts ==
    ASSUME NEW u \in Port
    PROVE  /\ u \in Nat /\ SwitchId(u) \in Nat /\ EgressPort(u) \in Nat
           /\ u = 256 * SwitchId(u) + EgressPort(u)
<1>1. u \in Nat
    BY ConstAssumption
<1> QED BY <1>1 DEF SwitchId, EgressPort

\* Of two ports of a switch the one with the larger number has the larger index.
LEMMA IdxGrows ==
    ASSUME NEW u \in Port, NEW v \in Port, SwitchId(u) = SwitchId(v),
           EgressPort(u) < EgressPort(v)
    PROVE  LocalIdx(u) # LocalIdx(v)
<1> DEFINE Below(w) ==
        {x \in Port : SwitchId(x) = SwitchId(w) /\ EgressPort(x) < EgressPort(w)}
<1>1. IsFiniteSet(Below(v))
    <2>1. Below(v) \subseteq Port /\ IsFiniteSet(Port)
        BY ConstAssumption
    <2> HIDE DEF Below
    <2> QED BY <2>1, FS_Subset
<1>2. Below(u) \subseteq Below(v)
    BY PortParts
<1>3. u \in Below(v) /\ u \notin Below(u)
    BY PortParts
<1> HIDE DEF Below
<1>4. Cardinality(Below(u)) # Cardinality(Below(v))
    BY <1>1, <1>2, <1>3, FS_Subset
<1> QED BY <1>4 DEF LocalIdx, Below

\* No two ports share a register.
LEMMA CellInjective ==
    ASSUME NEW u \in Port, NEW v \in Port, Cell(u) = Cell(v)
    PROVE  u = v
<1>1. SwitchId(u) = SwitchId(v) /\ LocalIdx(u) = LocalIdx(v)
    BY DEF Cell
<1>2. EgressPort(u) = EgressPort(v)
    BY <1>1, IdxGrows, PortParts
<1> QED BY <1>1, <1>2, PortParts

-----------------------------------------------------------------------------
(* What the parts of an egress pass return *)

LEMMA ModType ==
    ASSUME NEW n \in Nat, NEW m \in Nat \ {0}
    PROVE  n % m \in 0..(m - 1)
  OBVIOUS

LEMMA DivType ==
    ASSUME NEW n \in Nat, NEW m \in Nat \ {0}
    PROVE  n \div m \in Nat
  OBVIOUS

LEMMA RouteFacts ==
    ASSUME NEW f \in Flow
    PROVE  /\ Route[f] \in Seq(Port) /\ Len(Route[f]) \in Nat \ {0}
           /\ \A k \in 1..Len(Route[f]) : Route[f][k] \in Port
           /\ Length[f] \in Nat
  BY ConstAssumption

LEMMA LengthType ==
    ASSUME NEW p \in PacketType
    PROVE  PacketLength(p) \in Nat
  BY RouteFacts, ConstAssumption DEF PacketLength, PacketType

\* A fresh header is a header; only the first egress creates one.
LEMMA StampedType ==
    ASSUME TypeOK, NEW p \in PacketType, NEW u \in Port
    PROVE  /\ Stamped(p, u) \in PacketType
           /\ Stamped(p, u).flow = p.flow /\ Stamped(p, u).hop = p.hop
           /\ Stamped(p, u).hist = p.hist
           /\ p.hop > 0 => Stamped(p, u) = p
           /\ p.hop = 0 => Stamped(p, u).bsynd = {}
<1>1. Cell(u) \in Cells
    BY DEF Cells
<1>2. r_testctr[Cell(u)] % TestIdMod \in 0..(TestIdMod - 1)
    BY <1>1, ModType, ConstAssumption DEF TypeOK
<1>3. 0 \in 0..(TestIdMod - 1) /\ 0 \in 0..QMax
    BY ConstAssumption
<1>4. ASSUME NEW t \in 0..(TestIdMod - 1)
      PROVE  /\ Fresh(p, u, t) \in PacketType
             /\ Fresh(p, u, t).flow = p.flow /\ Fresh(p, u, t).hop = p.hop
             /\ Fresh(p, u, t).hist = p.hist /\ Fresh(p, u, t).bsynd = {}
    <2>1. p.ts \in 0..(EpochMod - 1)
        BY DEF PacketType
    <2>2. <<>> \in Seq(Nat)
        OBVIOUS
    <2>3. [s \in Slot |-> 0] \in [Slot -> 0..QMax]
        BY <1>3
    <2>4. <<>> \in {<<>>} \cup Nat \X Nat \X Port
        OBVIOUS
    <2>5. 0 \in Port \cup {0} /\ {} \in SUBSET Slot
        OBVIOUS
    <2>6. Fresh(p, u, t) \in PacketType
        BY <2>1, <2>2, <2>3, <2>4, <2>5 DEF Fresh, PacketType
    <2>7. /\ Fresh(p, u, t).flow = p.flow /\ Fresh(p, u, t).hop = p.hop
          /\ Fresh(p, u, t).hist = p.hist /\ Fresh(p, u, t).bsynd = {}
        BY DEF Fresh, PacketType
    <2> QED BY <2>6, <2>7
<1>5. p.hop \in Nat
    BY DEF PacketType
<1>6. CASE p.hop = 0
    BY <1>2, <1>3, <1>4, <1>6 DEF Stamped
<1>7. CASE p.hop > 0
    BY <1>7, <1>5 DEF Stamped
<1> QED BY <1>5, <1>6, <1>7

LEMMA UtilCellType ==
    ASSUME TypeOK, NEW u \in Port, NEW e \in 0..(EpochMod - 1), NEW n \in Nat
    PROVE  /\ EpochSlot(e) \in 0..(NumEpochSlots - 1)
           /\ UtilCell(u, e, n) \in [epoch : 0..(EpochMod - 1), bytes : Nat]
<1>1. Cell(u) \in Cells
    BY DEF Cells
<1>2. EpochSlot(e) \in 0..(NumEpochSlots - 1)
    <2>1. e \in Nat /\ NumEpochSlots \in Nat \ {0}
        BY ConstAssumption
    <2> QED BY <2>1, ModType DEF EpochSlot
<1>3. r_util[Cell(u)][EpochSlot(e)] \in [epoch : 0..(EpochMod - 1), bytes : Nat]
    BY <1>1, <1>2 DEF TypeOK
<1> QED BY <1>2, <1>3 DEF UtilCell

LEMMA LocalValuesType ==
    ASSUME TypeOK, NEW u \in Port, NEW e \in 0..(EpochMod - 1), NEW n \in Nat, NEW d \in Nat
    PROVE  LocalValues(u, e, n, d) \in LocalType
<1>1. Cell(u) \in Cells
    BY DEF Cells
<1>2. r_fault[Cell(u)] \in 0..1
    BY <1>1 DEF TypeOK
<1>3. Capped(UtilCell(u, e, n).bytes \div UtilUnit) \in 0..QMax
    <2>1. UtilCell(u, e, n).bytes \in Nat
        BY UtilCellType
    <2>2. UtilCell(u, e, n).bytes \div UtilUnit \in Nat
        BY <2>1, DivType, ConstAssumption
    <2> QED BY <2>2, CappedType
<1>4. Capped(d) \in 0..QMax
    BY CappedType
<1>5. 0 \in 0..QMax
    BY ConstAssumption
<1> QED BY <1>2, <1>3, <1>4, <1>5 DEF LocalValues, LocalType

LEMMA ShiftedType ==
    ASSUME NEW s \in Seq(Nat), NEW w \in Nat
    PROVE  Shifted(s, w) \in Seq(Nat)
  BY DEF Shifted

LEMMA MergedType ==
    ASSUME NEW p \in PacketType, NEW u \in Port, NEW v \in LocalType
    PROVE  /\ Merged(p, u, v) \in PacketType
           /\ Merged(p, u, v).st = "link" /\ Merged(p, u, v).hop = p.hop + 1
           /\ Merged(p, u, v).flow = p.flow /\ Merged(p, u, v).tid = p.tid
           /\ Merged(p, u, v).epoch = p.epoch
           /\ Merged(p, u, v).hist = Append(p.hist, v)
           /\ \A b \in Metric, r \in Round :
                 Bit(b, r) \in Merged(p, u, v).bsynd
                   <=> \/ Bit(b, r) \in p.bsynd
                       \/ Gate(p.tid, p.epoch, u, b, r) /\ v.bool[b] = 1
<1> DEFINE new == {Bit(x[1], x[2]) : x \in
                     {y \in Metric \X Round : /\ Gate(p.tid, p.epoch, u, y[1], y[2])
                                              /\ v.bool[y[1]] = 1}}
<1>1. new \subseteq Slot
    BY BitInjective
<1>2. \A s \in Slot : SatAdd(p.q[s], v.quant[s \div R]) \in 0..QMax
    <2> TAKE s \in Slot
    <2>1. p.q[s] \in Nat
        BY DEF PacketType
    <2>2. v.quant[s \div R] \in Nat
        BY SlotMetric, ConstAssumption DEF LocalType
    <2> QED BY <2>1, <2>2, CappedType DEF SatAdd
<1>3. [s \in Slot |-> IF Gate(p.tid, p.epoch, u, 2 + (s \div R), s % R)
                      THEN SatAdd(p.q[s], v.quant[s \div R])
                      ELSE p.q[s]] \in [Slot -> 0..QMax]
    BY <1>2 DEF PacketType
<1>4. SwitchId(u) \in Nat /\ Shifted(p.dpath, SwitchId(u)) \in Seq(Nat)
    <2>1. u \in Nat /\ 256 \in Nat \ {0}
        BY ConstAssumption
    <2>2. SwitchId(u) \in Nat
        BY <2>1, DivType DEF SwitchId
    <2>3. p.dpath \in Seq(Nat)
        BY DEF PacketType
    <2> QED BY <2>2, <2>3, ShiftedType
<1>5. <<p.tid, p.epoch, u>> \in Nat \X Nat \X Port
    BY ConstAssumption DEF PacketType
<1>6. Append(p.hist, v) \in Seq(LocalType)
    BY DEF PacketType
<1>7. Merged(p, u, v) \in PacketType
    <2>1. p.bsynd \cup new \in SUBSET Slot /\ p.hop + 1 \in Nat
        BY <1>1 DEF PacketType
    <2>2. (IF p.dport = 0 THEN <<p.tid, p.epoch, u>> ELSE p.dhash)
             \in {<<>>} \cup Nat \X Nat \X Port
        BY <1>5 DEF PacketType
    <2>3. (IF p.dport = 0 THEN u ELSE p.dport) \in Port \cup {0}
        BY DEF PacketType
    <2> QED BY <1>3, <1>4, <1>6, <2>1, <2>2, <2>3 DEF Merged, PacketType, new
<1>8. /\ Merged(p, u, v).st = "link" /\ Merged(p, u, v).hop = p.hop + 1
      /\ Merged(p, u, v).flow = p.flow /\ Merged(p, u, v).tid = p.tid
      /\ Merged(p, u, v).epoch = p.epoch
      /\ Merged(p, u, v).hist = Append(p.hist, v)
      /\ Merged(p, u, v).bsynd = p.bsynd \cup new
    BY DEF Merged, PacketType
<1>9. ASSUME NEW b \in Metric, NEW r \in Round
      PROVE  Bit(b, r) \in new <=> Gate(p.tid, p.epoch, u, b, r) /\ v.bool[b] = 1
    <2>1. ASSUME Gate(p.tid, p.epoch, u, b, r), v.bool[b] = 1
          PROVE  Bit(b, r) \in new
        <3>1. <<b, r>> \in {y \in Metric \X Round : /\ Gate(p.tid, p.epoch, u, y[1], y[2])
                                                   /\ v.bool[y[1]] = 1}
            BY <2>1
        <3> QED BY <3>1
    <2>2. ASSUME Bit(b, r) \in new
          PROVE  Gate(p.tid, p.epoch, u, b, r) /\ v.bool[b] = 1
        <3>1. PICK c \in Metric, s \in Round :
                 Bit(b, r) = Bit(c, s) /\ Gate(p.tid, p.epoch, u, c, s) /\ v.bool[c] = 1
            BY <2>2
        <3>2. b = c /\ r = s
            BY <3>1, BitInjective
        <3> QED BY <3>1, <3>2
    <2> QED BY <2>1, <2>2
<1> QED BY <1>7, <1>8, <1>9

-----------------------------------------------------------------------------
(* Type correctness *)

LEMMA SwitchOfPort == ASSUME NEW u \in Port PROVE SwitchId(u) \in Switch
  BY DEF Switch

LEMMA InitTypeOK == Init => TypeOK
<1> SUFFICES ASSUME Init PROVE TypeOK
    OBVIOUS
<1>1. r_fault \in [Cells -> 0..1] /\ r_testctr \in [Cells -> Nat]
    BY DEF Init
<1>2. r_util \in [Cells -> [0..(NumEpochSlots - 1) -> [epoch : 0..(EpochMod - 1), bytes : Nat]]]
    <2>1. 0 \in 0..(EpochMod - 1)
        BY ConstAssumption
    <2> QED BY <2>1 DEF Init
<1>3. NoHeader \in PacketType
    <2>1. (CHOOSE f \in Flow : TRUE) \in Flow
        BY ConstAssumption
    <2>2. 0 \in 0..(EpochMod - 1) /\ 0 \in 0..(TestIdMod - 1) /\ 0 \in 0..QMax
        BY ConstAssumption
    <2>3. [s \in Slot |-> 0] \in [Slot -> 0..QMax]
        BY <2>2
    <2> HIDE DEF Slot, LocalType
    <2>4. <<>> \in Seq(Nat) /\ <<>> \in Seq(LocalType)
        OBVIOUS
    <2>5. <<>> \in {<<>>} \cup Nat \X Nat \X Port
        OBVIOUS
    <2>6. 0 \in Port \cup {0} /\ {} \in SUBSET Slot /\ 0 \in Nat
        OBVIOUS
    <2> DEFINE fl == CHOOSE f \in Flow : TRUE
    <2> HIDE DEF fl
    <2>7. [st |-> "unsent", flow |-> fl, hop |-> 0, ts |-> 0, tid |-> 0, epoch |-> 0,
           bsynd |-> {}, q |-> [s \in Slot |-> 0], dhash |-> <<>>, dport |-> 0,
           dpath |-> <<>>, hist |-> <<>>] \in PacketType
        BY <2>1, <2>2, <2>3, <2>4, <2>5, <2>6 DEF PacketType, fl
    <2> QED BY <2>7 DEF NoHeader, fl
<1>4. pkt \in [Pid -> PacketType]
    BY <1>3 DEF Init
<1>5. clock \in [Switch -> Nat] /\ queue \in [Port -> Seq(Pid)] /\ link \in [Port -> Seq(Pid)]
    BY DEF Init
<1> QED BY <1>1, <1>2, <1>4, <1>5 DEF TypeOK

\* Changing where a packet is keeps it a packet.
LEMMA MovedType ==
    ASSUME TypeOK, NEW i \in Pid, NEW s \in {"queued", "captured", "lost"}
    PROVE  [pkt EXCEPT ![i].st = s] \in [Pid -> PacketType]
<1>1. pkt[i] \in PacketType
    BY DEF TypeOK
<1>2. [pkt[i] EXCEPT !.st = s] \in PacketType
    BY <1>1 DEF PacketType
<1> QED BY <1>2 DEF TypeOK

LEMMA HeadInPid ==
    ASSUME TypeOK, NEW u \in Port
    PROVE  /\ queue[u] # <<>> => /\ Head(queue[u]) \in Pid /\ Tail(queue[u]) \in Seq(Pid)
                                /\ Len(queue[u]) \in Nat \ {0} /\ Head(queue[u]) = queue[u][1]
           /\ link[u] # <<>>  => /\ Head(link[u]) \in Pid /\ Tail(link[u]) \in Seq(Pid)
                                /\ Len(link[u]) \in Nat \ {0} /\ Head(link[u]) = link[u][1]
  BY DEF TypeOK

LEMMA NextTypeOK == TypeOK /\ [Next]_vars => TypeOK'
<1> SUFFICES ASSUME TypeOK, [Next]_vars PROVE TypeOK'
    OBVIOUS
<1>1. ASSUME NEW s \in Source, Tick(s) PROVE TypeOK'
    <2>1. s \in Switch
        BY RouteFacts, SwitchOfPort DEF Source
    <2> QED BY <1>1, <2>1 DEF Tick, TypeOK, registers
<1>2. ASSUME NEW i \in Pid, NEW f \in Flow, SourceIngress(i, f) PROVE TypeOK'
    <2>1. Route[f][1] \in Port
        BY RouteFacts
    <2>2. clock[SwitchId(Route[f][1])] % EpochMod \in 0..(EpochMod - 1)
        <3>1. clock[SwitchId(Route[f][1])] \in Nat /\ EpochMod \in Nat \ {0}
            BY <2>1, SwitchOfPort, ConstAssumption DEF TypeOK
        <3> QED BY <3>1, ModType
    <2>3. [pkt[i] EXCEPT !.st = "queued", !.flow = f,
                         !.ts = clock[SwitchId(Route[f][1])] % EpochMod] \in PacketType
        <3>1. pkt[i] \in PacketType
            BY DEF TypeOK
        <3> QED BY <2>2, <3>1 DEF PacketType
    <2>4. pkt' \in [Pid -> PacketType]
        BY <1>2, <2>3 DEF SourceIngress, TypeOK
    <2>5. queue' \in [Port -> Seq(Pid)]
        BY <1>2, <2>1 DEF SourceIngress, TypeOK
    <2> QED BY <1>2, <2>4, <2>5 DEF SourceIngress, TypeOK, registers
<1>3. ASSUME NEW u \in Port, EgressHop(u) PROVE TypeOK'
    <2> DEFINE i == Head(queue[u])
               p == Stamped(pkt[i], u)
               n == PacketLength(p)
    <2>1. /\ i \in Pid /\ Tail(queue[u]) \in Seq(Pid) /\ Len(queue[u]) - 1 \in Nat
        BY <1>3, HeadInPid DEF EgressHop
    <2>2. p \in PacketType
        BY <2>1, StampedType DEF TypeOK
    <2>3. n \in Nat /\ p.epoch \in 0..(EpochMod - 1)
        BY <2>2, LengthType DEF PacketType
    <2> HIDE DEF p, n
    <2>4. pkt' \in [Pid -> PacketType]
        <3>1. PICK x \in OtherTraffic :
                 pkt' = [pkt EXCEPT ![i] =
                           Merged(p, u, LocalValues(u, p.epoch, n, Len(queue[u]) - 1 + x))]
            BY <1>3 DEF EgressHop, p, n
        <3>2. Len(queue[u]) - 1 + x \in Nat
            BY <2>1, ConstAssumption
        <3>3. LocalValues(u, p.epoch, n, Len(queue[u]) - 1 + x) \in LocalType
            BY <2>3, <3>2, LocalValuesType
        <3>4. Merged(p, u, LocalValues(u, p.epoch, n, Len(queue[u]) - 1 + x)) \in PacketType
            BY <2>2, <3>3, MergedType
        <3> QED BY <2>1, <3>1, <3>4 DEF TypeOK
    <2>5. r_testctr' \in [Cells -> Nat]
        <3>1. r_testctr \in [Cells -> Nat]
            BY DEF TypeOK
        <3>2. r_testctr' = r_testctr \/ r_testctr' = [r_testctr EXCEPT ![Cell(u)] = @ + 1]
            BY <1>3 DEF EgressHop
        <3> QED BY <3>1, <3>2
    <2>6. r_util' \in [Cells -> [0..(NumEpochSlots - 1) -> [epoch : 0..(EpochMod - 1), bytes : Nat]]]
        <3>1. r_util' = IF u \in Installed
                        THEN [r_util EXCEPT ![Cell(u)][EpochSlot(p.epoch)] = UtilCell(u, p.epoch, n)]
                        ELSE r_util
            BY <1>3 DEF EgressHop, p, n
        <3>2. UtilCell(u, p.epoch, n) \in [epoch : 0..(EpochMod - 1), bytes : Nat]
            BY <2>3, UtilCellType
        <3> QED BY <3>1, <3>2 DEF TypeOK
    <2>7. queue' \in [Port -> Seq(Pid)] /\ link' \in [Port -> Seq(Pid)]
        BY <1>3, <2>1 DEF EgressHop, TypeOK
    <2> QED BY <1>3, <2>4, <2>5, <2>6, <2>7 DEF EgressHop, TypeOK
<1>4. ASSUME NEW u \in Port, Ingress(u) PROVE TypeOK'
    <2>1. Head(link[u]) \in Pid /\ Tail(link[u]) \in Seq(Pid)
        BY <1>4, HeadInPid DEF Ingress
    <2>2. pkt' \in [Pid -> PacketType]
        BY <1>4, <2>1, MovedType DEF Ingress
    <2>3. queue' \in [Port -> Seq(Pid)] /\ link' \in [Port -> Seq(Pid)]
        <3>1. queue \in [Port -> Seq(Pid)] /\ link \in [Port -> Seq(Pid)]
            BY DEF TypeOK
        <3>2. /\ queue' = [queue EXCEPT ![NextPort(Head(link[u]))] = Append(@, Head(link[u]))]
              /\ link' = [link EXCEPT ![u] = Tail(@)]
            BY <1>4 DEF Ingress
        <3>3. \A k : [queue EXCEPT ![k] = Append(@, Head(link[u]))] \in [Port -> Seq(Pid)]
            <4> TAKE k
            <4>1. k \in Port => Append(queue[k], Head(link[u])) \in Seq(Pid)
                BY <2>1, <3>1
            <4> QED BY <3>1, <4>1
        <3> QED BY <2>1, <3>1, <3>2, <3>3
    <2> QED BY <1>4, <2>2, <2>3 DEF Ingress, TypeOK, registers
<1>5. ASSUME NEW u \in Port, Capture(u) PROVE TypeOK'
    <2>1. Head(link[u]) \in Pid /\ Tail(link[u]) \in Seq(Pid)
        BY <1>5, HeadInPid DEF Capture
    <2>2. pkt' \in [Pid -> PacketType]
        BY <1>5, <2>1, MovedType DEF Capture
    <2>3. link' \in [Port -> Seq(Pid)]
        BY <1>5, <2>1 DEF Capture, TypeOK
    <2> QED BY <1>5, <2>2, <2>3 DEF Capture, TypeOK, registers
<1>6. ASSUME NEW u \in Port, Lose(u) PROVE TypeOK'
    <2>1. Head(link[u]) \in Pid /\ Tail(link[u]) \in Seq(Pid)
        BY <1>6, HeadInPid DEF Lose
    <2>2. pkt' \in [Pid -> PacketType]
        BY <1>6, <2>1, MovedType DEF Lose
    <2>3. link' \in [Port -> Seq(Pid)]
        BY <1>6, <2>1 DEF Lose, TypeOK
    <2> QED BY <1>6, <2>2, <2>3 DEF Lose, TypeOK, registers
<1>7. ASSUME NEW i \in Pid, DropReport(i) PROVE TypeOK'
    <2>1. pkt' \in [Pid -> PacketType]
        BY <1>7, MovedType DEF DropReport
    <2> QED BY <1>7, <2>1 DEF DropReport, TypeOK, registers
<1>8. ASSUME NEW u \in Port, NEW v \in 0..1, WriteFault(u, v) PROVE TypeOK'
    BY <1>8 DEF WriteFault, TypeOK
<1>9. CASE UNCHANGED vars
    BY <1>9 DEF vars, TypeOK
<1>10. Target \subseteq Port
    BY ConstAssumption
<1> QED BY <1>1, <1>2, <1>3, <1>4, <1>5, <1>6, <1>7, <1>8, <1>9, <1>10 DEF Next

(* Every variable keeps its type: registers, clocks and headers stay within *)
(* the widths of headers.p4 for every topology and traffic.                 *)
THEOREM TypeCorrect == Spec => []TypeOK
  BY InitTypeOK, NextTypeOK, PTL DEF Spec

-----------------------------------------------------------------------------
(* A packet is in one place *)

LEMMA TailFacts ==
    ASSUME NEW S, NEW s \in Seq(S), s # <<>>
    PROVE  /\ Range(Tail(s)) \subseteq Range(s)
           /\ Distinct(s) => Distinct(Tail(s)) /\ Head(s) \notin Range(Tail(s))
<1>1. \A n \in DOMAIN Tail(s) : n \in Nat /\ n + 1 \in DOMAIN s /\ Tail(s)[n] = s[n + 1]
    OBVIOUS
<1>2. Head(s) = s[1] /\ 1 \in DOMAIN s
    OBVIOUS
<1>3. ASSUME Distinct(s), NEW m \in DOMAIN Tail(s), NEW n \in DOMAIN Tail(s), Tail(s)[m] = Tail(s)[n]
      PROVE  m = n
    BY <1>1, <1>3 DEF Distinct
<1>4. ASSUME Distinct(s), NEW n \in DOMAIN Tail(s)
      PROVE  Tail(s)[n] # Head(s)
    BY <1>1, <1>2, <1>4 DEF Distinct
<1> QED BY <1>1, <1>3, <1>4 DEF Distinct, Range

LEMMA AppendFacts ==
    ASSUME NEW S, NEW s \in Seq(S), NEW x \in S
    PROVE  /\ Range(Append(s, x)) = Range(s) \cup {x}
           /\ Distinct(s) /\ x \notin Range(s) => Distinct(Append(s, x))
<1>1. \A n \in DOMAIN Append(s, x) :
         \/ n \in DOMAIN s /\ Append(s, x)[n] = s[n]
         \/ n = Len(s) + 1 /\ Append(s, x)[n] = x
    OBVIOUS
<1>2. \A n \in DOMAIN s : n \in DOMAIN Append(s, x) /\ Append(s, x)[n] = s[n]
    OBVIOUS
<1>3. Len(s) + 1 \in DOMAIN Append(s, x) /\ Append(s, x)[Len(s) + 1] = x
    OBVIOUS
<1> QED BY <1>1, <1>2, <1>3 DEF Distinct, Range

LEMMA InitInPlace == Init => InPlace
<1> SUFFICES ASSUME Init PROVE InPlace
    OBVIOUS
<1>1. \A i \in Pid : Progress(i)
    <2> TAKE i \in Pid
    <2>1. pkt[i].hop = 0 /\ pkt[i].hist = <<>> /\ Path(i) \in Seq(Port)
        BY InitTypeOK, RouteFacts DEF Init, NoHeader, Path, TypeOK, PacketType
    <2> QED BY <2>1 DEF Progress
<1> QED BY <1>1 DEF Init, InPlace, Distinct, Range

\* What a step does to a packet it does not touch, and to the queues and links.
LEMMA Untouched ==
    ASSUME NEW j, pkt'[j] = pkt[j]
    PROVE  /\ Path(j)' = Path(j)
           /\ \A u : Queued(j, u)' <=> Queued(j, u)
           /\ \A u : OnLink(j, u)' <=> OnLink(j, u)
           /\ Progress(j)' <=> Progress(j)
  BY DEF Path, NextPort, Queued, OnLink, Progress

QueuesInPlace ==
    \A u \in Port : Distinct(queue[u]) /\ \A i \in Range(queue[u]) : Queued(i, u)
LinksInPlace ==
    \A u \in Port : Distinct(link[u]) /\ \A i \in Range(link[u]) : OnLink(i, u)

LEMMA InPids ==
    ASSUME TypeOK, NEW u \in Port
    PROVE  /\ queue[u] \in Seq(Pid) /\ Range(queue[u]) \subseteq Pid
           /\ link[u] \in Seq(Pid) /\ Range(link[u]) \subseteq Pid
           /\ queue[u] # <<>> => Head(queue[u]) \in Range(queue[u])
           /\ link[u] # <<>> => Head(link[u]) \in Range(link[u])
  BY HeadInPid DEF TypeOK, Range

\* Taking the head packet off a link, wherever it goes.
LEMMA LinkPop ==
    ASSUME TypeOK, InPlace, NEW u \in Port, link[u] # <<>>,
           NEW s \in {"queued", "captured", "lost"},
           pkt' = [pkt EXCEPT ![Head(link[u])].st = s],
           link' = [link EXCEPT ![u] = Tail(@)]
    PROVE  /\ Head(link[u]) \in Pid /\ OnLink(Head(link[u]), u)
           /\ \A j \in Pid : j # Head(link[u]) => pkt'[j] = pkt[j]
           /\ pkt'[Head(link[u])] = [pkt[Head(link[u])] EXCEPT !.st = s]
           /\ \A j \in Pid : Progress(j)'
           /\ LinksInPlace'
           /\ \A w \in Port : \A j \in Range(queue[w]) :
                 j # Head(link[u]) /\ Queued(j, w)'
<1> DEFINE i == Head(link[u])
<1>1. i \in Pid /\ i \in Range(link[u])
    BY InPids
<1>2. OnLink(i, u)
    BY <1>1 DEF InPlace
<1>3. \A j \in Pid : j # i => pkt'[j] = pkt[j]
    BY <1>1 DEF TypeOK
<1>4. pkt'[i] = [pkt[i] EXCEPT !.st = s] /\ pkt[i] \in PacketType
    BY <1>1 DEF TypeOK
<1> HIDE DEF i
<1>5. ASSUME NEW j \in Pid PROVE Progress(j)'
    <2>1. Progress(j)
        BY DEF InPlace
    <2>2. CASE j # i
        BY <2>1, <2>2, <1>3, Untouched
    <2>3. CASE j = i
        BY <2>1, <2>3, <1>4 DEF Progress, Path, PacketType
    <2> QED BY <2>2, <2>3
<1>6. ASSUME NEW w \in Port
      PROVE  Distinct(link'[w]) /\ \A j \in Range(link'[w]) : OnLink(j, w)'
    <2>1. Distinct(link[w]) /\ \A j \in Range(link[w]) : j \in Pid /\ OnLink(j, w)
        BY InPids DEF InPlace
    <2>2. CASE w # u
        <3>1. link'[w] = link[w]
            BY <2>2 DEF TypeOK
        <3>2. i \notin Range(link[w])
            BY <1>2, <2>1, <2>2 DEF OnLink
        <3> QED BY <1>3, <2>1, <3>1, <3>2, Untouched
    <2>3. CASE w = u
        <3>1. link'[u] = Tail(link[u])
            BY DEF TypeOK
        <3>2. /\ Distinct(Tail(link[u])) /\ i \notin Range(Tail(link[u]))
              /\ Range(Tail(link[u])) \subseteq Range(link[u])
            BY InPids, <2>1, <2>3, TailFacts DEF i
        <3> QED BY <1>3, <2>1, <2>3, <3>1, <3>2, Untouched
    <2> QED BY <2>2, <2>3
<1>7. LinksInPlace'
    BY <1>6 DEF LinksInPlace, Distinct
<1>8. ASSUME NEW w \in Port, NEW j \in Range(queue[w])
      PROVE  j # i /\ Queued(j, w)'
    <2>1. j \in Pid /\ Queued(j, w)
        BY InPids DEF InPlace
    <2>2. j # i
        BY <1>2, <2>1 DEF OnLink, Queued
    <2> QED BY <1>3, <2>1, <2>2, Untouched
<1> QED BY <1>1, <1>2, <1>3, <1>4, <1>5, <1>7, <1>8 DEF i

\* Appending a packet to a queue it belongs to and is not in.
LEMMA QueuePush ==
    ASSUME TypeOK, InPlace, NEW i \in Pid, NEW u \in Port,
           queue' = [queue EXCEPT ![u] = Append(@, i)],
           Queued(i, u)',
           \A w \in Port : \A j \in Range(queue[w]) : j # i /\ Queued(j, w)'
    PROVE  QueuesInPlace'
<1>1. ASSUME NEW w \in Port
      PROVE  Distinct(queue'[w]) /\ \A j \in Range(queue'[w]) : Queued(j, w)'
    <2>1. Distinct(queue[w]) /\ queue[w] \in Seq(Pid)
        BY InPids DEF InPlace
    <2>2. CASE w # u
        <3>1. queue'[w] = queue[w]
            BY <2>2 DEF TypeOK
        <3> QED BY <2>1, <3>1
    <2>3. CASE w = u
        <3>1. queue'[u] = Append(queue[u], i)
            BY DEF TypeOK
        <3>2. Distinct(queue'[u]) /\ Range(queue'[u]) = Range(queue[u]) \cup {i}
            BY <2>1, <2>3, <3>1, AppendFacts
        <3> QED BY <2>3, <3>2
    <2> QED BY <2>2, <2>3
<1> QED BY <1>1 DEF QueuesInPlace, Distinct

\* A packet that is in no queue and on no link can change without disturbing them.
LEMMA Elsewhere ==
    ASSUME TypeOK, InPlace, NEW i \in Pid, pkt[i].st \notin {"queued", "link"},
           \A j \in Pid : j # i => pkt'[j] = pkt[j]
    PROVE  /\ \A w \in Port : \A j \in Range(queue[w]) : j # i /\ Queued(j, w)'
           /\ \A w \in Port : \A j \in Range(link[w]) : OnLink(j, w)'
           /\ \A j \in Pid : j # i => Progress(j)'
<1>1. ASSUME NEW w \in Port, NEW j \in Range(queue[w]) PROVE j # i /\ Queued(j, w)'
    <2>1. j \in Pid /\ Queued(j, w)
        BY InPids DEF InPlace
    <2> QED BY <2>1, Untouched DEF Queued
<1>2. ASSUME NEW w \in Port, NEW j \in Range(link[w]) PROVE OnLink(j, w)'
    <2>1. j \in Pid /\ OnLink(j, w)
        BY InPids DEF InPlace
    <2> QED BY <2>1, Untouched DEF OnLink
<1>3. ASSUME NEW j \in Pid, j # i PROVE Progress(j)'
    BY <1>3, Untouched DEF InPlace
<1> QED BY <1>1, <1>2, <1>3

\* The packet an egress pass processes, and what the pass makes of it.
LEMMA EgressFacts ==
    ASSUME TypeOK, InPlace, NEW u \in Port, EgressHop(u),
           NEW i, i = Head(queue[u])
    PROVE  /\ i \in Pid /\ i \in Range(queue[u]) /\ Queued(i, u)
           /\ pkt[i] \in PacketType /\ Stamped(pkt[i], u) \in PacketType
           /\ \A j \in Pid : j # i => pkt'[j] = pkt[j]
           /\ \E v \in LocalType :
                /\ pkt'[i] = Merged(Stamped(pkt[i], u), u, v)
                /\ v.bool[FAIL] = IF u \in Installed THEN r_fault[Cell(u)] ELSE 0
<1> DEFINE p == Stamped(pkt[i], u)
           n == PacketLength(p)
<1>1. /\ i \in Pid /\ i \in Range(queue[u]) /\ Len(queue[u]) - 1 \in Nat
    BY HeadInPid, InPids DEF EgressHop
<1>2. Queued(i, u)
    BY <1>1 DEF InPlace
<1>3. pkt[i] \in PacketType /\ p \in PacketType
    BY <1>1, StampedType DEF TypeOK
<1>4. n \in Nat /\ p.epoch \in 0..(EpochMod - 1)
    BY <1>3, LengthType DEF PacketType
<1>5. \E x \in OtherTraffic :
         pkt' = [pkt EXCEPT ![i] =
                   Merged(p, u, LocalValues(u, p.epoch, n, Len(queue[u]) - 1 + x))]
    BY DEF EgressHop
<1> HIDE DEF p, n
<1>6. PICK x \in OtherTraffic :
         pkt' = [pkt EXCEPT ![i] =
                   Merged(p, u, LocalValues(u, p.epoch, n, Len(queue[u]) - 1 + x))]
    BY <1>5
<1> DEFINE v == LocalValues(u, p.epoch, n, Len(queue[u]) - 1 + x)
<1>7. v \in LocalType
    <2>1. Len(queue[u]) - 1 + x \in Nat
        BY <1>1, ConstAssumption
    <2> QED BY <1>4, <2>1, LocalValuesType
<1>8. v.bool[FAIL] = IF u \in Installed THEN r_fault[Cell(u)] ELSE 0
    BY DEF LocalValues
<1>9. pkt'[i] = Merged(p, u, v) /\ \A j \in Pid : j # i => pkt'[j] = pkt[j]
    BY <1>1, <1>6 DEF TypeOK
<1> HIDE DEF v
<1> QED BY <1>1, <1>2, <1>3, <1>7, <1>8, <1>9 DEF p

\* What an egress pass leaves of a packet's header.
LEMMA EgressPacket ==
    ASSUME TypeOK, NEW i \in Pid, NEW u \in Port, NEW v \in LocalType,
           pkt'[i] = Merged(Stamped(pkt[i], u), u, v)
    PROVE  /\ pkt'[i].st = "link" /\ pkt'[i].hop = pkt[i].hop + 1
           /\ pkt'[i].flow = pkt[i].flow /\ Path(i)' = Path(i)
           /\ pkt'[i].hist = Append(pkt[i].hist, v)
<1>1. pkt[i] \in PacketType
    BY DEF TypeOK
<1>2. Stamped(pkt[i], u) \in PacketType
    BY <1>1, StampedType
<1>3. /\ Stamped(pkt[i], u).flow = pkt[i].flow /\ Stamped(pkt[i], u).hop = pkt[i].hop
      /\ Stamped(pkt[i], u).hist = pkt[i].hist
    BY <1>1, StampedType
<1>4. /\ pkt'[i].st = "link" /\ pkt'[i].hop = pkt[i].hop + 1 /\ pkt'[i].flow = pkt[i].flow
      /\ pkt'[i].hist = Append(pkt[i].hist, v)
    BY <1>2, <1>3, MergedType
<1> QED BY <1>4 DEF Path

LEMMA EgressInPlace ==
    ASSUME TypeOK, InPlace, NEW u \in Port, EgressHop(u)
    PROVE  InPlace'
<1>1. PICK i : i = Head(queue[u])
    OBVIOUS
<1>2. /\ i \in Pid /\ i \in Range(queue[u]) /\ Queued(i, u) /\ pkt[i] \in PacketType
      /\ \A j \in Pid : j # i => pkt'[j] = pkt[j]
      /\ \E v \in LocalType : pkt'[i] = Merged(Stamped(pkt[i], u), u, v)
    BY <1>1, EgressFacts
<1>3. /\ queue' = [queue EXCEPT ![u] = Tail(@)] /\ link' = [link EXCEPT ![u] = Append(@, i)]
      /\ queue[u] # <<>>
    BY <1>1 DEF EgressHop
<1>4. PICK v \in LocalType : pkt'[i] = Merged(Stamped(pkt[i], u), u, v)
    BY <1>2
<1>5. /\ pkt'[i].st = "link" /\ pkt'[i].hop = pkt[i].hop + 1
      /\ Path(i)' = Path(i) /\ pkt'[i].hist = Append(pkt[i].hist, v)
    BY <1>2, <1>4, EgressPacket
<1>6. Progress(i) /\ pkt[i].hop \in Nat /\ pkt[i].hist \in Seq(LocalType)
    BY <1>2 DEF InPlace, PacketType
<1>7. Len(Path(i)) \in Nat
    BY <1>2, RouteFacts DEF Path, PacketType
<1>8. pkt[i].st = "queued" /\ pkt[i].hop < Len(Path(i)) /\ Path(i)[pkt[i].hop + 1] = u
    BY <1>2 DEF Queued, NextPort
<1>9. Progress(i)'
    <2>1. Len(pkt'[i].hist) = pkt[i].hop + 1
        BY <1>5, <1>6 DEF Progress
    <2>2. pkt'[i].hop <= Len(Path(i)') /\ Len(pkt'[i].hist) = pkt'[i].hop /\ pkt'[i].st # "unsent"
        BY <1>5, <1>6, <1>7, <1>8, <2>1
    <2> QED BY <2>2 DEF Progress
<1>10. OnLink(i, u)'
    <2>1. pkt'[i].st = "link" /\ pkt'[i].hop > 0 /\ Path(i)'[pkt'[i].hop] = u
        BY <1>5, <1>6, <1>8
    <2> QED BY <2>1 DEF OnLink
<1>11. ASSUME NEW w \in Port
       PROVE  Distinct(queue'[w]) /\ \A j \in Range(queue'[w]) : Queued(j, w)'
    <2>1. /\ Distinct(queue[w]) /\ queue[w] \in Seq(Pid)
          /\ \A j \in Range(queue[w]) : j \in Pid /\ Queued(j, w)
        BY InPids DEF InPlace
    <2>2. CASE w # u
        <3>1. queue'[w] = queue[w]
            BY <1>3, <2>2 DEF TypeOK
        <3>2. i \notin Range(queue[w])
            BY <1>2, <2>1, <2>2 DEF Queued
        <3> QED BY <1>2, <2>1, <3>1, <3>2, Untouched
    <2>3. CASE w = u
        <3>1. queue'[u] = Tail(queue[u])
            BY <1>3 DEF TypeOK
        <3>2. /\ Distinct(Tail(queue[u])) /\ i \notin Range(Tail(queue[u]))
              /\ Range(Tail(queue[u])) \subseteq Range(queue[u])
            BY <1>1, <1>3, <2>1, <2>3, TailFacts
        <3> QED BY <1>2, <2>1, <2>3, <3>1, <3>2, Untouched
    <2> QED BY <2>2, <2>3
<1>12. ASSUME NEW w \in Port
       PROVE  Distinct(link'[w]) /\ \A j \in Range(link'[w]) : OnLink(j, w)'
    <2>1. /\ Distinct(link[w]) /\ link[w] \in Seq(Pid)
          /\ \A j \in Range(link[w]) : j \in Pid /\ OnLink(j, w)
        BY InPids DEF InPlace
    <2>2. i \notin Range(link[w])
        BY <1>8, <2>1 DEF OnLink
    <2>3. \A j \in Range(link[w]) : OnLink(j, w)'
        BY <1>2, <2>1, <2>2, Untouched
    <2>4. CASE w # u
        <3>1. link'[w] = link[w]
            BY <1>3, <2>4 DEF TypeOK
        <3> QED BY <2>1, <2>3, <3>1
    <2>5. CASE w = u
        <3>1. link'[u] = Append(link[u], i)
            BY <1>3 DEF TypeOK
        <3>2. Distinct(link'[u]) /\ Range(link'[u]) = Range(link[u]) \cup {i}
            BY <1>2, <2>1, <2>2, <2>5, <3>1, AppendFacts
        <3> QED BY <1>10, <2>3, <2>5, <3>2
    <2> QED BY <2>4, <2>5
<1>13. ASSUME NEW j \in Pid PROVE Progress(j)'
    BY <1>2, <1>9, Untouched DEF InPlace
<1> QED BY <1>11, <1>12, <1>13 DEF InPlace, Distinct

LEMMA NextInPlace == TypeOK /\ InPlace /\ [Next]_vars => InPlace'
<1> SUFFICES ASSUME TypeOK, InPlace, [Next]_vars PROVE InPlace'
    OBVIOUS
<1>1. QueuesInPlace /\ LinksInPlace /\ \A j \in Pid : Progress(j)
    BY DEF InPlace, QueuesInPlace, LinksInPlace
<1>2. ASSUME UNCHANGED <<pkt, queue, link>> PROVE InPlace'
    BY <1>2 DEF InPlace, Progress, Queued, OnLink, Path, NextPort, Distinct
<1>3. ASSUME NEW s \in Source, Tick(s) PROVE InPlace'
    BY <1>2, <1>3 DEF Tick
<1>4. ASSUME NEW u \in Port, NEW v \in 0..1, WriteFault(u, v) PROVE InPlace'
    BY <1>2, <1>4 DEF WriteFault
<1>5. ASSUME NEW i \in Pid, NEW f \in Flow, SourceIngress(i, f) PROVE InPlace'
    <2>1. PICK u \in Port : u = Route[f][1]
        BY RouteFacts
    <2>2. /\ pkt[i].st = "unsent" /\ queue' = [queue EXCEPT ![u] = Append(@, i)]
          /\ link' = link
        BY <1>5, <2>1 DEF SourceIngress
    <2>3. /\ pkt'[i].st = "queued" /\ pkt'[i].flow = f /\ pkt'[i].hop = pkt[i].hop
          /\ pkt'[i].hist = pkt[i].hist
          /\ \A j \in Pid : j # i => pkt'[j] = pkt[j]
        <3>1. pkt[i] \in PacketType
            BY DEF TypeOK
        <3> QED BY <1>5, <3>1 DEF SourceIngress, TypeOK, PacketType
    <2>4. Progress(i) /\ pkt[i].hop = 0
        BY <1>1, <2>2 DEF Progress
    <2>5. Path(i)' = Route[f] /\ Len(Route[f]) \in Nat \ {0}
        BY <2>3, RouteFacts DEF Path
    <2>6. Queued(i, u)'
        <3>1. pkt'[i].st = "queued" /\ pkt'[i].hop < Len(Path(i)') /\ Path(i)'[pkt'[i].hop + 1] = u
            BY <2>1, <2>3, <2>4, <2>5
        <3> QED BY <3>1 DEF Queued, NextPort
    <2>7. Progress(i)'
        <3>1. pkt'[i].hop <= Len(Path(i)') /\ Len(pkt'[i].hist) = pkt'[i].hop
            BY <2>3, <2>4, <2>5 DEF Progress
        <3> QED BY <2>3, <3>1 DEF Progress
    <2>8. /\ \A w \in Port : \A j \in Range(queue[w]) : j # i /\ Queued(j, w)'
          /\ \A w \in Port : \A j \in Range(link[w]) : OnLink(j, w)'
          /\ \A j \in Pid : j # i => Progress(j)'
        BY <2>2, <2>3, Elsewhere
    <2>9. QueuesInPlace'
        BY <2>2, <2>6, <2>8, QueuePush
    <2>10. LinksInPlace'
        BY <1>1, <2>2, <2>8 DEF LinksInPlace, Distinct
    <2> QED BY <2>7, <2>8, <2>9, <2>10 DEF InPlace, QueuesInPlace, LinksInPlace
<1>6. ASSUME NEW u \in Port, EgressHop(u) PROVE InPlace'
    BY <1>6, EgressInPlace
<1>7. ASSUME NEW u \in Port, Ingress(u) PROVE InPlace'
    <2>1. PICK i : i = Head(link[u])
        OBVIOUS
    <2>2. /\ link[u] # <<>> /\ pkt[i].hop < Len(Path(i))
          /\ pkt' = [pkt EXCEPT ![i].st = "queued"]
          /\ link' = [link EXCEPT ![u] = Tail(@)]
          /\ queue' = [queue EXCEPT ![NextPort(i)] = Append(@, i)]
        BY <1>7, <2>1 DEF Ingress
    <2>3. /\ i \in Pid /\ pkt'[i] = [pkt[i] EXCEPT !.st = "queued"]
          /\ LinksInPlace' /\ \A j \in Pid : Progress(j)'
          /\ \A w \in Port : \A j \in Range(queue[w]) : j # i /\ Queued(j, w)'
        BY <2>1, <2>2, LinkPop
    <2>4. /\ pkt'[i].st = "queued" /\ pkt'[i].hop = pkt[i].hop /\ pkt'[i].flow = pkt[i].flow
          /\ pkt[i].hop \in Nat /\ pkt[i].flow \in Flow
        <3>1. pkt[i] \in PacketType
            BY <2>3 DEF TypeOK
        <3> QED BY <2>3, <3>1 DEF PacketType
    <2>5. PICK w \in Port : w = NextPort(i)
        BY <2>2, <2>4, RouteFacts DEF NextPort, Path
    <2>6. Queued(i, w)'
        BY <2>2, <2>4, <2>5 DEF Queued, NextPort, Path
    <2>7. QueuesInPlace'
        BY <2>2, <2>3, <2>5, <2>6, QueuePush
    <2> QED BY <2>3, <2>7 DEF InPlace, QueuesInPlace, LinksInPlace
<1>8. ASSUME NEW u \in Port, Capture(u) \/ Lose(u) PROVE InPlace'
    <2>1. PICK s \in {"queued", "captured", "lost"} :
             /\ pkt' = [pkt EXCEPT ![Head(link[u])].st = s] /\ link[u] # <<>>
             /\ link' = [link EXCEPT ![u] = Tail(@)] /\ queue' = queue
        BY <1>8 DEF Capture, Lose
    <2>2. /\ LinksInPlace' /\ \A j \in Pid : Progress(j)'
          /\ \A w \in Port : \A j \in Range(queue[w]) : Queued(j, w)'
        BY <2>1, LinkPop
    <2>3. QueuesInPlace'
        BY <1>1, <2>1, <2>2 DEF QueuesInPlace, Distinct
    <2> QED BY <2>2, <2>3 DEF InPlace, QueuesInPlace, LinksInPlace
<1>9. ASSUME NEW i \in Pid, DropReport(i) PROVE InPlace'
    <2>1. /\ pkt[i].st = "captured" /\ pkt' = [pkt EXCEPT ![i].st = "lost"]
          /\ queue' = queue /\ link' = link
        BY <1>9 DEF DropReport
    <2>2. /\ \A j \in Pid : j # i => pkt'[j] = pkt[j]
          /\ pkt'[i] = [pkt[i] EXCEPT !.st = "lost"] /\ pkt[i] \in PacketType
        BY <2>1 DEF TypeOK
    <2>3. Progress(i)'
        BY <1>1, <2>2 DEF Progress, Path, PacketType
    <2>4. /\ \A w \in Port : \A j \in Range(queue[w]) : Queued(j, w)'
          /\ \A w \in Port : \A j \in Range(link[w]) : OnLink(j, w)'
          /\ \A j \in Pid : j # i => Progress(j)'
        BY <2>1, <2>2, Elsewhere
    <2> QED BY <1>1, <2>1, <2>3, <2>4 DEF InPlace, QueuesInPlace, LinksInPlace, Distinct
<1>10. CASE UNCHANGED vars
    BY <1>2, <1>10 DEF vars
<1>11. Target \subseteq Port
    BY ConstAssumption
<1> QED BY <1>3, <1>4, <1>5, <1>6, <1>7, <1>8, <1>9, <1>10, <1>11 DEF Next

(* No report is processed twice by a port, or by a port off its route.      *)
THEOREM AlwaysInPlace == Spec => []InPlace
<1>1. TypeOK /\ TypeOK' /\ InPlace /\ [Next]_vars => InPlace'
    BY NextInPlace
<1> QED BY <1>1, InitInPlace, TypeCorrect, PTL DEF Spec

-----------------------------------------------------------------------------
(* The boolean syndrome of a packet *)

Syndrome(i) ==
    \A b \in Metric, r \in Round :
        Bit(b, r) \in pkt[i].bsynd
          <=> \E k \in 1..pkt[i].hop :
                 /\ Gate(pkt[i].tid, pkt[i].epoch, Path(i)[k], b, r)
                 /\ pkt[i].hist[k].bool[b] = 1

LEMMA InitSyndrome == Init => SyndromeIsPool
<1> SUFFICES ASSUME Init PROVE SyndromeIsPool
    OBVIOUS
<1>1. \A i \in Pid : pkt[i].hop = 0 /\ pkt[i].bsynd = {}
    BY DEF Init, NoHeader
<1> QED BY <1>1 DEF SyndromeIsPool

\* A packet whose header stays as it is keeps its tests.
LEMMA SyndromeKept ==
    ASSUME NEW i, Syndrome(i),
           pkt'[i].hop = pkt[i].hop, pkt'[i].bsynd = pkt[i].bsynd,
           pkt'[i].tid = pkt[i].tid, pkt'[i].epoch = pkt[i].epoch,
           pkt'[i].flow = pkt[i].flow, pkt'[i].hist = pkt[i].hist
    PROVE  Syndrome(i)'
  BY DEF Syndrome, Path

LEMMA MovedSyndrome ==
    ASSUME TypeOK, SyndromeIsPool, NEW i \in Pid, NEW s,
           pkt' = [pkt EXCEPT ![i].st = s]
    PROVE  SyndromeIsPool'
<1>1. ASSUME NEW j \in Pid PROVE Syndrome(j)'
    <2>1. Syndrome(j) /\ pkt[j] \in PacketType
        BY DEF SyndromeIsPool, Syndrome, TypeOK
    <2>2. pkt'[j] = pkt[j] \/ pkt'[j] = [pkt[j] EXCEPT !.st = s]
        BY DEF TypeOK
    <2> QED BY <2>1, <2>2, SyndromeKept DEF PacketType
<1> QED BY <1>1 DEF SyndromeIsPool, Syndrome

\* One egress pass adds the port's own outcome to each test it is a member of.
LEMMA EgressSyndrome ==
    ASSUME TypeOK, InPlace, SyndromeIsPool, NEW u \in Port, EgressHop(u)
    PROVE  SyndromeIsPool'
<1>1. PICK i : i = Head(queue[u])
    OBVIOUS
<1>2. /\ i \in Pid /\ Queued(i, u) /\ pkt[i] \in PacketType
      /\ Stamped(pkt[i], u) \in PacketType
      /\ \A j \in Pid : j # i => pkt'[j] = pkt[j]
      /\ \E v \in LocalType : pkt'[i] = Merged(Stamped(pkt[i], u), u, v)
    BY <1>1, EgressFacts
<1>3. PICK v \in LocalType : pkt'[i] = Merged(Stamped(pkt[i], u), u, v)
    BY <1>2
<1>4. PICK p \in PacketType : p = Stamped(pkt[i], u)
    BY <1>2
<1>5. /\ pkt'[i].hop = pkt[i].hop + 1 /\ Path(i)' = Path(i)
      /\ pkt'[i].hist = Append(pkt[i].hist, v)
    BY <1>2, <1>3, EgressPacket
<1>6. /\ pkt'[i].tid = p.tid /\ pkt'[i].epoch = p.epoch
      /\ \A b \in Metric, r \in Round :
            Bit(b, r) \in pkt'[i].bsynd
              <=> \/ Bit(b, r) \in p.bsynd
                  \/ Gate(p.tid, p.epoch, u, b, r) /\ v.bool[b] = 1
    BY <1>3, <1>4, MergedType
<1>7. /\ pkt[i].hop > 0 => p = pkt[i]
      /\ pkt[i].hop = 0 => p.bsynd = {}
    BY <1>2, <1>4, StampedType
<1>8. /\ pkt[i].hop \in Nat /\ pkt[i].hist \in Seq(LocalType) /\ Len(pkt[i].hist) = pkt[i].hop
      /\ Path(i)[pkt[i].hop + 1] = u
    BY <1>2 DEF PacketType, InPlace, Progress, Queued, NextPort
<1>9. /\ \A k \in 1..pkt[i].hop : pkt'[i].hist[k] = pkt[i].hist[k]
      /\ pkt'[i].hist[pkt[i].hop + 1] = v
    BY <1>5, <1>8
<1>10. ASSUME NEW b \in Metric, NEW r \in Round
       PROVE  Bit(b, r) \in p.bsynd
                <=> \E k \in 1..pkt[i].hop :
                       /\ Gate(p.tid, p.epoch, Path(i)[k], b, r)
                       /\ pkt[i].hist[k].bool[b] = 1
    <2>1. CASE pkt[i].hop = 0
        BY <1>7, <2>1
    <2>2. CASE pkt[i].hop > 0
        BY <1>2, <1>7, <2>2 DEF SyndromeIsPool
    <2> QED BY <1>8, <2>1, <2>2
<1>11. ASSUME NEW b \in Metric, NEW r \in Round
       PROVE  Bit(b, r) \in pkt'[i].bsynd
                <=> \E k \in 1..(pkt[i].hop + 1) :
                       /\ Gate(p.tid, p.epoch, Path(i)[k], b, r)
                       /\ pkt'[i].hist[k].bool[b] = 1
    <2> DEFINE Hit(k) == /\ Gate(p.tid, p.epoch, Path(i)[k], b, r)
                         /\ pkt'[i].hist[k].bool[b] = 1
    <2>1. Hit(pkt[i].hop + 1) <=> Gate(p.tid, p.epoch, u, b, r) /\ v.bool[b] = 1
        BY <1>8, <1>9
    <2>2. (\E k \in 1..pkt[i].hop : Hit(k)) <=> Bit(b, r) \in p.bsynd
        BY <1>9, <1>10
    <2>3. Bit(b, r) \in pkt'[i].bsynd
             <=> (\E k \in 1..pkt[i].hop : Hit(k)) \/ Hit(pkt[i].hop + 1)
        BY <1>6, <2>1, <2>2
    <2> HIDE DEF Hit
    <2>4. 1..(pkt[i].hop + 1) = 1..pkt[i].hop \cup {pkt[i].hop + 1}
        BY <1>8
    <2>5. Bit(b, r) \in pkt'[i].bsynd <=> \E k \in 1..(pkt[i].hop + 1) : Hit(k)
        BY <2>3, <2>4
    <2> QED BY <2>5 DEF Hit
<1>12. Syndrome(i)'
    BY <1>5, <1>6, <1>11 DEF Syndrome
<1>13. ASSUME NEW j \in Pid, j # i PROVE Syndrome(j)'
    BY <1>2, <1>13, SyndromeKept DEF SyndromeIsPool, Syndrome
<1> QED BY <1>12, <1>13 DEF SyndromeIsPool, Syndrome

LEMMA NextSyndrome == TypeOK /\ InPlace /\ SyndromeIsPool /\ [Next]_vars => SyndromeIsPool'
<1> SUFFICES ASSUME TypeOK, InPlace, SyndromeIsPool, [Next]_vars PROVE SyndromeIsPool'
    OBVIOUS
<1>1. ASSUME pkt' = pkt PROVE SyndromeIsPool'
    BY <1>1 DEF SyndromeIsPool, Path
<1>2. ASSUME NEW s \in Source, Tick(s) PROVE SyndromeIsPool'
    BY <1>1, <1>2 DEF Tick
<1>3. ASSUME NEW u \in Port, NEW v \in 0..1, WriteFault(u, v) PROVE SyndromeIsPool'
    BY <1>1, <1>3 DEF WriteFault
<1>4. ASSUME NEW i \in Pid, NEW f \in Flow, SourceIngress(i, f) PROVE SyndromeIsPool'
    <2>1. pkt[i].hop = 0 /\ pkt[i] \in PacketType
        BY <1>4 DEF SourceIngress, InPlace, Progress, TypeOK
    <2>2. /\ pkt'[i].hop = 0 /\ pkt'[i].bsynd = pkt[i].bsynd
          /\ \A j \in Pid : j # i => pkt'[j] = pkt[j]
        BY <1>4, <2>1 DEF SourceIngress, TypeOK, PacketType
    <2>3. Syndrome(i)'
        BY <2>1, <2>2 DEF SyndromeIsPool, Syndrome
    <2>4. ASSUME NEW j \in Pid, j # i PROVE Syndrome(j)'
        BY <2>2, <2>4, SyndromeKept DEF SyndromeIsPool, Syndrome
    <2> QED BY <2>3, <2>4 DEF SyndromeIsPool, Syndrome
<1>5. ASSUME NEW u \in Port, EgressHop(u) PROVE SyndromeIsPool'
    BY <1>5, EgressSyndrome
<1>6. ASSUME NEW u \in Port, Ingress(u) \/ Capture(u) \/ Lose(u) PROVE SyndromeIsPool'
    <2>1. PICK s : pkt' = [pkt EXCEPT ![Head(link[u])].st = s] /\ link[u] # <<>>
        BY <1>6 DEF Ingress, Capture, Lose
    <2>2. Head(link[u]) \in Pid
        BY <2>1, HeadInPid
    <2> QED BY <2>1, <2>2, MovedSyndrome
<1>7. ASSUME NEW i \in Pid, DropReport(i) PROVE SyndromeIsPool'
    BY <1>7, MovedSyndrome DEF DropReport
<1>8. CASE UNCHANGED vars
    BY <1>1, <1>8 DEF vars
<1>9. Target \subseteq Port
    BY ConstAssumption
<1> QED BY <1>2, <1>3, <1>4, <1>5, <1>6, <1>7, <1>8, <1>9 DEF Next

(* In every run a boolean syndrome bit is the outcome of one pooled test    *)
(* over exactly the ports the collector recomputes as its members: what     *)
(* poolint.p4:204-213 writes is what m3a_aggregate.py:136-141 reads.        *)
THEOREM SyndromeAlwaysPool == Spec => []SyndromeIsPool
<1>1. TypeOK /\ InPlace /\ SyndromeIsPool /\ [Next]_vars => SyndromeIsPool'
    BY NextSyndrome
<1> QED BY <1>1, InitSyndrome, TypeCorrect, AlwaysInPlace, PTL DEF Spec

-----------------------------------------------------------------------------
(* dbg_path: shifting switch by switch, and packing the replayed route *)

\* The switches PackPath keeps of the first n hops of p.
Kept(p, n) == IF n > PathHops THEN PathHops ELSE n

LEMMA SwitchIdType ==
    ASSUME NEW u \in Port
    PROVE  SwitchId(u) \in Nat
<1>1. u \in Nat /\ 256 \in Nat \ {0}
    BY ConstAssumption
<1> QED BY <1>1, DivType DEF SwitchId

LEMMA PackPathIs ==
    ASSUME NEW p \in Seq(Port), NEW n \in 0..Len(p)
    PROVE  PackPath(SubSeq(p, 1, n)) = [k \in 1..Kept(p, n) |-> SwitchId(p[n - Kept(p, n) + k])]
<1>1. n \in Nat /\ PathHops \in Nat \ {0}
    BY ConstAssumption
<1>2. /\ SubSeq(p, 1, n) \in Seq(Port) /\ Len(SubSeq(p, 1, n)) = n
      /\ \A k \in 1..n : SubSeq(p, 1, n)[k] = p[k]
    BY <1>1
<1>3. \A k \in 1..Kept(p, n) : n - Kept(p, n) + k \in 1..n
    BY <1>1 DEF Kept
<1> DEFINE s == SubSeq(p, 1, n)
<1>4. PackPath(s) = [k \in 1..Kept(p, n) |-> SwitchId(s[n - Kept(p, n) + k])]
    BY <1>2 DEF PackPath, Kept
<1>5. \A k \in 1..Kept(p, n) : s[n - Kept(p, n) + k] = p[n - Kept(p, n) + k]
    BY <1>2, <1>3
<1> QED BY <1>4, <1>5

\* One more hop shifts in what PackPath packs for one more hop.
LEMMA ShiftIsPack ==
    ASSUME NEW p \in Seq(Port), NEW n \in 0..(Len(p) - 1)
    PROVE  Shifted(PackPath(SubSeq(p, 1, n)), SwitchId(p[n + 1])) = PackPath(SubSeq(p, 1, n + 1))
<1> DEFINE m == Kept(p, n)
           m1 == Kept(p, n + 1)
           s == PackPath(SubSeq(p, 1, n))
           t == PackPath(SubSeq(p, 1, n + 1))
           w == SwitchId(p[n + 1])
<1>1. /\ n \in Nat /\ PathHops \in Nat \ {0} /\ m \in Nat /\ m1 \in Nat
      /\ n \in 0..Len(p) /\ n + 1 \in 0..Len(p)
    BY ConstAssumption DEF Kept
<1>2. \A k \in 1..Len(p) : p[k] \in Port /\ SwitchId(p[k]) \in Nat
    <2> TAKE k \in 1..Len(p)
    <2>1. p[k] \in Port
        OBVIOUS
    <2> QED BY <2>1, SwitchIdType
<1>3. s = [k \in 1..m |-> SwitchId(p[n - m + k])]
    BY <1>1, PackPathIs
<1>4. t = [k \in 1..m1 |-> SwitchId(p[n + 1 - m1 + k])]
    BY <1>1, PackPathIs
<1>5. w \in Nat
    BY <1>1, <1>2
<1>6. /\ \A k \in 1..m : n - m + k \in 1..Len(p)
      /\ \A k \in 1..m1 : n + 1 - m1 + k \in 1..Len(p)
    BY <1>1 DEF Kept
<1>7. s \in Seq(Nat) /\ Len(s) = m
    <2>1. \A k \in 1..m : SwitchId(p[n - m + k]) \in Nat
        BY <1>2, <1>6
    <2> HIDE DEF m
    <2>2. s \in [1..m -> Nat]
        BY <1>3, <2>1
    <2>3. s \in Seq(Nat)
        BY <1>1, <2>2, SeqDef
    <2> QED BY <1>1, <2>2, <2>3, LenProperties
<1>8. t \in Seq(Nat) /\ Len(t) = m1
    <2>1. \A k \in 1..m1 : SwitchId(p[n + 1 - m1 + k]) \in Nat
        BY <1>2, <1>6
    <2> HIDE DEF m1
    <2>2. t \in [1..m1 -> Nat]
        BY <1>4, <2>1
    <2>3. t \in Seq(Nat)
        BY <1>1, <2>2, SeqDef
    <2> QED BY <1>1, <2>2, <2>3, LenProperties
<1>9. /\ \A k \in 1..m : s[k] = SwitchId(p[n - m + k])
      /\ \A k \in 1..m1 : t[k] = SwitchId(p[n + 1 - m1 + k])
    BY <1>3, <1>4
<1> HIDE DEF s, t
<1>10. CASE n < PathHops
    <2>1. m = n /\ m1 = n + 1
        BY <1>1, <1>10 DEF Kept
    <2>2. Shifted(s, w) = Append(s, w)
        BY <1>1, <1>5, <1>7, <1>10, <2>1 DEF Shifted
    <2>3. ASSUME NEW k \in 1..m1 PROVE Append(s, w)[k] = t[k]
        <3>1. t[k] = SwitchId(p[k])
            <4>1. n + 1 - m1 + k = k
                BY <1>1, <2>1
            <4> QED BY <1>9, <4>1
        <3>2. CASE k = n + 1
            BY <1>5, <1>7, <2>1, <3>1, <3>2
        <3>3. CASE k # n + 1
            <4>1. k \in 1..m /\ n - m + k = k
                BY <1>1, <2>1, <3>3
            <4>2. s[k] = SwitchId(p[k])
                BY <1>9, <4>1
            <4> QED BY <1>5, <1>7, <3>1, <4>1, <4>2
        <3> QED BY <3>2, <3>3
    <2>4. Append(s, w) \in Seq(Nat) /\ Len(Append(s, w)) = m1
        BY <1>5, <1>7, <2>1
    <2>5. Append(s, w) = t
        BY <1>8, <2>3, <2>4, SeqEqual
    <2> QED BY <2>2, <2>5 DEF s, t
<1>11. CASE n >= PathHops
    <2>1. m = PathHops /\ m1 = PathHops
        BY <1>1, <1>11 DEF Kept
    <2>2. /\ Append(s, w) \in Seq(Nat) /\ Len(Append(s, w)) = m + 1
          /\ \A k \in 1..m : Append(s, w)[k] = s[k]
          /\ Append(s, w)[m + 1] = w
        BY <1>5, <1>7
    <2>3. Shifted(s, w) = Tail(Append(s, w))
        BY <1>1, <2>1, <2>2 DEF Shifted
    <2>4. /\ Tail(Append(s, w)) \in Seq(Nat) /\ Len(Tail(Append(s, w))) = m
          /\ \A k \in 1..m : Tail(Append(s, w))[k] = Append(s, w)[k + 1]
        BY <1>1, <2>1, <2>2
    <2>5. ASSUME NEW k \in 1..m PROVE Append(s, w)[k + 1] = t[k]
        <3>1. CASE k < m
            <4>1. k + 1 \in 1..m /\ n - m + (k + 1) = n + 1 - m1 + k
                BY <1>1, <2>1, <3>1
            <4> QED BY <1>9, <2>1, <2>2, <4>1
        <3>2. CASE k = m
            <4>1. n + 1 - m1 + k = n + 1 /\ k + 1 = m + 1
                BY <1>1, <2>1, <3>2
            <4>2. t[k] = w
                BY <1>9, <2>1, <4>1
            <4>3. Append(s, w)[k + 1] = w
                BY <2>2, <4>1
            <4> QED BY <4>2, <4>3
        <3>3. k < m \/ k = m
            BY <1>1
        <3> QED BY <3>1, <3>2, <3>3
    <2>6. Tail(Append(s, w)) = t
        BY <1>8, <2>1, <2>4, <2>5, SeqEqual
    <2> QED BY <2>3, <2>6 DEF s, t
<1> QED BY <1>1, <1>10, <1>11

-----------------------------------------------------------------------------
(* What a step does to headers *)

LEMMA StampedHeader ==
    ASSUME NEW p \in PacketType, NEW u \in Port, p.hop = 0
    PROVE  /\ Stamped(p, u).dport = 0 /\ Stamped(p, u).dpath = <<>>
           /\ u \in Installed => Stamped(p, u).tid = r_testctr[Cell(u)] % TestIdMod
  BY DEF Stamped, Fresh, PacketType

LEMMA MergedHeader ==
    ASSUME NEW p \in PacketType, NEW u, NEW v
    PROVE  /\ Merged(p, u, v).tid = p.tid /\ Merged(p, u, v).epoch = p.epoch
           /\ Merged(p, u, v).dhash = IF p.dport = 0 THEN <<p.tid, p.epoch, u>> ELSE p.dhash
           /\ Merged(p, u, v).dport = IF p.dport = 0 THEN u ELSE p.dport
           /\ Merged(p, u, v).dpath = Shifted(p.dpath, SwitchId(u))
  BY DEF Merged, PacketType

\* The packet keeps its header, or has none before and after.
HeaderKept(i) ==
    /\ pkt'[i].q = pkt[i].q /\ pkt'[i].hist = pkt[i].hist
    /\ \/ pkt[i].hop = 0 /\ pkt'[i].hop = 0
       \/ /\ pkt'[i].hop = pkt[i].hop /\ pkt'[i].flow = pkt[i].flow
          /\ pkt'[i].tid = pkt[i].tid /\ pkt'[i].epoch = pkt[i].epoch
          /\ pkt'[i].dhash = pkt[i].dhash /\ pkt'[i].dport = pkt[i].dport
          /\ pkt'[i].dpath = pkt[i].dpath

\* Only an egress pass creates or changes a header, or counts a test.
LEMMA OnlyEgress ==
    ASSUME TypeOK, InPlace, [Next]_vars, ~ \E u \in Port : EgressHop(u)
    PROVE  r_testctr' = r_testctr /\ \A i \in Pid : HeaderKept(i)
<1>1. ASSUME pkt' = pkt, r_testctr' = r_testctr
      PROVE  r_testctr' = r_testctr /\ \A i \in Pid : HeaderKept(i)
    BY <1>1 DEF HeaderKept
<1>2. ASSUME NEW i \in Pid, NEW s, pkt' = [pkt EXCEPT ![i].st = s]
      PROVE  \A j \in Pid : HeaderKept(j)
    <2> TAKE j \in Pid
    <2>1. pkt[j] \in PacketType /\ (pkt'[j] = pkt[j] \/ pkt'[j] = [pkt[j] EXCEPT !.st = s])
        BY <1>2 DEF TypeOK
    <2> QED BY <2>1 DEF HeaderKept, PacketType
<1>3. ASSUME NEW s \in Source, Tick(s)
      PROVE  r_testctr' = r_testctr /\ \A i \in Pid : HeaderKept(i)
    BY <1>1, <1>3 DEF Tick, registers
<1>4. ASSUME NEW i \in Pid, NEW f \in Flow, SourceIngress(i, f)
      PROVE  r_testctr' = r_testctr /\ \A j \in Pid : HeaderKept(j)
    <2>1. pkt[i].hop = 0 /\ pkt[i] \in PacketType
        BY <1>4 DEF SourceIngress, InPlace, Progress, TypeOK
    <2>2. /\ pkt'[i].hop = 0 /\ pkt'[i].q = pkt[i].q /\ pkt'[i].hist = pkt[i].hist
          /\ (\A j \in Pid : j # i => pkt'[j] = pkt[j]) /\ r_testctr' = r_testctr
        BY <1>4, <2>1 DEF SourceIngress, TypeOK, PacketType, registers
    <2> QED BY <2>1, <2>2 DEF HeaderKept
<1>5. ASSUME NEW u \in Port, Ingress(u) \/ Capture(u) \/ Lose(u)
      PROVE  r_testctr' = r_testctr /\ \A i \in Pid : HeaderKept(i)
    <2>1. PICK s : pkt' = [pkt EXCEPT ![Head(link[u])].st = s] /\ link[u] # <<>>
                   /\ r_testctr' = r_testctr
        BY <1>5 DEF Ingress, Capture, Lose, registers
    <2>2. Head(link[u]) \in Pid
        BY <2>1, HeadInPid
    <2> QED BY <1>2, <2>1, <2>2
<1>6. ASSUME NEW i \in Pid, DropReport(i)
      PROVE  r_testctr' = r_testctr /\ \A j \in Pid : HeaderKept(j)
    BY <1>2, <1>6 DEF DropReport, registers
<1>7. ASSUME NEW u \in Target, NEW v \in 0..1, WriteFault(u, v)
      PROVE  r_testctr' = r_testctr /\ \A i \in Pid : HeaderKept(i)
    BY <1>1, <1>7 DEF WriteFault
<1>8. CASE UNCHANGED vars
    BY <1>1, <1>8 DEF vars
<1> QED BY <1>3, <1>4, <1>5, <1>6, <1>7, <1>8 DEF Next

-----------------------------------------------------------------------------
(* The debug header *)

Debug(i) ==
    pkt[i].hop > 0 =>
        /\ pkt[i].dport = Path(i)[1]
        /\ pkt[i].dhash = <<pkt[i].tid, pkt[i].epoch, Path(i)[1]>>
        /\ pkt[i].dpath = PackPath(SubSeq(Path(i), 1, pkt[i].hop))

LEMMA DebugKept ==
    ASSUME NEW i \in Pid, Debug(i), HeaderKept(i)
    PROVE  Debug(i)'
<1>1. CASE pkt'[i].hop = 0
    BY <1>1 DEF Debug
<1>2. CASE /\ pkt'[i].hop = pkt[i].hop /\ pkt'[i].flow = pkt[i].flow
           /\ pkt'[i].tid = pkt[i].tid /\ pkt'[i].epoch = pkt[i].epoch
           /\ pkt'[i].dhash = pkt[i].dhash /\ pkt'[i].dport = pkt[i].dport
           /\ pkt'[i].dpath = pkt[i].dpath
    <2>1. Path(i)' = Path(i)
        BY <1>2 DEF Path
    <2>2. PackPath(SubSeq(Path(i), 1, pkt[i].hop))' = PackPath(SubSeq(Path(i), 1, pkt[i].hop))
        BY <1>2, <2>1 DEF PackPath
    <2> QED BY <1>2, <2>1, <2>2 DEF Debug
<1> QED BY <1>1, <1>2 DEF HeaderKept

LEMMA EgressDebug ==
    ASSUME TypeOK, InPlace, NEW u \in Port, EgressHop(u), NEW i, i = Head(queue[u]), Debug(i)
    PROVE  Debug(i)'
<1>1. /\ i \in Pid /\ Queued(i, u) /\ pkt[i] \in PacketType /\ Stamped(pkt[i], u) \in PacketType
      /\ \E v \in LocalType : pkt'[i] = Merged(Stamped(pkt[i], u), u, v)
    BY EgressFacts
<1>2. PICK v \in LocalType : pkt'[i] = Merged(Stamped(pkt[i], u), u, v)
    BY <1>1
<1>3. PICK p \in PacketType : p = Stamped(pkt[i], u)
    BY <1>1
<1>4. pkt'[i].hop = pkt[i].hop + 1 /\ Path(i)' = Path(i)
    BY <1>1, <1>2, EgressPacket
<1>5. /\ pkt'[i].tid = p.tid /\ pkt'[i].epoch = p.epoch
      /\ pkt'[i].dhash = IF p.dport = 0 THEN <<p.tid, p.epoch, u>> ELSE p.dhash
      /\ pkt'[i].dport = IF p.dport = 0 THEN u ELSE p.dport
      /\ pkt'[i].dpath = Shifted(p.dpath, SwitchId(u))
    BY <1>2, <1>3, MergedHeader
<1>6. /\ Path(i) \in Seq(Port) /\ pkt[i].hop \in 0..(Len(Path(i)) - 1)
      /\ Path(i)[pkt[i].hop + 1] = u /\ pkt[i].hop \in Nat
    <2>1. pkt[i].flow \in Flow /\ pkt[i].hop \in Nat
        BY <1>1 DEF PacketType
    <2>2. Path(i) \in Seq(Port) /\ Len(Path(i)) \in Nat
        BY <2>1, RouteFacts DEF Path
    <2>3. pkt[i].hop < Len(Path(i)) /\ Path(i)[pkt[i].hop + 1] = u
        BY <1>1 DEF Queued, NextPort
    <2> QED BY <2>1, <2>2, <2>3
<1>7. p.dpath = PackPath(SubSeq(Path(i), 1, pkt[i].hop))
    <2>1. CASE pkt[i].hop = 0
        <3>1. PackPath(SubSeq(Path(i), 1, 0)) = <<>>
            <4>1. 0 \in 0..Len(Path(i)) /\ Kept(Path(i), 0) = 0
                BY <1>6, ConstAssumption DEF Kept
            <4>2. PackPath(SubSeq(Path(i), 1, 0)) = [k \in 1..0 |-> SwitchId(Path(i)[0 - 0 + k])]
                BY <1>6, <4>1, PackPathIs
            <4> QED BY <4>2
        <3>2. p.dpath = <<>>
            BY <1>1, <1>3, <2>1, StampedHeader
        <3> QED BY <2>1, <3>1, <3>2
    <2>2. CASE pkt[i].hop > 0
        BY <1>1, <1>3, <2>2, StampedType DEF Debug
    <2> QED BY <1>6, <2>1, <2>2
<1>8. pkt'[i].dpath = PackPath(SubSeq(Path(i), 1, pkt[i].hop + 1))
    BY <1>5, <1>6, <1>7, ShiftIsPack
<1>9. PackPath(SubSeq(Path(i), 1, pkt[i].hop))'
        = PackPath(SubSeq(Path(i), 1, pkt[i].hop + 1))
    BY <1>4 DEF PackPath
<1>10. /\ pkt'[i].dport = Path(i)[1]
       /\ pkt'[i].dhash = <<p.tid, p.epoch, Path(i)[1]>>
    <2>1. CASE pkt[i].hop = 0
        <3>1. p.dport = 0 /\ Path(i)[1] = u
            BY <1>1, <1>3, <1>6, <2>1, StampedHeader
        <3> QED BY <1>5, <3>1
    <2>2. CASE pkt[i].hop > 0
        <3>1. p = pkt[i]
            BY <1>1, <1>3, <2>2, StampedType
        <3>2. Path(i)[1] \in Port /\ Path(i)[1] # 0
            BY <1>6, ConstAssumption
        <3> QED BY <1>5, <2>2, <3>1, <3>2 DEF Debug
    <2> QED BY <1>6, <2>1, <2>2
<1> QED BY <1>4, <1>5, <1>8, <1>9, <1>10 DEF Debug

LEMMA NextDebug ==
    TypeOK /\ InPlace /\ DebugIsRoute /\ [Next]_vars => DebugIsRoute'
<1> SUFFICES ASSUME TypeOK, InPlace, DebugIsRoute, [Next]_vars, NEW j \in Pid
             PROVE  Debug(j)'
    BY DEF DebugIsRoute, Debug
<1>1. Debug(j)
    BY DEF DebugIsRoute, Debug
<1>2. ASSUME NEW u \in Port, EgressHop(u) PROVE Debug(j)'
    <2>1. PICK i : i = Head(queue[u])
        OBVIOUS
    <2>2. i \in Pid /\ \A k \in Pid : k # i => pkt'[k] = pkt[k]
        BY <1>2, <2>1, EgressFacts
    <2>3. CASE j = i
        BY <1>1, <1>2, <2>1, <2>3, EgressDebug
    <2>4. CASE j # i
        <3>1. HeaderKept(j)
            BY <2>2, <2>4 DEF HeaderKept
        <3> QED BY <1>1, <3>1, DebugKept
    <2> QED BY <2>3, <2>4
<1>3. CASE ~ \E u \in Port : EgressHop(u)
    BY <1>1, <1>3, OnlyEgress, DebugKept
<1> QED BY <1>2, <1>3

\* Only a packet that has reached the end of its route is captured.
Arrived == \A i \in Captured : pkt[i].hop = Len(Path(i))

LEMMA ArrivedKept ==
    ASSUME Arrived, NEW i \in Pid, pkt'[i].st = pkt[i].st, pkt'[i].hop = pkt[i].hop,
           pkt'[i].flow = pkt[i].flow, i \in Captured'
    PROVE  pkt'[i].hop = Len(Path(i))'
<1>1. i \in Captured
    BY DEF Captured
<1> QED BY <1>1 DEF Arrived, Path

LEMMA NextArrived == TypeOK /\ InPlace /\ Arrived /\ [Next]_vars => Arrived'
<1> SUFFICES ASSUME TypeOK, InPlace, Arrived, [Next]_vars, NEW j \in Pid, j \in Captured'
             PROVE  pkt'[j].hop = Len(Path(j))'
    BY DEF Arrived, Captured
<1>1. ASSUME pkt' = pkt PROVE pkt'[j].hop = Len(Path(j))'
    BY <1>1, ArrivedKept
<1>2. ASSUME NEW i \in Pid, pkt'[i].st # "captured", \A k \in Pid : k # i => pkt'[k] = pkt[k]
      PROVE  pkt'[j].hop = Len(Path(j))'
    <2>1. j # i
        BY <1>2 DEF Captured
    <2> QED BY <1>2, <2>1, ArrivedKept
<1>3. CASE (\E s \in Source : Tick(s)) \/ (\E u \in Target, v \in 0..1 : WriteFault(u, v))
           \/ UNCHANGED vars
    BY <1>1, <1>3 DEF Tick, WriteFault, vars
<1>4. ASSUME NEW i \in Pid, NEW f \in Flow, SourceIngress(i, f)
      PROVE  pkt'[j].hop = Len(Path(j))'
    <2>1. pkt'[i].st = "queued" /\ \A k \in Pid : k # i => pkt'[k] = pkt[k]
        BY <1>4 DEF SourceIngress, TypeOK, PacketType
    <2> QED BY <1>2, <2>1
<1>5. ASSUME NEW u \in Port, EgressHop(u) PROVE pkt'[j].hop = Len(Path(j))'
    <2>1. PICK i : i = Head(queue[u])
        OBVIOUS
    <2>2. /\ i \in Pid /\ \A k \in Pid : k # i => pkt'[k] = pkt[k]
          /\ \E v \in LocalType : pkt'[i] = Merged(Stamped(pkt[i], u), u, v)
        BY <1>5, <2>1, EgressFacts
    <2>3. pkt'[i].st = "link"
        BY <2>2, EgressPacket
    <2> QED BY <1>2, <2>2, <2>3
<1>6. ASSUME NEW u \in Port, Ingress(u) \/ Lose(u) PROVE pkt'[j].hop = Len(Path(j))'
    <2>1. PICK s \in {"queued", "lost"} :
             pkt' = [pkt EXCEPT ![Head(link[u])].st = s] /\ link[u] # <<>>
        BY <1>6 DEF Ingress, Lose
    <2>2. PICK i \in Pid : i = Head(link[u])
        BY <2>1, HeadInPid
    <2>3. pkt'[i].st # "captured" /\ \A k \in Pid : k # i => pkt'[k] = pkt[k]
        BY <2>1, <2>2 DEF TypeOK, PacketType
    <2> QED BY <1>2, <2>3
<1>7. ASSUME NEW u \in Port, Capture(u) PROVE pkt'[j].hop = Len(Path(j))'
    <2>1. PICK i \in Pid : i = Head(link[u])
        BY <1>7, HeadInPid DEF Capture
    <2>2. /\ pkt[i].hop = Len(Path(i)) /\ pkt'[i].hop = pkt[i].hop /\ pkt'[i].flow = pkt[i].flow
          /\ \A k \in Pid : k # i => pkt'[k] = pkt[k]
        BY <1>7, <2>1 DEF Capture, TypeOK, PacketType
    <2>3. CASE j = i
        BY <2>2, <2>3 DEF Path
    <2>4. CASE j # i
        BY <2>2, <2>4, ArrivedKept
    <2> QED BY <2>3, <2>4
<1>8. ASSUME NEW i \in Pid, DropReport(i) PROVE pkt'[j].hop = Len(Path(j))'
    <2>1. pkt'[i].st # "captured" /\ \A k \in Pid : k # i => pkt'[k] = pkt[k]
        BY <1>8 DEF DropReport, TypeOK, PacketType
    <2> QED BY <1>2, <2>1
<1> QED BY <1>3, <1>4, <1>5, <1>6, <1>7, <1>8 DEF Next

\* At the end of the route the header's switches are those of the whole path.
LEMMA GatesPass ==
    ASSUME TypeOK, Arrived, DebugIsRoute, NEW i \in Captured
    PROVE  gate0a(i) /\ gate0b(i)
<1>1. i \in Pid /\ pkt[i].hop = Len(Path(i)) /\ pkt[i] \in PacketType
    BY DEF Captured, Arrived, TypeOK
<1>2. pkt[i].flow \in Flow
    BY <1>1 DEF PacketType
<1>3. Path(i) \in Seq(Port) /\ Len(Path(i)) \in Nat \ {0}
    BY <1>2, RouteFacts DEF Path
<1>4. /\ pkt[i].dport = Path(i)[1]
      /\ pkt[i].dhash = <<pkt[i].tid, pkt[i].epoch, Path(i)[1]>>
      /\ pkt[i].dpath = PackPath(SubSeq(Path(i), 1, pkt[i].hop))
    BY <1>1, <1>3 DEF DebugIsRoute
<1>5. SubSeq(Path(i), 1, pkt[i].hop) = Path(i)
    BY <1>1, <1>3
<1> QED BY <1>4, <1>5 DEF gate0a, gate0b

(* Gates #0a and #0b pass in every run: the debug header of a packet names  *)
(* its first port and that port's hash key, and the switches behind it as   *)
(* the collector packs them from the replay, however long the route         *)
(* (poolint.p4:226-235, m3a_aggregate.py:65-89).                            *)
THEOREM DebugAlwaysMatches == Spec => []DebugMatchesReplay
<1>1. Init => DebugIsRoute /\ Arrived
    <2>1. Init => \A i \in Pid : pkt[i].hop = 0 /\ pkt[i].st # "captured"
        BY DEF Init, NoHeader
    <2> QED BY <2>1 DEF DebugIsRoute, Arrived, Captured
<1>2. TypeOK /\ DebugIsRoute /\ Arrived => DebugMatchesReplay
    BY GatesPass DEF DebugMatchesReplay
<1> QED BY <1>1, <1>2, NextDebug, NextArrived, TypeCorrect, AlwaysInPlace, PTL DEF Spec

-----------------------------------------------------------------------------
(* Test ids *)

SourcePort(i) == Path(i)[1]

Counted(u, t) ==
    /\ IsFiniteSet(StampedWith(u, t))
    /\ Cardinality(StampedWith(u, t)) = Cardinality(CountsOf(u, t))

TidInv == \A u \in Installed, t \in 0..(TestIdMod - 1) : Counted(u, t)

LEMMA CountsFinite ==
    ASSUME TypeOK, NEW u \in Port, NEW t
    PROVE  IsFiniteSet(CountsOf(u, t))
<1>1. PICK n \in Nat : n = r_testctr[Cell(u)]
    BY DEF TypeOK, Cells
<1>2. PICK z \in Int : z = 0
    OBVIOUS
<1>3. PICK m \in Int : m = n - 1
    OBVIOUS
<1>4. IsFiniteSet(z..m)
    BY FS_Interval
<1>5. CountsOf(u, t) \in SUBSET (z..m)
    BY <1>1, <1>2, <1>3 DEF CountsOf
<1> QED BY <1>4, <1>5, FS_Subset

\* Nothing that belongs to the ids has changed.
LEMMA TidKept ==
    ASSUME TidInv, r_testctr' = r_testctr, \A i \in Pid : HeaderKept(i)
    PROVE  TidInv'
<1> SUFFICES ASSUME NEW u \in Installed, NEW t \in 0..(TestIdMod - 1) PROVE Counted(u, t)'
    BY DEF TidInv
<1>1. ASSUME NEW i \in Pid
      PROVE  /\ pkt'[i].hop = pkt[i].hop
             /\ pkt[i].hop > 0 => Path(i)' = Path(i) /\ pkt'[i].tid = pkt[i].tid
    BY DEF HeaderKept, Path
<1>2. StampedWith(u, t)' = StampedWith(u, t)
    BY <1>1 DEF StampedWith
<1>3. CountsOf(u, t)' = CountsOf(u, t)
    BY DEF CountsOf
<1>4. Counted(u, t)
    BY DEF TidInv
<1> QED BY <1>2, <1>3, <1>4 DEF Counted

\* One packet and one value of the counter more.
LEMMA CountOneMore ==
    ASSUME NEW S, NEW C, NEW i, NEW c, i \notin S, c \notin C,
           IsFiniteSet(S), IsFiniteSet(C), Cardinality(S) = Cardinality(C)
    PROVE  /\ IsFiniteSet(S \cup {i})
           /\ Cardinality(S \cup {i}) = Cardinality(C \cup {c})
<1>1. IsFiniteSet(S \cup {i}) /\ Cardinality(S \cup {i}) = Cardinality(S) + 1
    BY FS_AddElement
<1>2. Cardinality(C \cup {c}) = Cardinality(C) + 1
    BY FS_AddElement
<1> QED BY <1>1, <1>2

LEMMA EgressTid ==
    ASSUME TypeOK, InPlace, TidInv, NEW u \in Port, EgressHop(u)
    PROVE  TidInv'
<1>1. PICK i : i = Head(queue[u])
    OBVIOUS
<1>2. /\ i \in Pid /\ Queued(i, u) /\ pkt[i] \in PacketType
      /\ Stamped(pkt[i], u) \in PacketType
      /\ \A j \in Pid : j # i => pkt'[j] = pkt[j]
      /\ \E v \in LocalType : pkt'[i] = Merged(Stamped(pkt[i], u), u, v)
    BY <1>1, EgressFacts
<1>3. PICK v \in LocalType : pkt'[i] = Merged(Stamped(pkt[i], u), u, v)
    BY <1>2
<1>4. pkt'[i].hop = pkt[i].hop + 1 /\ Path(i)' = Path(i) /\ SourcePort(i)' = SourcePort(i)
    BY <1>2, <1>3, EgressPacket DEF SourcePort
<1>5. pkt'[i].tid = Stamped(pkt[i], u).tid
    <2>1. PICK p \in PacketType : p = Stamped(pkt[i], u)
        BY <1>2
    <2>2. pkt'[i] = Merged(p, u, v)
        BY <1>3, <2>1
    <2>3. Merged(p, u, v).tid = p.tid
        BY MergedType
    <2> QED BY <2>1, <2>2, <2>3
<1>6. pkt[i].hop \in Nat /\ Path(i)[pkt[i].hop + 1] = u
    BY <1>2 DEF PacketType, Queued, NextPort
<1>7. ASSUME NEW j \in Pid, j # i
      PROVE  pkt'[j] = pkt[j] /\ Path(j)' = Path(j)
    BY <1>2, <1>7 DEF Path
<1>8. r_testctr \in [Cells -> Nat] /\ TestIdMod \in Nat \ {0}
    BY ConstAssumption DEF TypeOK
<1>9. Cell(u) \in Cells /\ Installed \subseteq Port
    BY ConstAssumption DEF Cells
<1> SUFFICES ASSUME NEW w \in Installed, NEW t \in 0..(TestIdMod - 1) PROVE Counted(w, t)'
    BY DEF TidInv
<1>10. Counted(w, t) /\ w \in Port
    BY <1>9 DEF TidInv
\* All packets but i are where they were.
<1>11. ASSUME i \in StampedWith(w, t)' <=> i \in StampedWith(w, t)
       PROVE  StampedWith(w, t)' = StampedWith(w, t)
    BY <1>7, <1>11 DEF StampedWith
<1>12. ASSUME i \in StampedWith(w, t)' <=> i \in StampedWith(w, t),
              r_testctr'[Cell(w)] = r_testctr[Cell(w)]
       PROVE  Counted(w, t)'
    <2>1. CountsOf(w, t)' = CountsOf(w, t)
        BY <1>12 DEF CountsOf
    <2>2. StampedWith(w, t)' = StampedWith(w, t)
        BY <1>11, <1>12
    <2> QED BY <1>10, <2>1, <2>2 DEF Counted
<1>13. CASE pkt[i].hop > 0
    <2>1. r_testctr' = r_testctr
        BY <1>1, <1>13 DEF EgressHop
    <2>2. pkt'[i].tid = pkt[i].tid /\ pkt'[i].hop > 0
        BY <1>2, <1>4, <1>5, <1>6, <1>13, StampedType
    <2>3. i \in StampedWith(w, t)' <=> i \in StampedWith(w, t)
        BY <1>4, <1>13, <2>2 DEF StampedWith
    <2> QED BY <1>12, <2>1, <2>3
<1>14. CASE pkt[i].hop = 0 /\ w # u
    <2>1. i \notin StampedWith(w, t)' /\ i \notin StampedWith(w, t)
        BY <1>4, <1>6, <1>14 DEF StampedWith
    <2>2. Cell(w) # Cell(u) /\ Cell(w) \in Cells
        BY <1>10, <1>14, CellInjective DEF Cells
    <2>3. r_testctr'[Cell(w)] = r_testctr[Cell(w)]
        BY <1>1, <1>8, <1>9, <2>2 DEF EgressHop
    <2> QED BY <1>12, <2>1, <2>3
<1>15. CASE pkt[i].hop = 0 /\ w = u
    <2>1. r_testctr' = [r_testctr EXCEPT ![Cell(u)] = @ + 1]
        BY <1>1, <1>15 DEF EgressHop
    <2>2. PICK c \in Nat : c = r_testctr[Cell(u)]
        BY <1>8, <1>9
    <2>3. r_testctr'[Cell(u)] = c + 1
        BY <1>8, <1>9, <2>1, <2>2
    <2>4. pkt'[i].hop = 1 /\ Path(i)'[1] = u /\ pkt'[i].tid = c % TestIdMod
        BY <1>2, <1>4, <1>5, <1>6, <1>15, <2>2, StampedHeader
    <2>5. i \notin StampedWith(w, t) /\ (i \in StampedWith(w, t)' <=> c % TestIdMod = t)
        BY <1>2, <1>15, <2>4 DEF StampedWith
    <2>6. 0..((c + 1) - 1) = 0..(c - 1) \cup {c} /\ c \notin 0..(c - 1)
        OBVIOUS
    <2>7. c \notin CountsOf(w, t)
        BY <1>15, <2>2, <2>6 DEF CountsOf
    <2>8. CountsOf(w, t)' = IF c % TestIdMod = t THEN CountsOf(w, t) \cup {c} ELSE CountsOf(w, t)
        BY <1>15, <2>2, <2>3, <2>6 DEF CountsOf
    <2>9. CASE c % TestIdMod = t
        <3>1. StampedWith(w, t)' = StampedWith(w, t) \cup {i}
            BY <1>2, <1>7, <2>5, <2>9 DEF StampedWith
        <3>2. IsFiniteSet(CountsOf(w, t))
            BY <1>10, CountsFinite
        <3>3. /\ IsFiniteSet(StampedWith(w, t) \cup {i})
              /\ Cardinality(StampedWith(w, t) \cup {i}) = Cardinality(CountsOf(w, t) \cup {c})
            BY <1>10, <2>5, <2>7, <3>2, CountOneMore DEF Counted
        <3> QED BY <2>8, <2>9, <3>1, <3>3 DEF Counted
    <2>10. CASE c % TestIdMod # t
        <3>1. StampedWith(w, t)' = StampedWith(w, t)
            BY <1>11, <2>5, <2>10
        <3> QED BY <1>10, <2>8, <2>10, <3>1 DEF Counted
    <2> QED BY <2>9, <2>10
<1> QED BY <1>6, <1>13, <1>14, <1>15

LEMMA NextTid == TypeOK /\ InPlace /\ TidInv /\ [Next]_vars => TidInv'
  BY EgressTid, OnlyEgress, TidKept

\* Nothing has been stamped and nothing counted.
LEMMA InitTid == Init => TidInv
<1> SUFFICES ASSUME Init, NEW u \in Installed, NEW t \in 0..(TestIdMod - 1)
             PROVE  Counted(u, t)
    BY DEF TidInv
<1>1. StampedWith(u, t) = {}
    BY DEF Init, NoHeader, StampedWith
<1>2. r_testctr[Cell(u)] = 0
    BY ConstAssumption DEF Init, Cells
<1>3. CountsOf(u, t) = {}
    BY <1>2 DEF CountsOf
<1> QED BY <1>1, <1>3, FS_EmptySet DEF Counted

(* An id is on as many packets as its source port's counter has come by it, *)
(* in every run and over any number of wraps: no value of a counter stamps  *)
(* two packets or none, whatever shares the array (poolint.p4:147-153).     *)
THEOREM IdsAlwaysCounted == Spec => []OneTestPerCount
<1>1. TidInv => OneTestPerCount
    BY DEF TidInv, Counted, OneTestPerCount
<1> QED BY <1>1, InitTid, NextTid, TypeCorrect, AlwaysInPlace, PTL DEF Spec

\* Two packets of an installed source port, up to the first wrap of its counter.
TestIdsDistinct ==
    \A i, j \in Pid :
        /\ i # j /\ pkt[i].hop > 0 /\ pkt[j].hop > 0
        /\ SourcePort(i) = SourcePort(j) /\ SourcePort(i) \in Installed
        /\ r_testctr[Cell(SourcePort(i))] <= TestIdMod
        => pkt[i].tid # pkt[j].tid

(* Until the counter of their source port wraps two packets differ in their *)
(* ids, so that their rows are tests of their own (poolint.p4:147-153).     *)
THEOREM IdsAlwaysDistinct == Spec => []TestIdsDistinct
<1>1. ASSUME TypeOK, TidInv, NEW i \in Pid, NEW j \in Pid, NEW u \in Installed, i # j,
             pkt[i].hop > 0, pkt[j].hop > 0, SourcePort(i) = u, SourcePort(j) = u,
             r_testctr[Cell(u)] <= TestIdMod, pkt[i].tid = pkt[j].tid
      PROVE  FALSE
    <2>1. PICK t \in 0..(TestIdMod - 1) : t = pkt[i].tid
        BY <1>1 DEF TypeOK, PacketType
    <2>2. u \in Port /\ r_testctr[Cell(u)] \in Nat /\ TestIdMod \in Nat \ {0}
        BY <1>1, ConstAssumption DEF TypeOK, Cells
    <2>3. CountsOf(u, t) \subseteq {t}
        <3>1. ASSUME NEW c \in Nat, c < TestIdMod PROVE c % TestIdMod = c
            BY <2>2, <3>1
        <3> QED BY <1>1, <2>2, <3>1 DEF CountsOf
    <2>4. Cardinality(CountsOf(u, t)) <= 1
        <3>1. IsFiniteSet({t}) /\ Cardinality({t}) = 1 /\ CountsOf(u, t) \in SUBSET {t}
            BY <2>3, FS_Singleton
        <3>2. Cardinality(CountsOf(u, t)) <= Cardinality({t})
            BY <3>1, FS_Subset
        <3> QED BY <3>1, <3>2
    <2>5. {i, j} \subseteq StampedWith(u, t)
        BY <1>1, <2>1 DEF StampedWith, SourcePort
    <2>6. IsFiniteSet(StampedWith(u, t)) /\ Cardinality(StampedWith(u, t)) <= 1
        BY <1>1, <2>4 DEF TidInv, Counted
    <2>7. IsFiniteSet({i}) /\ Cardinality({i}) = 1
        BY FS_Singleton
    <2>8. Cardinality({i} \cup {j}) = 2
        <3>1. j \notin {i}
            BY <1>1
        <3>2. Cardinality({i} \cup {j})
                = IF j \in {i} THEN Cardinality({i}) ELSE Cardinality({i}) + 1
            BY <2>7, FS_AddElement
        <3> QED BY <2>7, <3>1, <3>2
    <2>9. {i} \cup {j} \in SUBSET StampedWith(u, t)
        BY <2>5
    <2>10. Cardinality({i} \cup {j}) <= Cardinality(StampedWith(u, t))
        BY <2>6, <2>9, FS_Subset
    <2>11. Cardinality(StampedWith(u, t)) \in Nat
        BY <2>6, FS_CardinalityType
    <2> QED BY <2>6, <2>8, <2>10, <2>11
<1>2. TypeOK /\ TidInv => TestIdsDistinct
    BY <1>1 DEF TestIdsDistinct
<1> QED BY <1>2, InitTid, NextTid, TypeCorrect, AlwaysInPlace, PTL DEF Spec

-----------------------------------------------------------------------------
(* The quantitative slots *)

LEMMA BitParts ==
    ASSUME NEW m \in Metric, NEW r \in Round
    PROVE  Bit(m, r) \div R = m /\ Bit(m, r) % R = r
<1>1. R \in Nat /\ R > 0 /\ r \in Nat /\ r < R
    BY ConstAssumption DEF Round
<1>2. m = 0 \/ m = 1
    BY DEF Metric
<1>3. CASE m = 0
    <2>1. Bit(m, r) = r
        BY <1>1, <1>3 DEF Bit
    <2> QED BY <1>1, <1>3, <2>1
<1>4. CASE m = 1
    <2>1. Bit(m, r) = R + r
        BY <1>1, <1>4 DEF Bit
    <2>2. (R + r) \div R = 1 /\ (R + r) % R = r
        BY <1>1
    <2> QED BY <1>4, <2>1, <2>2
<1> QED BY <1>2, <1>3, <1>4

\* Saturating at every addition is saturating once.
LEMMA SatAddCapped ==
    ASSUME NEW a \in Nat, NEW b \in Nat
    PROVE  SatAdd(Capped(a), b) = Capped(a + b)
  BY ConstAssumption DEF SatAdd, Capped

\* What a pass does to the slot of a metric and round.
LEMMA MergedSlot ==
    ASSUME NEW p \in PacketType, NEW u, NEW v, NEW m \in Metric, NEW r \in Round
    PROVE  Merged(p, u, v).q[Bit(m, r)] =
             IF Gate(p.tid, p.epoch, u, 2 + m, r)
             THEN SatAdd(p.q[Bit(m, r)], v.quant[m]) ELSE p.q[Bit(m, r)]
  BY BitParts, BitInjective DEF Merged, PacketType

LEMMA StampedSlot ==
    ASSUME NEW p \in PacketType, NEW u \in Port, p.hop = 0, NEW s \in Slot
    PROVE  Stamped(p, u).q[s] = 0
  BY DEF Stamped, Fresh, PacketType

\* The slots of one packet are the capped sums.
Quant(i) ==
    \A m \in Metric, r \in Round : pkt[i].q[Bit(m, r)] = Capped(GatedSum(i, m, r))

\* GatedSum over the first n hops of a path, as a function of what it reads.
GatedHops(path, t, e, n, m, r) == {k \in 1..n : Gate(t, e, path[k], 2 + m, r)}

HopSum(hist, path, t, e, n, m, r) ==
    SumFunctionOnSet([k \in 1..n |-> hist[k].quant[m]], GatedHops(path, t, e, n, m, r))

LEMMA GatedSumIs ==
    ASSUME NEW i, NEW m, NEW r
    PROVE  GatedSum(i, m, r) =
             HopSum(pkt[i].hist, Path(i), pkt[i].tid, pkt[i].epoch, pkt[i].hop, m, r)
  BY DEF GatedSum, GatedHops, HopSum

\* A packet no egress has seen has no sum.
LEMMA NoHopNoSum ==
    ASSUME NEW i, pkt[i].hop = 0, NEW m, NEW r
    PROVE  GatedSum(i, m, r) = 0
<1>1. {k \in 1..pkt[i].hop : Gate(pkt[i].tid, pkt[i].epoch, Path(i)[k], 2 + m, r)} = {}
    OBVIOUS
<1> QED BY <1>1, SumEmpty DEF GatedSum

\* A packet whose header stays as it is keeps its sums.
LEMMA QuantKept ==
    ASSUME NEW i \in Pid, Quant(i), HeaderKept(i)
    PROVE  Quant(i)'
<1>1. pkt'[i].q = pkt[i].q /\ pkt'[i].hist = pkt[i].hist
    BY DEF HeaderKept
<1>2. CASE pkt[i].hop = 0 /\ pkt'[i].hop = 0
    <2>1. ASSUME NEW m, NEW r PROVE GatedSum(i, m, r) = 0 /\ GatedSum(i, m, r)' = 0
        <3>1. GatedSum(i, m, r) = 0
            BY <1>2, NoHopNoSum
        <3>2. {k \in 1..pkt'[i].hop : Gate(pkt'[i].tid, pkt'[i].epoch, Path(i)'[k], 2 + m, r)} = {}
            BY <1>2
        <3> QED BY <3>1, <3>2, SumEmpty DEF GatedSum
    <2> QED BY <1>1, <2>1 DEF Quant, Capped
<1>3. CASE /\ pkt'[i].hop = pkt[i].hop /\ pkt'[i].flow = pkt[i].flow
           /\ pkt'[i].tid = pkt[i].tid /\ pkt'[i].epoch = pkt[i].epoch
    <2>1. \A m, r : GatedSum(i, m, r)' = GatedSum(i, m, r)
        BY <1>1, <1>3 DEF GatedSum, Path
    <2> QED BY <1>1, <2>1 DEF Quant, Capped
<1> QED BY <1>2, <1>3 DEF HeaderKept

\* The hops gated in by one more egress pass, and their sum.
LEMMA GatedStep ==
    ASSUME NEW n \in Nat, NEW m \in Metric, NEW r, NEW path, NEW t, NEW e, NEW u, path[n + 1] = u,
           NEW old, NEW new, NEW v \in LocalType,
           \A k \in 1..n : old[k] \in LocalType /\ new[k] = old[k], new[n + 1] = v
    PROVE  HopSum(new, path, t, e, n + 1, m, r) =
             HopSum(old, path, t, e, n, m, r) + IF Gate(t, e, u, 2 + m, r) THEN v.quant[m] ELSE 0
<1> DEFINE S == GatedHops(path, t, e, n, m, r)
           T == GatedHops(path, t, e, n + 1, m, r)
           f == [k \in 1..n |-> old[k].quant[m]]
           g == [k \in 1..(n + 1) |-> new[k].quant[m]]
<1>1. S \subseteq 1..n /\ IsFiniteSet(S)
    <2>1. S \subseteq 1..n /\ IsFiniteSet(1..n)
        BY FS_Interval DEF GatedHops
    <2> QED BY <2>1, FS_Subset
<1>2. \A k \in S : f[k] = g[k] /\ f[k] \in Nat
    BY <1>1, ConstAssumption DEF LocalType
<1>3. g[n + 1] = v.quant[m] /\ v.quant[m] \in Nat
    BY ConstAssumption DEF LocalType
<1>4. T = IF Gate(t, e, path[n + 1], 2 + m, r) THEN S \cup {n + 1} ELSE S
    <2>1. 1..(n + 1) = 1..n \cup {n + 1}
        OBVIOUS
    <2> QED BY <2>1 DEF GatedHops
<1>5. n + 1 \notin S
    BY <1>1
<1> HIDE DEF S, T, f, g
<1>6. SumFunctionOnSet(f, S) = SumFunctionOnSet(g, S) /\ SumFunctionOnSet(f, S) \in Nat
    <2>1. SumFunctionOnSet(f, S) = SumFunctionOnSet(g, S)
        BY <1>1, <1>2, SumSame
    <2>2. SumFunctionOnSet(f, S) \in Nat
        BY <1>1, <1>2, SumNat
    <2> QED BY <2>1, <2>2
<1>7. SumFunctionOnSet(g, S \cup {n + 1}) = SumFunctionOnSet(g, S) + g[n + 1]
    <2>1. \A k \in S \cup {n + 1} : g[k] \in Nat
        BY <1>2, <1>3
    <2>2. IsFiniteSet(S)
        BY <1>1
    <2> QED BY <1>5, <2>1, <2>2, SumAdd
<1>8. SumFunctionOnSet(g, T)
        = SumFunctionOnSet(f, S) + IF Gate(t, e, path[n + 1], 2 + m, r) THEN v.quant[m] ELSE 0
    <2>1. CASE Gate(t, e, path[n + 1], 2 + m, r)
        BY <1>3, <1>4, <1>6, <1>7, <2>1
    <2>2. CASE ~ Gate(t, e, path[n + 1], 2 + m, r)
        BY <1>4, <1>6, <2>2
    <2> QED BY <2>1, <2>2
<1> QED BY <1>8 DEF S, T, f, g, HopSum

\* The sum of the gated values is a number.
LEMMA GatedNat ==
    ASSUME NEW n \in Nat, NEW m \in Metric, NEW r, NEW path, NEW t, NEW e, NEW hist,
           \A k \in 1..n : hist[k] \in LocalType
    PROVE  HopSum(hist, path, t, e, n, m, r) \in Nat
<1> DEFINE S == GatedHops(path, t, e, n, m, r)
           f == [k \in 1..n |-> hist[k].quant[m]]
<1>1. IsFiniteSet(S) /\ S \subseteq 1..n
    <2>1. S \subseteq 1..n /\ IsFiniteSet(1..n)
        BY FS_Interval DEF GatedHops
    <2> QED BY <2>1, FS_Subset
<1>2. \A k \in S : f[k] \in Nat
    BY <1>1, ConstAssumption DEF LocalType
<1> HIDE DEF S, f
<1>3. SumFunctionOnSet(f, S) \in Nat
    BY <1>1, <1>2, SumNat
<1> QED BY <1>3 DEF S, f, HopSum

\* A pass adds the value its port contributes, or nothing.
LEMMA EgressQuant ==
    ASSUME TypeOK, InPlace, NEW u \in Port, EgressHop(u), NEW i, i = Head(queue[u]), Quant(i)
    PROVE  Quant(i)'
<1>1. /\ i \in Pid /\ Queued(i, u) /\ pkt[i] \in PacketType /\ Stamped(pkt[i], u) \in PacketType
      /\ \E v \in LocalType : pkt'[i] = Merged(Stamped(pkt[i], u), u, v)
    BY EgressFacts
<1>2. PICK v \in LocalType : pkt'[i] = Merged(Stamped(pkt[i], u), u, v)
    BY <1>1
<1>3. PICK p \in PacketType : p = Stamped(pkt[i], u)
    BY <1>1
<1>m. pkt'[i] = Merged(p, u, v)
    BY <1>2, <1>3
<1>4. PICK n \in Nat : n = pkt[i].hop
    BY <1>1 DEF PacketType
<1>5. /\ pkt'[i].hop = n + 1 /\ Path(i)' = Path(i) /\ pkt'[i].hist = Append(pkt[i].hist, v)
    BY <1>1, <1>2, <1>4, EgressPacket
<1>6. pkt'[i].tid = p.tid /\ pkt'[i].epoch = p.epoch
    BY <1>m DEF Merged, PacketType
<1>7. pkt[i].hist \in Seq(LocalType) /\ Len(pkt[i].hist) = n /\ Path(i)[n + 1] = u
    BY <1>1, <1>4 DEF PacketType, InPlace, Progress, Queued, NextPort
<1>8. /\ \A k \in 1..n : pkt[i].hist[k] \in LocalType /\ pkt'[i].hist[k] = pkt[i].hist[k]
      /\ pkt'[i].hist[n + 1] = v
    BY <1>5, <1>7
<1>9. ASSUME NEW m \in Metric, NEW r \in Round
      PROVE  pkt'[i].q[Bit(m, r)] = Capped(GatedSum(i, m, r)')
    <2> DEFINE old == HopSum(pkt[i].hist, Path(i), p.tid, p.epoch, n, m, r)
               new == HopSum(pkt'[i].hist, Path(i), p.tid, p.epoch, n + 1, m, r)
    <2>1. GatedSum(i, m, r)' = new
        BY <1>5, <1>6 DEF GatedSum, GatedHops, HopSum
    <2>2. new = old + IF Gate(p.tid, p.epoch, u, 2 + m, r) THEN v.quant[m] ELSE 0
        <3>1. PICK h1, h2, path, t, e : /\ h1 = pkt[i].hist /\ h2 = pkt'[i].hist /\ path = Path(i)
                                        /\ t = p.tid /\ e = p.epoch
            OBVIOUS
        <3>2. \A k \in 1..n : h1[k] \in LocalType /\ h2[k] = h1[k]
            BY <1>8, <3>1
        <3>3. path[n + 1] = u /\ h2[n + 1] = v
            BY <1>7, <1>8, <3>1
        <3>4. HopSum(h2, path, t, e, n + 1, m, r)
                = HopSum(h1, path, t, e, n, m, r) + IF Gate(t, e, u, 2 + m, r) THEN v.quant[m] ELSE 0
            BY <3>2, <3>3, GatedStep
        <3> QED BY <3>1, <3>4
    <2>3. old \in Nat
        BY <1>8, GatedNat
    <2>a. v.quant[m] \in Nat
        BY ConstAssumption DEF LocalType
    <2>4. p.q[Bit(m, r)] = Capped(old)
        <3>1. CASE n = 0
            <4>0. Bit(m, r) \in Slot /\ pkt[i].hop = 0 /\ pkt[i] \in PacketType
                BY <1>1, <1>4, <3>1, BitInjective
            <4>1. p.q[Bit(m, r)] = 0
                BY <1>3, <4>0, StampedSlot
            <4>2. GatedHops(Path(i), p.tid, p.epoch, 0, m, r) = {}
                BY DEF GatedHops
            <4>3. old = 0
                BY <3>1, <4>2, SumEmpty DEF HopSum
            <4> QED BY <4>1, <4>3, ConstAssumption DEF Capped
        <3>2. CASE n > 0
            <4>1. p = pkt[i]
                BY <1>1, <1>3, <1>4, <3>2, StampedType
            <4>2. GatedSum(i, m, r) = old
                BY <1>4, <4>1, GatedSumIs
            <4> QED BY <4>1, <4>2 DEF Quant
        <3> QED BY <3>1, <3>2
    <2>5. pkt'[i].q[Bit(m, r)] =
             IF Gate(p.tid, p.epoch, u, 2 + m, r)
             THEN SatAdd(p.q[Bit(m, r)], v.quant[m]) ELSE p.q[Bit(m, r)]
        BY <1>m, MergedSlot
    <2> HIDE DEF old, new
    <2>6. CASE Gate(p.tid, p.epoch, u, 2 + m, r)
        <3>1. new = old + v.quant[m]
            BY <2>2, <2>6
        <3>2. SatAdd(Capped(old), v.quant[m]) = Capped(new)
            BY <2>3, <2>a, <3>1, SatAddCapped
        <3> QED BY <2>1, <2>4, <2>5, <2>6, <3>2
    <2>7. CASE ~ Gate(p.tid, p.epoch, u, 2 + m, r)
        <3>1. new = old
            BY <2>2, <2>3, <2>7
        <3> QED BY <2>1, <2>4, <2>5, <2>7, <3>1
    <2> QED BY <2>6, <2>7
<1> QED BY <1>9 DEF Quant, Capped

LEMMA NextQuant == TypeOK /\ InPlace /\ QuantIsCappedSum /\ [Next]_vars => QuantIsCappedSum'
<1> SUFFICES ASSUME TypeOK, InPlace, QuantIsCappedSum, [Next]_vars, NEW j \in Pid
             PROVE  Quant(j)'
    BY DEF QuantIsCappedSum, Quant
<1>1. Quant(j)
    BY DEF QuantIsCappedSum, Quant
<1>2. ASSUME NEW u \in Port, EgressHop(u) PROVE Quant(j)'
    <2>1. PICK i : i = Head(queue[u])
        OBVIOUS
    <2>2. i \in Pid /\ \A k \in Pid : k # i => pkt'[k] = pkt[k]
        BY <1>2, <2>1, EgressFacts
    <2>3. CASE j = i
        BY <1>1, <1>2, <2>1, <2>3, EgressQuant
    <2>4. CASE j # i
        <3>1. HeaderKept(j)
            BY <2>2, <2>4 DEF HeaderKept
        <3> QED BY <1>1, <3>1, QuantKept
    <2> QED BY <2>3, <2>4
<1>3. CASE ~ \E u \in Port : EgressHop(u)
    BY <1>1, <1>3, OnlyEgress, QuantKept
<1> QED BY <1>2, <1>3

(* In every run a quantitative slot is the sum of its members' values, cut  *)
(* off once at the slot's width, however many hops saturate it on the way   *)
(* (poolint.p4:134-137, 215-224): a report whose slot is below 255 is an    *)
(* equation of nnls_decode's system.                                        *)
THEOREM QuantAlwaysCapped == Spec => []QuantIsCappedSum
<1>1. Init => QuantIsCappedSum
    <2> SUFFICES ASSUME Init, NEW i \in Pid, NEW m \in Metric, NEW r \in Round
                 PROVE  pkt[i].q[Bit(m, r)] = Capped(GatedSum(i, m, r))
        BY DEF QuantIsCappedSum
    <2>1. pkt[i].hop = 0 /\ pkt[i].q[Bit(m, r)] = 0
        BY BitInjective DEF Init, NoHeader
    <2> QED BY <2>1, NoHopNoSum, ConstAssumption DEF Capped
<1> QED BY <1>1, NextQuant, TypeCorrect, AlwaysInPlace, PTL DEF Spec

-----------------------------------------------------------------------------
(* The environment of the utilisation registers *)

\* Finitely many packets, and fewer epochs than an epoch_id can number: the
\* property is about labels, which repeat after EpochMod epochs.
NoWrap == IsFiniteSet(Pid) /\ MaxClock \in Nat /\ MaxClock < EpochMod

\* The clock that stamps the packets of f.
SourceSwitch(f) == SwitchId(Route[f][1])
ClocksBounded == \A s \in Switch : clock[s] <= MaxClock

\* A packet is stamped with an epoch its source has reached, and keeps it.
Stamp(i) ==
    /\ pkt[i].st # "unsent" => pkt[i].ts <= clock[SourceSwitch(pkt[i].flow)]
    /\ pkt[i].hop > 0 => pkt[i].epoch = pkt[i].ts
Dated == \A i \in Pid : Stamp(i)

\* The label of a slot is an epoch some source has reached, and belongs there.
Label(u, s) == r_util[Cell(u)][s].epoch
Labelled == \A u \in Installed, s \in 0..(NumEpochSlots - 1) :
    /\ \E f \in Flow : Label(u, s) <= clock[SourceSwitch(f)]
    /\ Label(u, s) = 0 \/ EpochSlot(Label(u, s)) = s

\* A slot a packet has written is labelled with its epoch or a later one.
NewestAt(i, u) ==
    \A k \in 1..pkt[i].hop : Path(i)[k] = u => pkt[i].epoch <= Label(u, EpochSlot(pkt[i].epoch))
Newest == \A u \in Installed, i \in Pid : NewestAt(i, u)

-----------------------------------------------------------------------------
(* The passes of an epoch through a port, and their bytes *)

AllPasses == UNION {{i} \X (1..pkt[i].hop) : i \in Pid}
Passes(u, e) == {x \in AllPasses : pkt[x[1]].epoch = e /\ Path(x[1])[x[2]] = u}
PassBytes(x) == Length[pkt[x[1]].flow] + IF x[2] = 1 THEN 0 ELSE HeaderLen

LEMMA BytesIs ==
    ASSUME NEW u, NEW e
    PROVE  BytesThrough(u, e) = SumFunctionOnSet([x \in Passes(u, e) |-> PassBytes(x)], Passes(u, e))
  BY DEF BytesThrough, Passes, AllPasses, PassBytes

\* Which passes there are.
LEMMA PassIn ==
    ASSUME NEW u, NEW e, NEW i \in Pid, NEW k
    PROVE  <<i, k>> \in Passes(u, e)
             <=> k \in 1..pkt[i].hop /\ pkt[i].epoch = e /\ Path(i)[k] = u
  BY DEF Passes, AllPasses

LEMMA PassIsPair ==
    ASSUME NEW u, NEW e, NEW x \in Passes(u, e)
    PROVE  \E i \in Pid : \E k \in 1..pkt[i].hop : x = <<i, k>>
  BY DEF Passes, AllPasses

LEMMA PassesFinite ==
    ASSUME TypeOK, IsFiniteSet(Pid), NEW u, NEW e
    PROVE  IsFiniteSet(Passes(u, e))
<1> DEFINE F == [i \in Pid |-> {i} \X (1..pkt[i].hop)]
<1>1. \A i \in Pid : IsFiniteSet(F[i])
    <2> TAKE i \in Pid
    <2>1. pkt[i].hop \in Nat
        BY DEF TypeOK, PacketType
    <2>2. IsFiniteSet(1..pkt[i].hop)
        BY <2>1, FS_Interval
    <2>3. IsFiniteSet({i})
        BY FS_Singleton
    <2>4. IsFiniteSet({i} \X (1..pkt[i].hop))
        BY <2>2, <2>3, FS_Product
    <2> QED BY <2>4
<1>2. AllPasses = UNION {F[i] : i \in Pid}
    BY DEF AllPasses
<1>3. F \in Surjection(Pid, {F[i] : i \in Pid})
    BY DEF Surjection
<1> HIDE DEF F
<1>6. IsFiniteSet({F[i] : i \in Pid})
    BY <1>3, FS_Surjection
<1>4. IsFiniteSet(AllPasses)
    BY <1>1, <1>2, <1>6, FS_UNION
<1>5. Passes(u, e) \subseteq AllPasses
    BY DEF Passes
<1> QED BY <1>4, <1>5, FS_Subset

LEMMA PassBytesNat ==
    ASSUME TypeOK, NEW u, NEW e, NEW x \in Passes(u, e)
    PROVE  PassBytes(x) \in Nat
<1>1. PICK i \in Pid : x[1] = i
    BY PassIsPair
<1>2. pkt[i].flow \in Flow
    BY DEF TypeOK, PacketType
<1>3. Length[pkt[i].flow] \in Nat /\ HeaderLen \in Nat
    BY <1>2, ConstAssumption
<1> QED BY <1>1, <1>3 DEF PassBytes

LEMMA BytesNat ==
    ASSUME TypeOK, IsFiniteSet(Pid), NEW u, NEW e
    PROVE  BytesThrough(u, e) \in Nat
<1> DEFINE f == [x \in Passes(u, e) |-> PassBytes(x)]
<1>1. \A x \in Passes(u, e) : f[x] \in Nat
    BY PassBytesNat
<1>2. IsFiniteSet(Passes(u, e))
    BY PassesFinite
<1> HIDE DEF f
<1>3. SumFunctionOnSet(f, Passes(u, e)) \in Nat
    BY <1>1, <1>2, SumNat
<1> QED BY <1>3, BytesIs DEF f

LEMMA NoPassNoBytes ==
    ASSUME NEW u, NEW e, Passes(u, e) = {}
    PROVE  BytesThrough(u, e) = 0
  BY BytesIs, SumEmpty

\* A step that leaves the headers leaves the passes.
LEMMA BytesKept ==
    ASSUME TypeOK, \A i \in Pid : HeaderKept(i), NEW u, NEW e
    PROVE  BytesThrough(u, e)' = BytesThrough(u, e)
<1>1. ASSUME NEW i \in Pid, NEW k
      PROVE  (k \in 1..pkt[i].hop /\ pkt[i].epoch = e /\ Path(i)[k] = u)
               <=> (k \in 1..pkt'[i].hop /\ pkt'[i].epoch = e /\ Path(i)'[k] = u)
    BY DEF HeaderKept, Path
<1>2. ASSUME NEW i \in Pid, NEW k \in 1..pkt[i].hop
      PROVE  pkt'[i].flow = pkt[i].flow
    BY DEF HeaderKept
<1>3. Passes(u, e)' = Passes(u, e)
    BY <1>1 DEF Passes, AllPasses
<1>4. \A x \in Passes(u, e) : PassBytes(x)' = PassBytes(x)
    BY <1>2, PassIsPair DEF PassBytes
<1>5. [x \in Passes(u, e) |-> PassBytes(x)]' = [x \in Passes(u, e) |-> PassBytes(x)]
    BY <1>3, <1>4
<1> QED BY <1>3, <1>5 DEF BytesThrough, Passes, AllPasses, PassBytes

\* One egress pass of packet i through port u adds one pass, of its epoch.
LEMMA BytesStep ==
    ASSUME TypeOK, IsFiniteSet(Pid), NEW i \in Pid, NEW u \in Port, NEW n \in Nat, NEW e,
           \A j \in Pid : j # i => pkt'[j] = pkt[j],
           pkt[i].hop = n, pkt'[i].hop = n + 1, pkt'[i].flow = pkt[i].flow,
           Path(i)[n + 1] = u, pkt'[i].epoch = e, n > 0 => pkt[i].epoch = e,
           NEW w, NEW d
    PROVE  BytesThrough(w, d)' =
             BytesThrough(w, d) + IF w = u /\ d = e
                                  THEN Length[pkt[i].flow] + IF n = 0 THEN 0 ELSE HeaderLen
                                  ELSE 0
<1> DEFINE x == <<i, n + 1>>
           P == Passes(w, d)
           Q == Passes(w, d)'
           f == [y \in P |-> PassBytes(y)]
           g == [y \in Q |-> PassBytes(y)']
<1>1. Path(i)' = Path(i) /\ \A j \in Pid : j # i => Path(j)' = Path(j)
    BY DEF Path
<1>2. ASSUME NEW j \in Pid, NEW k
      PROVE  <<j, k>> \in Q <=> k \in 1..pkt'[j].hop /\ pkt'[j].epoch = d /\ Path(j)'[k] = w
    BY DEF Passes, AllPasses
<1>3. ASSUME NEW j \in Pid, NEW k
      PROVE  <<j, k>> \in Q <=> <<j, k>> \in P \/ (<<j, k>> = x /\ w = u /\ d = e)
    <2>1. CASE j # i
        BY <1>1, <1>2, <2>1, PassIn
    <2>2. CASE j = i
        <3>1. CASE k = n + 1
            BY <1>1, <1>2, <2>2, <3>1, PassIn
        <3>2. CASE k # n + 1
            <4>1. k \in 1..(n + 1) <=> k \in 1..n
                BY <3>2
            <4>2. k \in 1..n => pkt[i].epoch = e
                OBVIOUS
            <4> QED BY <1>1, <1>2, <2>2, <3>2, <4>1, <4>2, PassIn
        <3> QED BY <3>1, <3>2
    <2> QED BY <2>1, <2>2
<1>4. \A y \in Q : \E j \in Pid : \E k : y = <<j, k>>
    BY DEF Passes, AllPasses
<1>5. \A y \in P : \E j \in Pid : \E k : y = <<j, k>>
    BY PassIsPair
<1>6. Q = IF w = u /\ d = e THEN P \cup {x} ELSE P
    <2> HIDE DEF P, Q
    <2>1. \A y \in Q : y \in P \/ (y = x /\ w = u /\ d = e)
        BY <1>3, <1>4
    <2>2. \A y \in P : y \in Q
        BY <1>3, <1>5
    <2>3. w = u /\ d = e => x \in Q
        BY <1>3
    <2> HIDE DEF x
    <2> QED BY <2>1, <2>2, <2>3
<1>7. x \notin P
    BY PassIn
<1>8. IsFiniteSet(P) /\ \A y \in P : f[y] \in Nat
    BY PassesFinite, PassBytesNat
<1>9. \A y \in P : y \in Q /\ g[y] = f[y]
    <2> TAKE y \in P
    <2>1. PICK j \in Pid : y[1] = j
        BY <1>5
    <2>2. pkt'[j].flow = pkt[j].flow
        OBVIOUS
    <2>3. PassBytes(y)' = PassBytes(y)
        BY <2>1, <2>2 DEF PassBytes
    <2>4. y \in Q
        BY <1>6
    <2> QED BY <2>3, <2>4
<1>10. x \in Q => g[x] = Length[pkt[i].flow] + IF n = 0 THEN 0 ELSE HeaderLen
    <2>1. (n + 1 = 1) <=> n = 0
        OBVIOUS
    <2>2. PassBytes(x)' = Length[pkt[i].flow] + IF n = 0 THEN 0 ELSE HeaderLen
        BY <2>1 DEF PassBytes
    <2> QED BY <2>2
<1>11. Length[pkt[i].flow] + (IF n = 0 THEN 0 ELSE HeaderLen) \in Nat
    <2>1. pkt[i].flow \in Flow
        BY DEF TypeOK, PacketType
    <2>2. Length[pkt[i].flow] \in Nat /\ HeaderLen \in Nat
        BY <2>1, ConstAssumption
    <2> QED BY <2>2
<1>12. BytesThrough(w, d) = SumFunctionOnSet(f, P)
    BY BytesIs
<1>13. BytesThrough(w, d)' = SumFunctionOnSet(g, Q)
    BY DEF BytesThrough, Passes, AllPasses, PassBytes
<1> HIDE DEF P, Q, f, g, x
<1>14. SumFunctionOnSet(g, P) = SumFunctionOnSet(f, P)
    BY <1>8, <1>9, SumSame
<1>15. SumFunctionOnSet(f, P) \in Nat
    BY <1>8, SumNat
<1>16. CASE w = u /\ d = e
    <2>1. Q = P \cup {x}
        BY <1>6, <1>16
    <2>2. \A y \in P \cup {x} : g[y] \in Nat
        BY <1>8, <1>9, <1>10, <1>11, <2>1
    <2>3. SumFunctionOnSet(g, P \cup {x}) = SumFunctionOnSet(g, P) + g[x]
        BY <1>7, <1>8, <2>2, SumAdd
    <2> QED BY <1>10, <1>12, <1>13, <1>14, <1>16, <2>1, <2>3
<1>17. CASE ~ (w = u /\ d = e)
    BY <1>6, <1>12, <1>13, <1>14, <1>15, <1>17
<1> QED BY <1>16, <1>17

-----------------------------------------------------------------------------
(* The utilisation registers *)

UtilInv == ClocksBounded /\ Dated /\ Labelled /\ Newest /\ UtilPerPortEpoch

\* Different epochs of one slot are NumEpochSlots apart.
LEMMA SameSlotApart ==
    ASSUME NEW a \in Nat, NEW b \in Nat, NEW n \in Nat \ {0}, a % n = b % n, a > b
    PROVE  a - b >= n
<1>1. a = n * (a \div n) + (a % n) /\ a \div n \in Int
    OBVIOUS
<1>2. b = n * (b \div n) + (b % n) /\ b \div n \in Int
    OBVIOUS
<1> DEFINE q == a \div n
           r == b \div n
<1>3. a - b = n * q - n * r /\ q \in Int /\ r \in Int
    BY <1>1, <1>2
<1> HIDE DEF q, r
<1>4. q >= r + 1
    BY <1>3
<1>5. n * q >= n * (r + 1) /\ n * (r + 1) = n * r + n
    BY <1>3, <1>4
<1> QED BY <1>3, <1>5

LEMMA ModSmall ==
    ASSUME NEW a \in Nat, NEW n \in Nat, a < n
    PROVE  a % n = a
  OBVIOUS

LEMMA LabelType ==
    ASSUME TypeOK, NEW u \in Installed, NEW s \in 0..(NumEpochSlots - 1)
    PROVE  Label(u, s) \in Nat
<1>1. Cell(u) \in Cells
    BY ConstAssumption DEF Cells
<1>2. r_util[Cell(u)][s] \in [epoch : 0..(EpochMod - 1), bytes : Nat]
    BY <1>1 DEF TypeOK
<1> QED BY <1>2, ConstAssumption DEF Label

LEMMA SourceSwitchType ==
    ASSUME NEW f \in Flow
    PROVE  SourceSwitch(f) \in Switch
  BY RouteFacts DEF SourceSwitch, Switch

\* Clocks only advance, up to the bound.
LEMMA ClockGrows ==
    ASSUME TypeOK, ClocksBounded, MaxClock \in Nat, [Next]_vars
    PROVE  ClocksBounded' /\ \A s \in Switch : clock[s] <= clock'[s] /\ clock'[s] \in Nat
<1>1. CASE clock' = clock
    BY <1>1 DEF ClocksBounded, TypeOK
<1>2. ASSUME NEW t \in Source, Tick(t)
      PROVE  ClocksBounded' /\ \A s \in Switch : clock[s] <= clock'[s] /\ clock'[s] \in Nat
    BY <1>2 DEF Tick, ClocksBounded, TypeOK
<1>3. clock' = clock \/ \E t \in Source : Tick(t)
    BY DEF Next, vars, SourceIngress, EgressHop, Ingress, Capture, Lose, DropReport, WriteFault
<1> QED BY <1>1, <1>2, <1>3

\* Only a pass writes the utilisation registers.
LEMMA UtilKept ==
    ASSUME [Next]_vars, ~ \E u \in Port : EgressHop(u)
    PROVE  r_util' = r_util
  BY DEF Next, vars, registers, Tick, SourceIngress, Ingress, Capture, Lose, DropReport, WriteFault

\* A packet of epoch e is never older than the label of the slot it writes.
LEMMA NoOlder ==
    ASSUME TypeOK, UtilInv, Synced, NEW u \in Installed, NEW i \in Pid, pkt[i].st = "queued",
           NEW e, e = pkt[i].ts
    PROVE  Label(u, EpochSlot(e)) <= e
<1>1. e \in 0..(EpochMod - 1) /\ e \in Nat /\ u \in Port
    BY ConstAssumption DEF TypeOK, PacketType
<1>2. EpochSlot(e) \in 0..(NumEpochSlots - 1)
    BY <1>1, UtilCellType
<1>3. PICK l \in Nat : l = Label(u, EpochSlot(e))
    BY <1>2, LabelType
<1>4. SUFFICES ASSUME l > e PROVE FALSE
    BY <1>1, <1>3
<1>5. EpochSlot(l) = EpochSlot(e)
    BY <1>1, <1>2, <1>3, <1>4 DEF UtilInv, Labelled
<1>6. l - e >= NumEpochSlots
    BY <1>1, <1>4, <1>5, SameSlotApart, ConstAssumption DEF EpochSlot
<1>7. PICK f \in Flow : l <= clock[SourceSwitch(f)]
    BY <1>2, <1>3 DEF UtilInv, Labelled
<1>8. clock[SourceSwitch(f)] \in EpochsInUse /\ e \in EpochsInUse
    BY DEF EpochsInUse, SourceSwitch
<1>9. clock[SourceSwitch(f)] - e < NumEpochSlots
    BY <1>8 DEF Synced
<1>10. clock[SourceSwitch(f)] \in Nat
    BY SourceSwitchType DEF TypeOK
<1> QED BY <1>1, <1>6, <1>7, <1>9, <1>10, ConstAssumption

\* No other step makes a packet younger than its source's clock.
LEMMA StampKept ==
    ASSUME TypeOK, InPlace, UtilInv, NoWrap, [Next]_vars, ~ \E u \in Port : EgressHop(u)
    PROVE  Dated'
<1>1. \A s \in Switch : clock[s] <= clock'[s] /\ clock'[s] \in Nat /\ clock[s] \in Nat
    BY ClockGrows DEF UtilInv, NoWrap, TypeOK
<1>2. ASSUME NEW j \in Pid,
             /\ pkt'[j].ts = pkt[j].ts /\ pkt'[j].flow = pkt[j].flow
             /\ pkt'[j].hop = pkt[j].hop /\ pkt'[j].epoch = pkt[j].epoch
             /\ pkt'[j].st # "unsent" => pkt[j].st # "unsent"
      PROVE  Stamp(j)'
    <2>1. Stamp(j) /\ pkt[j].ts \in Nat /\ pkt[j].flow \in Flow
        BY ConstAssumption DEF UtilInv, Dated, TypeOK, PacketType
    <2>2. SourceSwitch(pkt[j].flow) \in Switch
        BY <2>1, SourceSwitchType
    <2> QED BY <1>1, <1>2, <2>1, <2>2 DEF Stamp
<1>3. ASSUME pkt' = pkt PROVE Dated'
    BY <1>2, <1>3 DEF Dated
<1>4. ASSUME NEW i \in Pid, NEW s, pkt' = [pkt EXCEPT ![i].st = s], pkt[i].st # "unsent"
      PROVE  Dated'
    <2>1. ASSUME NEW j \in Pid PROVE Stamp(j)'
        <3>1. pkt[j] \in PacketType /\ (pkt'[j] = pkt[j] \/ (j = i /\ pkt'[j] = [pkt[j] EXCEPT !.st = s]))
            BY <1>4 DEF TypeOK
        <3>2. /\ pkt'[j].ts = pkt[j].ts /\ pkt'[j].flow = pkt[j].flow
              /\ pkt'[j].hop = pkt[j].hop /\ pkt'[j].epoch = pkt[j].epoch
              /\ pkt'[j].st # "unsent" => pkt[j].st # "unsent"
            BY <1>4, <3>1 DEF PacketType
        <3> QED BY <1>2, <3>2
    <2> QED BY <2>1 DEF Dated
<1>5. ASSUME NEW i \in Pid, NEW f \in Flow, SourceIngress(i, f) PROVE Dated'
    <2> DEFINE c == clock[SourceSwitch(f)]
    <2>1. pkt[i].hop = 0 /\ pkt[i] \in PacketType /\ clock' = clock
        BY <1>5 DEF SourceIngress, InPlace, Progress, TypeOK
    <2>2. c \in Nat /\ c <= MaxClock /\ c % EpochMod = c
        <3>1. c \in Nat /\ c <= MaxClock
            BY SourceSwitchType DEF UtilInv, ClocksBounded, TypeOK
        <3> HIDE DEF c
        <3>2. EpochMod \in Nat /\ c < EpochMod
            BY <3>1, ConstAssumption DEF NoWrap
        <3> QED BY <3>1, <3>2, ModSmall
    <2>3. /\ pkt'[i].hop = 0 /\ pkt'[i].ts = c /\ pkt'[i].flow = f
          /\ \A j \in Pid : j # i => pkt'[j] = pkt[j]
        BY <1>5, <2>1, <2>2 DEF SourceIngress, TypeOK, PacketType, SourceSwitch
    <2>4. Stamp(i)'
        BY <2>1, <2>2, <2>3 DEF Stamp
    <2>5. ASSUME NEW j \in Pid, j # i PROVE Stamp(j)'
        BY <1>2, <2>3, <2>5
    <2> QED BY <2>4, <2>5 DEF Dated
<1>6. ASSUME NEW u \in Port, Ingress(u) \/ Capture(u) \/ Lose(u) PROVE Dated'
    <2>1. PICK s : pkt' = [pkt EXCEPT ![Head(link[u])].st = s] /\ link[u] # <<>>
        BY <1>6 DEF Ingress, Capture, Lose
    <2>2. Head(link[u]) \in Pid /\ Head(link[u]) \in Range(link[u])
        BY <2>1, InPids
    <2>3. pkt[Head(link[u])].st = "link"
        BY <2>2 DEF InPlace, OnLink
    <2> QED BY <1>4, <2>1, <2>2, <2>3
<1>7. ASSUME NEW i \in Pid, DropReport(i) PROVE Dated'
    BY <1>4, <1>7 DEF DropReport
<1>8. pkt' = pkt \/ (\E i \in Pid, f \in Flow : SourceIngress(i, f))
        \/ (\E u \in Port : Ingress(u) \/ Capture(u) \/ Lose(u)) \/ (\E i \in Pid : DropReport(i))
    BY DEF Next, vars, Tick, WriteFault
<1> QED BY <1>3, <1>5, <1>6, <1>7, <1>8

LEMMA EpochType ==
    ASSUME NEW e \in 0..(EpochMod - 1)
    PROVE  e \in Nat
  BY ConstAssumption

LEMMA EpochSlotType ==
    ASSUME NEW e \in 0..(EpochMod - 1)
    PROVE  EpochSlot(e) \in 0..(NumEpochSlots - 1)
<1>1. e \in Nat /\ NumEpochSlots \in Nat \ {0}
    BY EpochType, ConstAssumption
<1> QED BY <1>1, ModType DEF EpochSlot

\* The header takes its epoch from the ingress timestamp of its source.
LEMMA StampedEpoch ==
    ASSUME NEW p \in PacketType, NEW u \in Port
    PROVE  /\ Stamped(p, u).ts = p.ts
           /\ p.hop = 0 => Stamped(p, u).epoch = p.ts
<1>1. p.hop \in Nat
    BY DEF PacketType
<1>2. \A t : Fresh(p, u, t).ts = p.ts /\ Fresh(p, u, t).epoch = p.ts
    BY DEF Fresh, PacketType
<1>3. CASE p.hop = 0
    BY <1>2, <1>3 DEF Stamped
<1>4. CASE p.hop > 0
    BY <1>4 DEF Stamped
<1> QED BY <1>1, <1>3, <1>4

\* What a pass at u does to the registers, seen through labels and bytes.
LEMMA EgressRegisters ==
    ASSUME TypeOK, NEW u \in Port, EgressHop(u), NEW i, i = Head(queue[u]),
           NEW e, e = Stamped(pkt[i], u).epoch, e \in 0..(EpochMod - 1),
           NEW n, n = PacketLength(Stamped(pkt[i], u)),
           NEW w \in Installed, NEW s \in 0..(NumEpochSlots - 1)
    PROVE  r_util'[Cell(w)][s] = IF w = u /\ s = EpochSlot(e) THEN UtilCell(u, e, n)
                                                             ELSE r_util[Cell(w)][s]
<1>1. r_util' = IF u \in Installed
                THEN [r_util EXCEPT ![Cell(u)][EpochSlot(e)] = UtilCell(u, e, n)]
                ELSE r_util
    BY DEF EgressHop
<1>2. Cell(u) \in Cells /\ Cell(w) \in Cells /\ w \in Port
    BY ConstAssumption DEF Cells
<1>3. EpochSlot(e) \in 0..(NumEpochSlots - 1)
    <2>1. e \in Nat /\ NumEpochSlots \in Nat \ {0}
        BY ConstAssumption
    <2> QED BY <2>1, ModType DEF EpochSlot
<1>4. Cell(w) = Cell(u) <=> w = u
    BY <1>2, CellInjective
<1>5. PICK x : x = UtilCell(u, e, n)
    OBVIOUS
<1>6. CASE u \in Installed
    <2>1. r_util' = [r_util EXCEPT ![Cell(u)][EpochSlot(e)] = x]
        BY <1>1, <1>5, <1>6
    <2>2. r_util'[Cell(w)][s] = IF Cell(w) = Cell(u) /\ s = EpochSlot(e) THEN x ELSE r_util[Cell(w)][s]
        BY <1>2, <1>3, <2>1 DEF TypeOK
    <2> QED BY <1>4, <1>5, <2>2
<1>7. CASE u \notin Installed
    BY <1>1, <1>7
<1> QED BY <1>6, <1>7

\* A pass counts its bytes under its own epoch; it resets a slot only when
\* no packet of that epoch has been counted there.
LEMMA EgressUtil ==
    ASSUME TypeOK, InPlace, UtilInv, NoWrap, Synced, NEW u \in Port, EgressHop(u), [Next]_vars
    PROVE  UtilInv'
<1>1. PICK i : i = Head(queue[u])
    OBVIOUS
<1>2. /\ i \in Pid /\ Queued(i, u) /\ pkt[i] \in PacketType
      /\ Stamped(pkt[i], u) \in PacketType
      /\ \A j \in Pid : j # i => pkt'[j] = pkt[j]
      /\ \E v \in LocalType : pkt'[i] = Merged(Stamped(pkt[i], u), u, v)
    BY <1>1, EgressFacts
<1>3. PICK v \in LocalType : pkt'[i] = Merged(Stamped(pkt[i], u), u, v)
    BY <1>2
<1>4. PICK p \in PacketType : p = Stamped(pkt[i], u)
    BY <1>2
<1>m. pkt'[i] = Merged(p, u, v)
    BY <1>3, <1>4
<1>5. PICK n \in Nat : n = pkt[i].hop
    BY <1>2 DEF PacketType
<1>6. PICK e \in Nat : e = pkt[i].ts /\ e \in 0..(EpochMod - 1)
    <2>1. pkt[i].ts \in 0..(EpochMod - 1)
        BY <1>2 DEF PacketType
    <2> QED BY <2>1, EpochType
<1>7. p.epoch = e /\ p.flow = pkt[i].flow /\ p.hop = n /\ (n > 0 => pkt[i].epoch = e)
    <2>1. p.flow = pkt[i].flow /\ p.hop = n
        BY <1>2, <1>4, <1>5, StampedType
    <2>2. n > 0 => pkt[i].epoch = e
        BY <1>2, <1>5, <1>6 DEF UtilInv, Dated, Stamp
    <2>3. n = 0 => p.epoch = e
        BY <1>2, <1>4, <1>5, <1>6, StampedEpoch
    <2>4. n > 0 => p = pkt[i]
        BY <1>2, <1>4, <1>5, StampedType
    <2> QED BY <1>5, <2>1, <2>2, <2>3, <2>4
<1>8. /\ pkt'[i].hop = n + 1 /\ Path(i)' = Path(i) /\ pkt'[i].st = "link"
      /\ pkt'[i].flow = pkt[i].flow
    BY <1>2, <1>3, <1>5, EgressPacket
<1>9. pkt'[i].epoch = e /\ pkt'[i].ts = e
    <2>1. p.ts = e
        BY <1>2, <1>4, <1>6, StampedEpoch
    <2> QED BY <1>m, <1>7, <2>1 DEF Merged, PacketType
<1>10. Path(i)[n + 1] = u /\ pkt[i].st = "queued"
    BY <1>2, <1>5 DEF Queued, NextPort
<1>11. PICK len \in Nat : len = PacketLength(p)
    BY LengthType
<1>12. len = Length[pkt[i].flow] + IF n = 0 THEN 0 ELSE HeaderLen
    BY <1>7, <1>11 DEF PacketLength
<1>13. ASSUME NEW w \in Installed, NEW s \in 0..(NumEpochSlots - 1)
       PROVE  r_util'[Cell(w)][s] = IF w = u /\ s = EpochSlot(e) THEN UtilCell(u, e, len)
                                                                ELSE r_util[Cell(w)][s]
    BY <1>1, <1>4, <1>6, <1>7, <1>11, EgressRegisters
<1>14. EpochSlot(e) \in 0..(NumEpochSlots - 1)
    BY <1>6, UtilCellType
<1>15. u \in Installed => Label(u, EpochSlot(e)) <= e
    BY <1>2, <1>6, <1>10, NoOlder
<1>16. ASSUME NEW w \in Installed, NEW s \in 0..(NumEpochSlots - 1)
       PROVE  /\ Label(w, s)' = IF w = u /\ s = EpochSlot(e) THEN e ELSE Label(w, s)
              /\ Label(w, s) <= Label(w, s)' /\ Label(w, s) \in Nat
    <2>1. UtilCell(u, e, len).epoch = e
        BY DEF UtilCell
    <2>2. Label(w, s)' = IF w = u /\ s = EpochSlot(e) THEN e ELSE Label(w, s)
        BY <1>13, <2>1 DEF Label
    <2>3. Label(w, s) \in Nat
        BY LabelType
    <2> QED BY <1>15, <2>2, <2>3
<1>17. ClocksBounded' /\ clock' = clock
    BY ClockGrows DEF UtilInv, NoWrap, EgressHop
<1>18. Dated'
    <2>1. Stamp(i) /\ Stamp(i)'
        BY <1>2, <1>6, <1>8, <1>9, <1>10, <1>17 DEF UtilInv, Dated, Stamp
    <2>2. ASSUME NEW j \in Pid, j # i PROVE Stamp(j)'
        BY <1>2, <1>17, <2>2 DEF UtilInv, Dated, Stamp
    <2> QED BY <2>1, <2>2 DEF Dated
<1>19. Labelled'
    <2>1. ASSUME NEW w \in Installed, NEW s \in 0..(NumEpochSlots - 1)
          PROVE  /\ \E f \in Flow : Label(w, s)' <= clock'[SourceSwitch(f)]
                 /\ Label(w, s)' = 0 \/ EpochSlot(Label(w, s)') = s
        <3>1. CASE w = u /\ s = EpochSlot(e)
            <4>1. Label(w, s)' = e
                BY <1>16, <3>1
            <4>2. pkt[i].flow \in Flow /\ e <= clock[SourceSwitch(pkt[i].flow)]
                BY <1>2, <1>6, <1>10 DEF UtilInv, Dated, Stamp, PacketType
            <4> QED BY <1>17, <3>1, <4>1, <4>2
        <3>2. CASE ~ (w = u /\ s = EpochSlot(e))
            <4>1. Label(w, s)' = Label(w, s)
                BY <1>16, <3>2
            <4> QED BY <1>17, <4>1 DEF UtilInv, Labelled
        <3> QED BY <3>1, <3>2
    <2> QED BY <2>1 DEF Labelled, EpochSlot
<1>20. Newest'
    <2>1. ASSUME NEW w \in Installed, NEW j \in Pid, NEW k \in 1..pkt'[j].hop, Path(j)'[k] = w,
                 NEW d, d = pkt'[j].epoch
          PROVE  d <= r_util'[Cell(w)][EpochSlot(d)].epoch
        <3>1. ASSUME k \in 1..pkt[j].hop, Path(j)[k] = w, pkt[j].epoch = d
              PROVE  d <= r_util'[Cell(w)][EpochSlot(d)].epoch
            <4>1. d <= Label(w, EpochSlot(d))
                BY <3>1 DEF UtilInv, Newest, NewestAt
            <4>2. d \in 0..(EpochMod - 1)
                BY <3>1 DEF TypeOK, PacketType
            <4>3. EpochSlot(d) \in 0..(NumEpochSlots - 1) /\ d \in Nat
                BY <4>2, UtilCellType, EpochType
            <4>4. PICK s \in 0..(NumEpochSlots - 1) : s = EpochSlot(d)
                BY <4>3
            <4>5. PICK l \in Nat : l = Label(w, s) /\ l <= Label(w, s)'
                BY <1>16
            <4>6. PICK m \in Nat : m = Label(w, s)'
                BY <1>6, <1>16
            <4>7. Label(w, s)' = r_util'[Cell(w)][s].epoch
                BY DEF Label
            <4>8. d <= m
                BY <4>1, <4>3, <4>4, <4>5, <4>6
            <4> QED BY <4>4, <4>6, <4>7, <4>8
        <3>2. CASE j # i
            BY <1>2, <2>1, <3>1, <3>2 DEF Path
        <3>3. CASE j = i /\ k \in 1..n
            BY <1>5, <1>7, <1>8, <1>9, <2>1, <3>1, <3>3
        <3>4. CASE j = i /\ k = n + 1
            <4>1. d = e /\ w = u
                BY <1>8, <1>9, <1>10, <2>1, <3>4
            <4>2. r_util'[Cell(w)][EpochSlot(e)] = UtilCell(u, e, len)
                BY <1>13, <1>14, <4>1
            <4>3. UtilCell(u, e, len).epoch = e
                BY DEF UtilCell
            <4> QED BY <1>6, <4>1, <4>2, <4>3
        <3> QED BY <1>5, <1>8, <3>2, <3>3, <3>4
    <2>2. ASSUME NEW w \in Installed, NEW j \in Pid, NEW k \in 1..pkt'[j].hop, Path(j)'[k] = w
          PROVE  pkt'[j].epoch <= r_util'[Cell(w)][EpochSlot(pkt'[j].epoch)].epoch
        BY <2>1, <2>2
    <2> QED BY <2>2 DEF Newest, NewestAt, EpochSlot, Label
<1>21. UtilPerPortEpoch'
    <2>1. ASSUME NEW w \in Installed, NEW d \in 0..(EpochMod - 1),
                 r_util'[Cell(w)][EpochSlot(d)].epoch = d
          PROVE  r_util'[Cell(w)][EpochSlot(d)].bytes = BytesThrough(w, d)'
        <3>1. EpochSlot(d) \in 0..(NumEpochSlots - 1) /\ d \in Nat
            BY UtilCellType, EpochType
        <3>2. BytesThrough(w, d)' = BytesThrough(w, d) + IF w = u /\ d = e THEN len ELSE 0
            BY <1>2, <1>5, <1>7, <1>8, <1>9, <1>10, <1>12, BytesStep DEF NoWrap
        <3>3. BytesThrough(w, d) \in Nat
            BY BytesNat DEF NoWrap
        <3>4. r_util[Cell(w)][EpochSlot(d)].epoch = d
                => r_util[Cell(w)][EpochSlot(d)].bytes = BytesThrough(w, d)
            BY DEF UtilInv, UtilPerPortEpoch
        <3>5. CASE w = u /\ EpochSlot(d) = EpochSlot(e)
            <4>1. r_util'[Cell(w)][EpochSlot(d)] = UtilCell(u, e, len)
                BY <1>13, <1>14, <3>5
            <4>2. d = e
                BY <2>1, <4>1 DEF UtilCell
            <4>3. CASE r_util[Cell(u)][EpochSlot(e)].epoch = e
                <5>1. UtilCell(u, e, len).bytes = len + r_util[Cell(u)][EpochSlot(e)].bytes
                    BY <4>3 DEF UtilCell
                <5> QED BY <1>11, <3>2, <3>3, <3>4, <3>5, <4>1, <4>2, <4>3, <5>1
            <4>4. CASE r_util[Cell(u)][EpochSlot(e)].epoch # e
                <5>1. UtilCell(u, e, len).bytes = len + 0
                    BY <4>4 DEF UtilCell
                <5>2. Label(u, EpochSlot(e)) \in Nat /\ Label(u, EpochSlot(e)) < e
                    BY <1>6, <1>14, <1>15, <3>5, <4>4, LabelType DEF Label
                <5>3. Passes(u, e) = {}
                    <6> SUFFICES ASSUME NEW x \in Passes(u, e) PROVE FALSE
                        OBVIOUS
                    <6>1. PICK j \in Pid : \E k \in 1..pkt[j].hop : x = <<j, k>>
                        BY PassIsPair
                    <6>2. PICK k \in 1..pkt[j].hop : x = <<j, k>>
                        BY <6>1
                    <6>3. pkt[j].epoch = e /\ Path(j)[k] = u
                        BY <6>2, PassIn
                    <6>4. e <= Label(u, EpochSlot(e))
                        BY <3>5, <6>3 DEF UtilInv, Newest, NewestAt
                    <6> QED BY <1>6, <5>2, <6>4
                <5>4. BytesThrough(u, e) = 0
                    BY <5>3, NoPassNoBytes
                <5> QED BY <1>11, <3>2, <3>5, <4>1, <4>2, <5>1, <5>4
            <4> QED BY <4>3, <4>4
        <3>6. CASE ~ (w = u /\ EpochSlot(d) = EpochSlot(e))
            <4>1. r_util'[Cell(w)][EpochSlot(d)] = r_util[Cell(w)][EpochSlot(d)]
                BY <1>13, <3>1, <3>6
            <4>2. BytesThrough(w, d)' = BytesThrough(w, d)
                BY <3>2, <3>3, <3>6
            <4> QED BY <2>1, <3>4, <4>1, <4>2
        <3> QED BY <3>5, <3>6
    <2> QED BY <2>1 DEF UtilPerPortEpoch, EpochSlot
<1> QED BY <1>17, <1>18, <1>19, <1>20, <1>21 DEF UtilInv

LEMMA NextUtil ==
    ASSUME TypeOK, InPlace, UtilInv, NoWrap, [Synced /\ Next]_vars
    PROVE  UtilInv'
<1>1. [Next]_vars
    OBVIOUS
<1>2. ASSUME NEW u \in Port, EgressHop(u) PROVE UtilInv'
    <2>1. CASE Synced
        BY <1>1, <1>2, <2>1, EgressUtil
    <2>2. CASE UNCHANGED vars
        <3>1. queue' = queue /\ queue' = [queue EXCEPT ![u] = Tail(@)] /\ queue[u] # <<>>
            BY <1>2, <2>2 DEF EgressHop, vars
        <3>2. queue[u] \in Seq(Pid) /\ queue[u] = Tail(queue[u])
            BY <3>1 DEF TypeOK
        <3>3. Len(Tail(queue[u])) = Len(queue[u]) - 1 /\ Len(queue[u]) \in Nat
            BY <3>1, <3>2
        <3>4. PICK q : q = queue[u]
            OBVIOUS
        <3>5. Len(Tail(q)) = Len(q) /\ Len(Tail(q)) = Len(q) - 1 /\ Len(q) \in Nat
            BY <3>2, <3>3, <3>4
        <3>6. FALSE
            BY <3>5
        <3> QED BY <3>6
    <2> QED BY <2>1, <2>2
<1>3. CASE ~ \E u \in Port : EgressHop(u)
    <2>1. r_util' = r_util /\ \A i \in Pid : HeaderKept(i)
        BY <1>1, <1>3, UtilKept, OnlyEgress
    <2>2. ClocksBounded' /\ \A s \in Switch : clock[s] <= clock'[s] /\ clock[s] \in Nat /\ clock'[s] \in Nat
        BY <1>1, ClockGrows DEF UtilInv, NoWrap, TypeOK
    <2>3. Dated'
        BY <1>1, <1>3, StampKept
    <2>4. Labelled'
        <3>1. ASSUME NEW w \in Installed, NEW s \in 0..(NumEpochSlots - 1)
              PROVE  /\ \E f \in Flow : Label(w, s)' <= clock'[SourceSwitch(f)]
                     /\ Label(w, s)' = 0 \/ EpochSlot(Label(w, s)') = s
            <4>1. Label(w, s)' = Label(w, s) /\ Label(w, s) \in Nat
                BY <2>1, LabelType DEF Label
            <4>2. PICK f \in Flow : Label(w, s) <= clock[SourceSwitch(f)]
                BY DEF UtilInv, Labelled
            <4>3. Label(w, s)' <= clock'[SourceSwitch(f)]
                BY <2>2, <4>1, <4>2, SourceSwitchType
            <4> QED BY <4>1, <4>3 DEF UtilInv, Labelled
        <3> QED BY <3>1 DEF Labelled, EpochSlot
    <2>5. Newest'
        <3>1. ASSUME NEW w \in Installed, NEW j \in Pid, NEW k \in 1..pkt'[j].hop, Path(j)'[k] = w
              PROVE  pkt'[j].epoch <= r_util'[Cell(w)][EpochSlot(pkt'[j].epoch)].epoch
            <4>1. k \in 1..pkt[j].hop /\ Path(j)[k] = w /\ pkt'[j].epoch = pkt[j].epoch
                BY <2>1, <3>1 DEF HeaderKept, Path
            <4> QED BY <2>1, <4>1 DEF UtilInv, Newest, NewestAt, Label
        <3> QED BY <3>1 DEF Newest, NewestAt, EpochSlot, Label
    <2>6. UtilPerPortEpoch'
        <3>1. ASSUME NEW w \in Installed, NEW d \in 0..(EpochMod - 1),
                     r_util'[Cell(w)][EpochSlot(d)].epoch = d
              PROVE  r_util'[Cell(w)][EpochSlot(d)].bytes = BytesThrough(w, d)'
            BY <2>1, <3>1, BytesKept DEF UtilInv, UtilPerPortEpoch
        <3> QED BY <3>1 DEF UtilPerPortEpoch, EpochSlot
    <2> QED BY <2>2, <2>3, <2>4, <2>5, <2>6 DEF UtilInv
<1> QED BY <1>2, <1>3

LEMMA InitUtil ==
    ASSUME Init, NoWrap
    PROVE  UtilInv
<1>1. \A i \in Pid : pkt[i].hop = 0 /\ pkt[i].st = "unsent"
    BY DEF Init, NoHeader
<1>2. ClocksBounded /\ \A s \in Switch : clock[s] = 0
    BY DEF Init, ClocksBounded, NoWrap
<1>3. Dated /\ Newest
    BY <1>1 DEF Dated, Stamp, Newest, NewestAt
<1>4. ASSUME NEW u \in Installed, NEW s \in 0..(NumEpochSlots - 1)
      PROVE  r_util[Cell(u)][s] = [epoch |-> 0, bytes |-> 0]
    BY ConstAssumption DEF Init, Cells
<1>5. Labelled
    <2>1. PICK f \in Flow : TRUE
        BY ConstAssumption
    <2>2. clock[SourceSwitch(f)] = 0
        BY <1>2, SourceSwitchType
    <2> QED BY <1>4, <2>2 DEF Labelled, Label
<1>6. UtilPerPortEpoch
    <2>1. ASSUME NEW w \in Installed, NEW d \in 0..(EpochMod - 1)
          PROVE  r_util[Cell(w)][EpochSlot(d)].bytes = BytesThrough(w, d)
        <3>1. EpochSlot(d) \in 0..(NumEpochSlots - 1)
            BY EpochSlotType
        <3>2. Passes(w, d) = {}
            BY <1>1 DEF Passes, AllPasses
        <3> QED BY <1>4, <3>1, <3>2, NoPassNoBytes
    <2> QED BY <2>1 DEF UtilPerPortEpoch
<1> QED BY <1>2, <1>3, <1>5, <1>6 DEF UtilInv

(* While the sources' clocks and the packets under way stay within the      *)
(* slots, the utilisation registers hold every byte the packets of a slot's *)
(* epoch have sent through the port, in every network: the lazy reset never *)
(* forgets bytes of an epoch that is still counted (poolint.p4:179-192).    *)
(* Without that premise it does, as the run PoolUtilSkew shows.             *)
THEOREM UtilAlwaysPerEpoch ==
    ASSUME NoWrap
    PROVE  SyncedSpec => []UtilPerPortEpoch
<1>1. TypeOK /\ InPlace /\ UtilInv /\ [Synced /\ Next]_vars => UtilInv'
    BY NextUtil
<1>2. Init => UtilInv
    BY InitUtil
<1>3. [Synced /\ Next]_vars => [Next]_vars
    OBVIOUS
<1>4. UtilInv => UtilPerPortEpoch
    BY DEF UtilInv
<1> QED BY <1>1, <1>2, <1>3, <1>4, TypeCorrect, AlwaysInPlace, PTL DEF SyncedSpec, Spec
=============================================================================
