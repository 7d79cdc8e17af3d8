------------------------------ MODULE PoolNet ------------------------------
(***************************************************************************)
(* The PoolINT data plane (p4src/poolint), the fault injector that writes  *)
(* its registers, and the collector that captures its reports.             *)
(*                                                                         *)
(* A packet enters at the ingress of its source switch; at every switch of *)
(* its route the ingress puts it on the FIFO queue of an egress port, the  *)
(* egress processes it, and the port's link carries it on, in order, until *)
(* it reaches the collector's host.  The first egress creates the syndrome *)
(* header; each egress reads its port's registers and merges the values    *)
(* into the header for the (metric, round) pairs whose hash gate selects   *)
(* it.  A port's egress is served by one bmv2 thread and its register      *)
(* cells belong to that port alone, so one egress pass is one step; passes *)
(* at different ports interleave, and a register write of the control      *)
(* plane may fall between any two of them.                                 *)
(*                                                                         *)
(* `hist' is a history variable kept in the packet: the local values each  *)
(* egress read.  No guard reads it.                                        *)
(***************************************************************************)
EXTENDS Integers, Sequences, FiniteSets, Functions, GroupTest

CONSTANTS
    Pid,            \* packets
    Flow,           \* 5-tuples
    Route,          \* Route[f]: the port_uids a packet of f leaves through
    Length,         \* Length[f]: packet_length of a packet of f as its host sends it
    HeaderLen,      \* 23 in the code: bytes of the syndrome and debug headers
    Port,           \* port_uids of the network
    Installed,      \* ports whose tb_port_idx entry is installed
    Target,         \* ports the runner may mark faulty
    Gate(_,_,_,_,_),\* crc32(test_id, epoch_id, port_uid, metric, round) is below RHO
    R,              \* hash rounds per metric
    TestIdMod,      \* 2^16 in the code: test_id is bit<16>
    EpochMod,       \* 2^8 in the code: epoch_id is bit<8>
    NumEpochSlots,  \* utilisation slots per port
    TauQ,           \* queue depth above which QHI is raised
    QMax,           \* 255 in the code: quantitative slots are bit<8>
    UtilUnit,       \* 2^UTIL_SHIFT
    OtherTraffic,   \* numbers of other packets a queue may hold at a dequeue
    PathHops,       \* switch ids dbg_path holds (64 bits, 8 per hop)
    MaxClock        \* bound: epochs each source's clock may advance

VARIABLES
    r_fault,        \* register: fault flag of each cell
    r_testctr,      \* register: tests created at each cell
    r_util,         \* registers r_util_epoch, r_util_bytes of each cell and slot
    clock,          \* epochs since each switch started
    pkt,            \* the packets
    queue,          \* the egress queue of each port
    link            \* the packets on the link behind each port

registers == <<r_fault, r_testctr, r_util>>
vars      == <<r_fault, r_testctr, r_util, clock, pkt, queue, link>>

SwitchId(u)   == u \div 256
EgressPort(u) == u % 256
Switch        == {SwitchId(u) : u \in Port}
Source        == {SwitchId(Route[f][1]) : f \in Flow}  \* their clocks stamp packets

(***************************************************************************)
(* port_index.local_idx: the position of the port among its switch's       *)
(* sorted ports.  tb_port_idx and the injector both use it.                *)
(***************************************************************************)
SharedIdx(u) == 0               \* mutant: one register for all ports of a switch
LocalIdx(u) ==
    Cardinality({v \in Port : SwitchId(v) = SwitchId(u) /\ EgressPort(v) < EgressPort(u)})
Cell(u)  == <<SwitchId(u), LocalIdx(u)>>
Cells    == {Cell(u) : u \in Port}

Metric == 0..1          \* of each kind: FAIL, QHI and QDEPTH, UTIL
FAIL   == 0
Round  == 0..(R - 1)
Slot   == 0..(2 * R - 1)
Bit(b, r)     == b * R + r
EpochSlot(e)  == e % NumEpochSlots
Uncapped(n)   == n               \* mutant: no saturation at the slot's width
Capped(n)     == IF n > QMax THEN QMax ELSE n
WrapAdd(q, v) == (q + v) % (QMax + 1)   \* mutant: 8-bit addition that wraps
SatAdd(q, v)  == Capped(q + v)

ASSUME ConstAssumption ==
    /\ Port \subseteq Nat \ {0}
    /\ IsFiniteSet(Port)
    /\ Installed \subseteq Port
    /\ Target \subseteq Port
    /\ Flow # {}
    /\ Route \in [Flow -> Seq(Port)]
    /\ \A f \in Flow : Len(Route[f]) > 0
    /\ Length \in [Flow -> Nat]
    /\ HeaderLen \in Nat
    /\ OtherTraffic \subseteq Nat
    /\ QMax \in Nat
    /\ R \in Nat \ {0} /\ TestIdMod \in Nat \ {0} /\ EpochMod \in Nat \ {0}
    /\ NumEpochSlots \in Nat \ {0} /\ UtilUnit \in Nat \ {0} /\ PathHops \in Nat \ {0}

-----------------------------------------------------------------------------
(* Packets *)

NoHeader ==
    [st |-> "unsent", flow |-> CHOOSE f \in Flow : TRUE, hop |-> 0, ts |-> 0,
     tid |-> 0, epoch |-> 0, bsynd |-> {}, q |-> [s \in Slot |-> 0],
     dhash |-> <<>>, dport |-> 0, dpath |-> <<>>, hist |-> <<>>]

Path(i)     == Route[pkt[i].flow]
NextPort(i) == Path(i)[pkt[i].hop + 1]
Captured    == {i \in Pid : pkt[i].st = "captured"}

\* dbg_path = (dbg_path << 8) | switch_id keeps the last PathHops switch ids.
ShiftedNoLoss(path, sw) ==      \* mutant: a full field refuses the next switch
    IF Len(path) = PathHops THEN path ELSE Append(path, sw)
Shifted(path, sw) ==
    LET s == Append(path, sw) IN IF Len(s) > PathHops THEN Tail(s) ELSE s

\* The fields a fresh header has.
Fresh(p, u, tid) ==
    [p EXCEPT !.tid = tid, !.epoch = p.ts, !.bsynd = {}, !.q = [s \in Slot |-> 0],
              !.dhash = <<>>, !.dport = 0, !.dpath = <<>>]

\* Mutants: every hop creates the header anew; the test id keeps fewer bits.
StampedAgain(p, u) ==
    Fresh(p, u, IF u \in Installed THEN r_testctr[Cell(u)] % TestIdMod ELSE 0)
StampedNarrow(p, u) ==
    IF p.hop > 0 THEN p
    ELSE Fresh(p, u, IF u \in Installed THEN r_testctr[Cell(u)] % (TestIdMod \div 2) ELSE 0)

\* The source egress creates the header; a later one finds it there.
Stamped(p, u) ==
    IF p.hop > 0 THEN p
    ELSE Fresh(p, u, IF u \in Installed THEN r_testctr[Cell(u)] % TestIdMod ELSE 0)

\* The utilisation slot after a packet of epoch e and length n: lazy reset.
UtilNoReset(u, e, n) ==         \* mutant: the slot is relabelled but not reset
    [epoch |-> e, bytes |-> n + r_util[Cell(u)][EpochSlot(e)].bytes]
UtilCell(u, e, n) ==
    LET c == r_util[Cell(u)][EpochSlot(e)]
    IN  [epoch |-> e, bytes |-> n + IF c.epoch = e THEN c.bytes ELSE 0]

\* packet_length is the length the packet entered the switch with.
PacketLength(p) == Length[p.flow] + IF p.hop = 0 THEN 0 ELSE HeaderLen

\* What the egress of u reads for a packet of epoch e at queue depth d.
LocalValues(u, e, n, d) ==
    LET fail == IF u \in Installed THEN r_fault[Cell(u)] ELSE 0
        util == IF u \in Installed THEN Capped(UtilCell(u, e, n).bytes \div UtilUnit) ELSE 0
    IN  [bool  |-> [b \in Metric |-> IF b = FAIL THEN fail ELSE IF d > TauQ THEN 1 ELSE 0],
         quant |-> [b \in Metric |-> IF b = 0 THEN Capped(d) ELSE util]]

\* The gated merge of the local values v of port u into the syndrome.
Merged(p, u, v) ==
    [p EXCEPT
        !.st    = "link",
        !.hop   = @ + 1,
        !.bsynd = @ \cup {Bit(x[1], x[2]) : x \in
                     {y \in Metric \X Round : /\ Gate(p.tid, p.epoch, u, y[1], y[2])
                                              /\ v.bool[y[1]] = 1}},
        !.q     = [s \in Slot |-> IF Gate(p.tid, p.epoch, u, 2 + (s \div R), s % R)
                                  THEN SatAdd(p.q[s], v.quant[s \div R])
                                  ELSE p.q[s]],
        !.dhash = IF p.dport = 0 THEN <<p.tid, p.epoch, u>> ELSE @,
        !.dport = IF @ = 0 THEN u ELSE @,
        !.dpath = Shifted(@, SwitchId(u)),
        !.hist  = Append(@, v)]

-----------------------------------------------------------------------------
Init ==
    /\ r_fault   = [c \in Cells |-> 0]
    /\ r_testctr = [c \in Cells |-> 0]
    /\ r_util    = [c \in Cells |-> [s \in 0..(NumEpochSlots - 1) |-> [epoch |-> 0, bytes |-> 0]]]
    /\ clock     = [s \in Switch |-> 0]
    /\ pkt       = [i \in Pid |-> NoHeader]
    /\ queue     = [u \in Port |-> <<>>]
    /\ link      = [u \in Port |-> <<>>]

\* bmv2's ingress timestamp of switch s enters the next epoch.
Tick(s) ==
    /\ clock[s] < MaxClock
    /\ clock' = [clock EXCEPT ![s] = @ + 1]
    /\ UNCHANGED <<registers, pkt, queue, link>>

\* A host's packet passes the ingress of its source switch.
SourceIngress(i, f) ==
    LET u == Route[f][1]
    IN  /\ pkt[i].st = "unsent"
        /\ pkt' = [pkt EXCEPT ![i] = [@ EXCEPT !.st = "queued", !.flow = f,
                                            !.ts = clock[SwitchId(u)] % EpochMod]]
        /\ queue' = [queue EXCEPT ![u] = Append(@, i)]
        /\ UNCHANGED <<registers, clock, link>>

\* PoolEgress: port u processes the packet at the head of its queue.
EgressHop(u) ==
    LET i == Head(queue[u])
        p == Stamped(pkt[i], u)
        n == PacketLength(p)
    IN  /\ queue[u] # <<>>
        /\ \E x \in OtherTraffic :
              pkt' = [pkt EXCEPT ![i] =
                        Merged(p, u, LocalValues(u, p.epoch, n, Len(queue[u]) - 1 + x))]
        /\ r_testctr' = IF pkt[i].hop = 0 /\ u \in Installed
                        THEN [r_testctr EXCEPT ![Cell(u)] = @ + 1] ELSE r_testctr
        /\ r_util' = IF u \in Installed
                     THEN [r_util EXCEPT ![Cell(u)][EpochSlot(p.epoch)] = UtilCell(u, p.epoch, n)]
                     ELSE r_util
        /\ queue' = [queue EXCEPT ![u] = Tail(@)]
        /\ link'  = [link EXCEPT ![u] = Append(@, i)]
        /\ UNCHANGED <<r_fault, clock>>

\* Mutant: the packet also stays on the link.
IngressTwice(u) ==
    LET i == Head(link[u])
    IN  /\ link[u] # <<>>
        /\ pkt[i].hop < Len(Path(i))
        /\ pkt' = [pkt EXCEPT ![i].st = "queued"]
        /\ queue' = [queue EXCEPT ![NextPort(i)] = Append(@, i)]
        /\ UNCHANGED <<registers, clock, link>>

\* The next switch's ingress routes the packet at the head of u's link to its queue.
Ingress(u) ==
    LET i == Head(link[u])
    IN  /\ link[u] # <<>>
        /\ pkt[i].hop < Len(Path(i))
        /\ pkt' = [pkt EXCEPT ![i].st = "queued"]
        /\ link' = [link EXCEPT ![u] = Tail(@)]
        /\ queue' = [queue EXCEPT ![NextPort(i)] = Append(@, i)]
        /\ UNCHANGED <<registers, clock>>

\* The collector's sniffer stores the report the link delivers to its host.
Capture(u) ==
    LET i == Head(link[u])
    IN  /\ link[u] # <<>>
        /\ pkt[i].hop = Len(Path(i))
        /\ pkt' = [pkt EXCEPT ![i].st = "captured"]
        /\ link' = [link EXCEPT ![u] = Tail(@)]
        /\ UNCHANGED <<registers, clock, queue>>

\* The packet meets a full queue, or arrives when nobody is sniffing.
Lose(u) ==
    LET i == Head(link[u])
    IN  /\ link[u] # <<>>
        /\ pkt' = [pkt EXCEPT ![i].st = "lost"]
        /\ link' = [link EXCEPT ![u] = Tail(@)]
        /\ UNCHANGED <<registers, clock, queue>>

\* --drop-frac: the collector discards a report it has captured.
DropReport(i) ==
    /\ pkt[i].st = "captured"
    /\ pkt' = [pkt EXCEPT ![i].st = "lost"]
    /\ UNCHANGED <<registers, clock, queue, link>>

\* register_write PoolEgress.r_fault at the local index of u.
WriteFault(u, v) ==
    /\ r_fault' = [r_fault EXCEPT ![Cell(u)] = v]
    /\ UNCHANGED <<r_testctr, r_util, clock, pkt, queue, link>>

Next ==
    \/ \E s \in Source : Tick(s)
    \/ \E i \in Pid, f \in Flow : SourceIngress(i, f)
    \/ \E u \in Port : EgressHop(u)
    \/ \E u \in Port : Ingress(u)
    \/ \E u \in Port : Capture(u)
    \/ \E u \in Port : Lose(u)
    \/ \E i \in Pid : DropReport(i)
    \/ \E u \in Target, v \in 0..1 : WriteFault(u, v)

Spec == Init /\ [][Next]_vars
-----------------------------------------------------------------------------
(* What the collector makes of a captured report *)

\* pack_path: the switch ids of a reconstructed path, packed like dbg_path.
PackPath(path) ==
    LET m == IF Len(path) > PathHops THEN PathHops ELSE Len(path)
    IN  [k \in 1..m |-> SwitchId(path[Len(path) - m + k])]

\* The members of round r's test of metric b, and the test itself.
Members(i, b, r) ==
    {u \in {Path(i)[k] : k \in DOMAIN Path(i)} : Gate(pkt[i].tid, pkt[i].epoch, u, b, r)}
TestOf(i, b, r) ==
    [mem |-> Members(i, b, r), y |-> IF Bit(b, r) \in pkt[i].bsynd THEN 1 ELSE 0]

\* The test system of one (metric, epoch): rows without a member are skipped.
Tests(b, e) ==
    {TestOf(x[1], b, x[2]) : x \in {y \in Captured \X Round :
        pkt[y[1]].epoch = e /\ Members(y[1], b, y[2]) # {}}}

\* Gate #0a of a report that names a port: its hash is that of the port's first key.
gate0a(i) == pkt[i].dport # 0 => pkt[i].dhash = <<pkt[i].tid, pkt[i].epoch, pkt[i].dport>>

\* Gate #0b of a report that names switches: they are those of the replayed path.
gate0b(i) == pkt[i].dpath # <<>> => pkt[i].dpath = PackPath(Path(i))

-----------------------------------------------------------------------------
(* Properties *)

LocalType == [bool : [Metric -> 0..1], quant : [Metric -> 0..QMax]]
PacketType ==
    [st : {"unsent", "queued", "link", "captured", "lost"}, flow : Flow, hop : Nat,
     ts : 0..(EpochMod - 1), tid : 0..(TestIdMod - 1), epoch : 0..(EpochMod - 1),
     bsynd : SUBSET Slot, q : [Slot -> 0..QMax],
     dhash : {<<>>} \cup Nat \X Nat \X Port, dport : Port \cup {0}, dpath : Seq(Nat),
     hist : Seq(LocalType)]

TypeOK ==
    /\ r_fault \in [Cells -> 0..1]
    /\ r_testctr \in [Cells -> Nat]
    /\ r_util \in [Cells -> [0..(NumEpochSlots - 1) -> [epoch : 0..(EpochMod - 1), bytes : Nat]]]
    /\ clock \in [Switch -> Nat]
    /\ pkt \in [Pid -> PacketType]
    /\ queue \in [Port -> Seq(Pid)]
    /\ link \in [Port -> Seq(Pid)]

Distinct(s)  == \A m, n \in DOMAIN s : s[m] = s[n] => m = n
Queued(i, u) == pkt[i].st = "queued" /\ pkt[i].hop < Len(Path(i)) /\ NextPort(i) = u
OnLink(i, u) == pkt[i].st = "link" /\ pkt[i].hop > 0 /\ Path(i)[pkt[i].hop] = u
Progress(i)  ==
    /\ pkt[i].hop <= Len(Path(i)) /\ Len(pkt[i].hist) = pkt[i].hop
    /\ pkt[i].st = "unsent" => pkt[i].hop = 0

(* A packet is in one place, the one its route and its progress say: it is  *)
(* never processed twice by a port nor by a port its route does not name,   *)
(* so a report's counted hops are its route's hops.                         *)
InPlace ==
    /\ \A i \in Pid : Progress(i)
    /\ \A u \in Port : Distinct(queue[u]) /\ \A i \in Range(queue[u]) : Queued(i, u)
    /\ \A u \in Port : Distinct(link[u]) /\ \A i \in Range(link[u]) : OnLink(i, u)

(* The boolean syndrome of a packet is one pooled test per metric and round *)
(* over exactly the ports the collector will compute as members: a bit is   *)
(* set iff some member port on the part of the route behind the packet had  *)
(* the anomaly when the packet passed it (poolint.p4:204-213 against        *)
(* m3a_aggregate.py:136-141).                                               *)
SyndromeIsPool ==
    \A i \in Pid : \A b \in Metric, r \in Round :
        Bit(b, r) \in pkt[i].bsynd
          <=> \E k \in 1..pkt[i].hop :
                 /\ Gate(pkt[i].tid, pkt[i].epoch, Path(i)[k], b, r)
                 /\ pkt[i].hist[k].bool[b] = 1

\* The sum of the values of quantitative metric m that round r gated in so far.
GatedSum(i, m, r) ==
    SumFunctionOnSet([k \in 1..pkt[i].hop |-> pkt[i].hist[k].quant[m]],
                     {k \in 1..pkt[i].hop :
                         Gate(pkt[i].tid, pkt[i].epoch, Path(i)[k], 2 + m, r)})

(* A quantitative slot holds the exact sum of its members' values, or 255   *)
(* when that sum does not fit: capping at every hop and capping once agree, *)
(* so a row below 255 is an equation and one at 255 a lower bound, which is *)
(* what nnls_decode assumes (poolint.p4:134-137, poolint_collector.py:112). *)
QuantIsCappedSum ==
    \A i \in Pid : \A m \in Metric, r \in Round :
        pkt[i].q[Bit(m, r)] = Capped(GatedSum(i, m, r))

(* The debug header names the source port, the hash key of that port's      *)
(* first gate under the header's own ids, and the switches crossed so far,  *)
(* as pack_path packs them (poolint.p4:226-235).                            *)
DebugIsRoute ==
    \A i \in Pid : pkt[i].hop > 0 =>
        /\ pkt[i].dport = Path(i)[1]
        /\ pkt[i].dhash = <<pkt[i].tid, pkt[i].epoch, Path(i)[1]>>
        /\ pkt[i].dpath = PackPath(SubSeq(Path(i), 1, pkt[i].hop))

(* Every captured report passes the gates #0a and #0b of the aggregation,   *)
(* which know the header's ids and the replayed path but not the hops the   *)
(* packet made (m3a_aggregate.py:65-89 against poolint.p4:226-235).         *)
DebugMatchesReplay == DebugIsRoute /\ \A i \in Captured : gate0a(i) /\ gate0b(i)

\* The packets source port u has given test id t, and the values of its counter that are t.
StampedWith(u, t) == {i \in Pid : pkt[i].hop > 0 /\ Path(i)[1] = u /\ pkt[i].tid = t}
CountsOf(u, t)    == {c \in 0..(r_testctr[Cell(u)] - 1) : c % TestIdMod = t}

(* Every value of a source port's counter stamps one packet and no other    *)
(* port's: an id is on as many packets as the counter has come by it.  Up   *)
(* to the first wrap of the 16 bits that is one, so that no two rows repeat *)
(* one another, and from then on no more than the wraps have made of it     *)
(* (poolint.p4:147-153).                                                    *)
OneTestPerCount ==
    \A u \in Installed, t \in 0..(TestIdMod - 1) :
        Cardinality(StampedWith(u, t)) = Cardinality(CountsOf(u, t))

\* Bytes that packets of epoch e have sent through port u.
BytesThrough(u, e) ==
    LET passes == {x \in UNION {{i} \X (1..pkt[i].hop) : i \in Pid} :
                      pkt[x[1]].epoch = e /\ Path(x[1])[x[2]] = u}
    IN  SumFunctionOnSet([x \in passes |-> Length[pkt[x[1]].flow]
                                             + IF x[2] = 1 THEN 0 ELSE HeaderLen], passes)

(* The environment UtilPerPortEpoch needs and the switches do not enforce:  *)
(* clocks that agree to within the slots, and no packet older than them.    *)
EpochsInUse ==
    {clock[SwitchId(Route[f][1])] : f \in Flow}
    \cup {pkt[i].ts : i \in {j \in Pid : pkt[j].st \in {"queued", "link"}}}
Synced == \A a, b \in EpochsInUse : a - b < NumEpochSlots
SyncedSpec == Init /\ [][Synced /\ Next]_vars

(* A port's utilisation registers hold, for the epoch a slot is labelled    *)
(* with, every byte packets of that epoch have sent through the port        *)
(* ("per-(port,epoch) byte accumulator, lazy reset", poolint.p4:181).       *)
UtilPerPortEpoch ==
    \A u \in Installed, e \in 0..(EpochMod - 1) :
        LET c == r_util[Cell(u)][EpochSlot(e)]
        IN  c.epoch = e => c.bytes = BytesThrough(u, e)
=============================================================================
