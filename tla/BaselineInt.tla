----------------------------- MODULE BaselineInt -----------------------------
(***************************************************************************)
(* The baseline INT-MD data plane (p4src/baseline_int) and its collector   *)
(* (collector/int_collector.py): every switch on a frame's route puts a    *)
(* record in front of the stack between the frame's Ethernet and IPv4      *)
(* headers; the collector reads the records back, averages them per hop    *)
(* and takes the time a frame was on a link from the time stamps of the    *)
(* switches at its ends, whose clocks are not synchronised.                *)
(*                                                                         *)
(* The topology and its tables are constant operators, as in Forwarding;   *)
(* here the ECMP hash covers the 5-tuple only, so `pick' is its result at  *)
(* every switch.  Frames of a flow follow one another; how long a frame    *)
(* waits in a queue and spends on a link is any of a few numbers.          *)
(***************************************************************************)
EXTENDS Integers, Sequences, SequencesExt

CONSTANTS
    Flow,           \* <<source, destination>> of the flows
    EndHost, IntSwitch, Port,
    HostPort(_),        \* the <<switch, port>> a host hangs on
    LinkedTo(_,_),      \* what is behind a port of a switch
    FarPort(_,_),       \* the port at which it is entered
    tb_swid(_), tb_ipv4_lpm(_,_), tb_ecmp_nhop(_,_), \* tables, at a switch
    Group,          \* ECMP group size
    INT_MAX_HOPS,
    Offset,         \* what the clocks of the switches may be off by
    Wait, Wire,     \* bound: times a frame may spend in a queue, on a link
    MaxFrames       \* bound: frames of the flow

VARIABLES
    flow, pick, off,
    clock,          \* true time
    frame,          \* the frame on the wire
    at,             \* the switch and port it enters next, or its host
    trace,          \* history: what it has met: switches, ports, waits, wires
    captured        \* the frames the collector has, with their history

vars == <<flow, pick, off, clock, frame, at, trace, captured>>

\* A frame as its host sends it: an INT frame has records, newest first.
Plain == [etherType |-> "IPV4", hopCount |-> 0, origEtherType |-> "none", recs |-> <<>>]

Init ==
    /\ flow \in Flow /\ pick \in 0..(Group - 1) /\ off \in Offset
    /\ clock = 0 /\ frame = Plain /\ at = HostPort(flow[1])
    /\ trace = <<>> /\ captured = <<>>

-----------------------------------------------------------------------------
(* Parser: hopCount records, then IPv4.  It is where the parser expects it only
   if hopCount counts the records and the stack holds them. *)

upTo(s, n)   == SubSeq(s, 1, IF Len(s) < n THEN Len(s) ELSE n)
stack(f)     == upTo(f.recs, f.hopCount)
ipv4Valid(f) == f.hopCount = Len(f.recs) /\ f.hopCount <= INT_MAX_HOPS

(* Ingress *)
EgressSpec(s, dst, hash) ==
    IF tb_ipv4_lpm(s, dst).action = "set_nhop" THEN tb_ipv4_lpm(s, dst).arg
    ELSE tb_ecmp_nhop(s, hash)

int_source(s, port) == LinkedTo(s, port) \in EndHost

\* What the data plane assumes of its network: hosts hang on ports that tb_int_source
\* lists, and the tables bring a frame to its host over INT_MAX_HOPS switches at most.
ASSUME NetworkAssumption ==
    /\ INT_MAX_HOPS \in 1..255
    /\ Flow \subseteq EndHost \X EndHost
    /\ Wait \cup Wire \subseteq Int /\ Offset \subseteq [IntSwitch -> Int]
    /\ \A h \in EndHost : /\ HostPort(h) \in IntSwitch \X Port /\ HostPort(h) \notin EndHost
                       /\ int_source(HostPort(h)[1], HostPort(h)[2])
    /\ \A dst \in EndHost : \E left \in [IntSwitch -> 1..INT_MAX_HOPS] :
          \A s \in IntSwitch, hash \in 0..(Group - 1) :
             LET port == EgressSpec(s, dst, hash)
                 next == LinkedTo(s, port)
             IN  /\ port \in Port
                 /\ \/ next \in EndHost
                    \/ next \in IntSwitch /\ left[next] < left[s] /\ FarPort(s, port) \in Port

(* Egress *)
Shim(f) ==
    IF f.etherType = "INT" THEN f
    ELSE [f EXCEPT !.etherType = "INT", !.origEtherType = f.etherType, !.hopCount = 0]

\* push_front(1): a full stack loses its last entry.
push_front(s, r) == upTo(<<r>> \o s, INT_MAX_HOPS)

\* Mutant: the stack has room for two.
append_hop_short(f, r) ==
    [f EXCEPT !.recs = upTo(<<r>> \o stack(f), 2), !.hopCount = (@ + 1) % 256]
int_append_hop(f, r) ==
    [f EXCEPT !.recs = push_front(stack(f), r), !.hopCount = (@ + 1) % 256]

\* Parser, pipeline and deparser of one switch, and the link behind its port.
Hop(q, l) ==
    LET s    == at[1]
        port == EgressSpec(s, flow[2], pick)
        next == LinkedTo(s, port)
        rec  == [switch_id |-> tb_swid(s), ingress_port |-> at[2], egress_port |-> port,
                 hop_latency |-> q, ingress_ts |-> clock + off[s]]
    IN  /\ at \notin EndHost /\ ipv4Valid(frame) /\ Len(captured) < MaxFrames
        /\ frame' = IF frame.etherType = "INT" \/ int_source(s, at[2])
                    THEN int_append_hop(Shim(frame), rec) ELSE frame
        /\ trace' = Append(trace, [sw |-> s, in |-> at[2], out |-> port, wait |-> q, wire |-> l])
        /\ clock' = clock + q + l
        /\ at' = IF next \in EndHost THEN next ELSE <<next, FarPort(s, port)>>
        /\ UNCHANGED <<flow, pick, off, captured>>

\* The collector's host sniffs the frame; the flow's next one is sent.
Capture ==
    /\ at \in EndHost /\ Len(captured) < MaxFrames
    /\ captured' = Append(captured, [f |-> frame, met |-> trace])
    /\ frame' = Plain /\ at' = HostPort(flow[1]) /\ trace' = <<>>
    /\ UNCHANGED <<flow, pick, off, clock>>

Next == (\E q \in Wait, l \in Wire : Hop(q, l)) \/ Capture

Spec == Init /\ [][Next]_vars

-----------------------------------------------------------------------------
(* Collector *)

\* parse_int: the records, source first; no frame is shorter than it claims.
isInt(f)     == f.etherType = "INT" /\ f.hopCount <= Len(f.recs)
parse_int(f) == Reverse(upTo(f.recs, f.hopCount))

\* Mutant: the time in the queue counts as time on the link.
link_latency_raw(hops, i) == hops[i + 1].ingress_ts - hops[i].ingress_ts
\* main: time from leaving one switch to entering the next, as their clocks have it.
link_latency(hops, i) ==
    hops[i + 1].ingress_ts - (hops[i].ingress_ts + hops[i].hop_latency)

-----------------------------------------------------------------------------
(* Properties *)

(* The collector reads back one record of every switch the frame has        *)
(* crossed, with its ports, in order: parser, stack and hop counter agree   *)
(* at every hop, and the frame inside is the one that was sent              *)
(* (baseline_int.p4:124-133, parser.p4:35-51, int_collector.py:38-48).      *)
StackIsRoute ==
    \A k \in DOMAIN captured :
        LET f == captured[k].f
            t == captured[k].met
        IN  /\ isInt(f) /\ f.origEtherType = "IPV4" /\ ipv4Valid(f)
            /\ Len(parse_int(f)) = Len(t)
            /\ \A i \in DOMAIN t :
                  LET h == parse_int(f)[i]
                  IN  <<h.switch_id, h.ingress_port, h.egress_port>>
                        = <<tb_swid(t[i].sw), t[i].in, t[i].out>>

(* "only before/after deltas are meaningful" (int_collector.py:135-137),    *)
(* and they are exact: between two frames of a flow the latency of a link   *)
(* changes by what the link's own delay changes, whatever the clocks are    *)
(* off by and wherever queues build up, and a queue shows at its switch.    *)
DeltaIsTheLinks ==
    \A a, b \in DOMAIN captured :
        LET ha == parse_int(captured[a].f)  ta == captured[a].met
            hb == parse_int(captured[b].f)  tb == captured[b].met
        IN  /\ Len(ha) = Len(hb)
            /\ \A i \in DOMAIN ha : ha[i].hop_latency = ta[i].wait
            /\ \A i \in 1..(Len(ha) - 1) :
                  link_latency(hb, i) - link_latency(ha, i) = tb[i].wire - ta[i].wire
=============================================================================
