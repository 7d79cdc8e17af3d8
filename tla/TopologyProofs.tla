--------------------------- MODULE TopologyProofs ---------------------------
(***************************************************************************)
(* What the collectors make of a route, for every size of the topologies:  *)
(* what the baseline collector reads back, for every network whose tables  *)
(* satisfy NetworkAssumption, every clock and every delay; and that the    *)
(* replay of a flow is the route of the tables.                            *)
(***************************************************************************)
EXTENDS MCTopo, SequenceTheorems, TLAPS

-----------------------------------------------------------------------------
(* The inductive invariant *)

Rec   == [switch_id : {tb_swid(s) : s \in IntSwitch}, ingress_port : Port, egress_port : Port,
          hop_latency : Int, ingress_ts : Int]
Frame == [etherType : {"IPV4", "INT"}, hopCount : Nat, origEtherType : {"none", "IPV4"},
          recs : Seq(Rec)]
Met   == [sw : IntSwitch, in : Port, out : Port, wait : Int, wire : Int]

Types ==
    /\ flow \in Flow /\ pick \in 0..(Group - 1) /\ off \in Offset /\ clock \in Int
    /\ frame \in Frame /\ trace \in Seq(Met)
    /\ captured \in Seq([f : Frame, met : Seq(Met)])

\* The record of the i-th hop: records are stored newest first.
Record(f, i) == f.recs[Len(f.recs) + 1 - i]

Drift(t, i, o) == o[t[i + 1].sw] - o[t[i].sw]

\* A frame's records are those of what it has met, and the time between them is
\* what it spent in between, but for the clocks.
Records(f, t, o) ==
    /\ Len(f.recs) = Len(t) /\ f.hopCount = Len(t)
    /\ f.etherType = (IF t = <<>> THEN "IPV4" ELSE "INT")
    /\ t # <<>> => f.origEtherType = "IPV4"
    /\ \A i \in 1..Len(t) :
          /\ Record(f, i).switch_id = tb_swid(t[i].sw)
          /\ Record(f, i).ingress_port = t[i].in
          /\ Record(f, i).egress_port = t[i].out
          /\ Record(f, i).hop_latency = t[i].wait
    /\ \A i \in 1..(Len(t) - 1) :
          Record(f, i + 1).ingress_ts - Record(f, i).ingress_ts
            = t[i].wait + t[i].wire + Drift(t, i, o)

Place(m) == <<m.sw, m.in>>

\* Where the tables send a frame of flow w with hash h from switch s.
After(s, w, h) ==
    LET port == EgressSpec(s, w[2], h)
        next == LinkedTo(s, port)
    IN  IF next \in EndHost THEN next ELSE <<next, FarPort(s, port)>>

\* The hops of t follow the tables from the source, and p is where they lead.
Follows(t, p, w, h) ==
    /\ p = IF t = <<>> THEN HostPort(w[1]) ELSE After(t[Len(t)].sw, w, h)
    /\ t # <<>> => Place(t[1]) = HostPort(w[1])
    /\ \A i \in 1..(Len(t) - 1) :
          Place(t[i + 1]) = After(t[i].sw, w, h) /\ Place(t[i + 1]) \notin EndHost

\* How many switches are left at most.
Descends(left, dst) ==
    \A s \in IntSwitch, hash \in 0..(Group - 1) :
       LET port == EgressSpec(s, dst, hash)
           next == LinkedTo(s, port)
       IN  /\ port \in Port
           /\ \/ next \in EndHost
              \/ next \in IntSwitch /\ left[next] < left[s] /\ FarPort(s, port) \in Port
Bounded ==
    /\ at \notin EndHost => at \in IntSwitch \X Port
    /\ Len(trace) <= INT_MAX_HOPS
    /\ \E left \in [IntSwitch -> 1..INT_MAX_HOPS] :
          /\ Descends(left, flow[2])
          /\ at \notin EndHost => Len(trace) + left[at[1]] <= INT_MAX_HOPS

\* The time stamp of the newest record, against the true time.
OnTime(f, t, now, o) ==
    t # <<>> =>
        LET m == t[Len(t)]
        IN  Record(f, Len(t)).ingress_ts + m.wait + m.wire = now + o[m.sw]

Current ==
    /\ Records(frame, trace, off) /\ Follows(trace, at, flow, pick)
    /\ OnTime(frame, trace, clock, off)

Kept ==
    \A k \in 1..Len(captured) :
        LET m == captured[k].met
        IN  /\ Records(captured[k].f, m, off) /\ 1 <= Len(m) /\ Len(m) <= INT_MAX_HOPS
            /\ \E p \in EndHost : Follows(m, p, flow, pick)

\* The frame on the wire follows those that came before it.
Behind(t, p, m) ==
    /\ Len(t) <= Len(m)
    /\ \A i \in 1..Len(t) : t[i].sw = m[i].sw /\ t[i].in = m[i].in
    /\ Len(t) < Len(m) => p = Place(m[Len(t) + 1]) /\ p \notin EndHost
    /\ Len(t) = Len(m) => p \in EndHost
SameRoute(s, t) == Len(s) = Len(t) /\ \A i \in 1..Len(s) : s[i].sw = t[i].sw
OneRoute ==
    /\ \A k \in 1..Len(captured) : Behind(trace, at, captured[k].met)
    /\ \A a, b \in 1..Len(captured) : SameRoute(captured[a].met, captured[b].met)

BInv == Types /\ Bounded /\ Current /\ Kept /\ OneRoute

-----------------------------------------------------------------------------

LEMMA StackSize ==
    INT_MAX_HOPS \in Nat /\ 1 <= INT_MAX_HOPS /\ INT_MAX_HOPS <= 255
<1>1. INT_MAX_HOPS \in 1..255
    BY Zenon, NetworkAssumption
<1> QED BY <1>1

LEMMA OneCloser ==
    ASSUME NEW i \in Nat, NEW a \in Nat, NEW b \in Nat, NEW max \in Nat,
           a < b, i + b <= max
    PROVE  i + 1 + a <= max
  OBVIOUS

LEMMA FlowTypes ==
    ASSUME flow \in Flow
    PROVE  /\ flow[1] \in EndHost /\ flow[2] \in EndHost
           /\ HostPort(flow[1]) \in IntSwitch \X Port /\ HostPort(flow[1]) \notin EndHost
           /\ int_source(HostPort(flow[1])[1], HostPort(flow[1])[2])
  BY NetworkAssumption

LEMMA Distance ==
    ASSUME NEW dst \in EndHost
    PROVE  \E left \in [IntSwitch -> 1..INT_MAX_HOPS] : Descends(left, dst)
  BY NetworkAssumption DEF Descends

LEMMA InitBInv == Init => BInv
<1> SUFFICES ASSUME Init PROVE BInv
    OBVIOUS
<1>1. flow \in Flow /\ frame = Plain /\ at = HostPort(flow[1]) /\ trace = <<>> /\ captured = <<>>
    BY DEF Init
<1>2. Types
    <2>1. Plain \in Frame
        BY DEF Plain, Frame
    <2> QED BY <2>1 DEF Init, Types
<1>3. Bounded
    <2>1. PICK left \in [IntSwitch -> 1..INT_MAX_HOPS] : Descends(left, flow[2])
        BY <1>1, FlowTypes, Distance
    <2>2. left[at[1]] \in 1..INT_MAX_HOPS /\ INT_MAX_HOPS \in Nat
        BY <1>1, FlowTypes, StackSize
    <2> QED BY <1>1, <2>1, <2>2, FlowTypes DEF Bounded
<1>4. Current
    BY <1>1 DEF Current, Records, Follows, OnTime, Plain
<1>5. Kept /\ OneRoute
    BY <1>1 DEF Kept, OneRoute
<1> QED BY <1>2, <1>3, <1>4, <1>5 DEF BInv

-----------------------------------------------------------------------------
(* Sequences *)

LEMMA Whole ==
    ASSUME NEW T, NEW s \in Seq(T), NEW n \in Nat, Len(s) <= n
    PROVE  upTo(s, n) = s
<1>1. upTo(s, n) = SubSeq(s, 1, Len(s))
    <2>1. CASE Len(s) < n
        BY <2>1 DEF upTo
    <2>2. CASE ~ Len(s) < n
        BY <2>2 DEF upTo
    <2> QED BY <2>1, <2>2
<1> QED BY <1>1, SubSeqFull

LEMMA InFront ==
    ASSUME NEW s \in Seq(Rec), NEW r \in Rec
    PROVE  /\ <<r>> \o s \in Seq(Rec) /\ Len(<<r>> \o s) = Len(s) + 1
           /\ (<<r>> \o s)[1] = r
           /\ \A j \in 1..Len(s) : (<<r>> \o s)[j + 1] = s[j]
<1>1. <<r>> \in Seq(Rec) /\ Len(<<r>>) = 1 /\ <<r>>[1] = r
    OBVIOUS
<1> QED BY <1>1, ConcatProperties

-----------------------------------------------------------------------------
(* A switch's parser, pipeline and deparser: one more record in front *)

Refill(h, s, k) == [h EXCEPT !.recs = s, !.hopCount = k]

LEMMA Refilled ==
    ASSUME NEW h \in Frame, NEW s \in Seq(Rec), NEW k \in Nat
    PROVE  /\ Refill(h, s, k) \in Frame
           /\ Refill(h, s, k).recs = s /\ Refill(h, s, k).hopCount = k
           /\ Refill(h, s, k).etherType = h.etherType
           /\ Refill(h, s, k).origEtherType = h.origEtherType
  BY DEF Frame, Refill

LEMMA Pushed ==
    ASSUME NEW f \in Frame, NEW t \in Seq(Met), NEW r \in Rec,
           Records(f, t, off), Len(t) + 1 <= INT_MAX_HOPS,
           NEW g, g = int_append_hop(Shim(f), r)
    PROVE  /\ g \in Frame /\ g.etherType = "INT" /\ g.origEtherType = "IPV4"
           /\ g.hopCount = Len(t) + 1 /\ Len(g.recs) = Len(t) + 1
           /\ Record(g, Len(t) + 1) = r
           /\ \A i \in 1..Len(t) : Record(g, i) = Record(f, i)
<1> DEFINE h == Shim(f)
           n == Len(t)
<1>1. /\ h \in Frame /\ h.recs = f.recs /\ h.hopCount = n /\ h.etherType = "INT"
      /\ h.origEtherType = "IPV4"
    BY DEF Shim, Frame, Records
<1>2. h.recs \in Seq(Rec) /\ f.recs = h.recs /\ Len(h.recs) = n /\ n \in Nat
    BY <1>1 DEF Frame, Records
<1> HIDE DEF h
<1>3. stack(h) = h.recs
    BY <1>1, <1>2, Whole DEF stack
<1> DEFINE recs == <<r>> \o h.recs
<1>4. /\ recs \in Seq(Rec) /\ Len(recs) = n + 1 /\ recs[1] = r
      /\ \A j \in 1..n : recs[j + 1] = h.recs[j]
    <2>1. /\ <<r>> \o h.recs \in Seq(Rec) /\ Len(<<r>> \o h.recs) = Len(h.recs) + 1
          /\ (<<r>> \o h.recs)[1] = r
          /\ \A j \in 1..Len(h.recs) : (<<r>> \o h.recs)[j + 1] = h.recs[j]
        BY <1>2, InFront, Zenon
    <2> QED BY <1>2, <2>1
<1> HIDE DEF recs
<1>5. push_front(stack(h), r) = recs
    <2>1. upTo(recs, INT_MAX_HOPS) = recs
        BY <1>2, <1>4, StackSize, Whole
    <2> QED BY <1>3, <2>1 DEF push_front, recs
<1>6. (n + 1) % 256 = n + 1
    BY <1>2, StackSize
<1>7. g = Refill(h, recs, n + 1)
    BY <1>1, <1>5, <1>6 DEF int_append_hop, h, Refill
<1>8. /\ g \in Frame /\ g.etherType = "INT" /\ g.origEtherType = "IPV4"
      /\ g.hopCount = n + 1 /\ g.recs = recs
    <2>1. h \in Frame /\ recs \in Seq(Rec) /\ n + 1 \in Nat
        BY <1>1, <1>2, <1>4
    <2>2. /\ g \in Frame /\ g.recs = recs /\ g.hopCount = n + 1
          /\ g.etherType = h.etherType /\ g.origEtherType = h.origEtherType
        BY <1>7, <2>1, Refilled
    <2> QED BY <1>1, <2>2, Zenon
<1>9. Record(g, n + 1) = r
    BY <1>2, <1>4, <1>8 DEF Record
<1>10. ASSUME NEW i \in 1..n PROVE Record(g, i) = Record(f, i)
    <2>1. n + 1 - i \in 1..n /\ n + 1 + 1 - i = (n + 1 - i) + 1
        BY <1>2
    <2>2. recs[(n + 1 - i) + 1] = f.recs[n + 1 - i]
        BY <1>2, <1>4, <2>1
    <2> QED BY <1>2, <1>4, <1>8, <2>1, <2>2 DEF Record
<1> QED BY <1>4, <1>8, <1>9, <1>10

LEMMA Longer ==
    ASSUME NEW t \in Seq(Met), NEW m \in Met, NEW u, u = Append(t, m)
    PROVE  /\ u \in Seq(Met) /\ u # <<>> /\ Len(u) = Len(t) + 1
           /\ \A i \in 1..Len(t) : u[i] = t[i]
           /\ u[Len(t) + 1] = m
  BY AppendProperties

LEMMA Clocks ==
    ASSUME NEW a \in Int, NEW b \in Int, NEW c \in Int, NEW d \in Int, NEW e \in Int, NEW x \in Int,
           a + b + c = d + e
    PROVE  (d + x) - a = b + c + (x - e)
  OBVIOUS

\* u is t with one more hop m, g is f with one more record r.
Grown(f, g, r, t, u, m, n) ==
    /\ Len(t) = n /\ Len(u) = n + 1 /\ (t = <<>> <=> n = 0) /\ u # <<>>
    /\ \A i \in 1..n : u[i] = t[i]
    /\ u[n + 1] = m
    /\ r.switch_id = tb_swid(m.sw) /\ r.ingress_port = m.in /\ r.egress_port = m.out
    /\ r.hop_latency = m.wait
    /\ g.etherType = "INT" /\ g.origEtherType = "IPV4" /\ g.hopCount = n + 1
    /\ Len(g.recs) = n + 1 /\ Record(g, n + 1) = r
    /\ \A i \in 1..n : Record(g, i) = Record(f, i)
Timed(f, t, n, o) ==
    \A i \in 1..n : /\ Record(f, i).ingress_ts \in Int
                    /\ t[i].wait \in Int /\ t[i].wire \in Int /\ o[t[i].sw] \in Int

LEMMA RecordsGrow ==
    ASSUME NEW n \in Nat, NEW f, NEW g, NEW t, NEW u, NEW r, NEW m, NEW now \in Int,
           Records(f, t, off), Timed(f, t, n, off), Grown(f, g, r, t, u, m, n),
           off[m.sw] \in Int, r.ingress_ts = now + off[m.sw],
           n # 0 => Record(f, n).ingress_ts + t[n].wait + t[n].wire = now + off[t[n].sw]
    PROVE  Records(g, u, off)
<1>2. ASSUME NEW i \in 1..(n + 1)
      PROVE  /\ Record(g, i).switch_id = tb_swid(u[i].sw)
             /\ Record(g, i).ingress_port = u[i].in
             /\ Record(g, i).egress_port = u[i].out
             /\ Record(g, i).hop_latency = u[i].wait
    <2>1. CASE i = n + 1
        BY <2>1 DEF Grown
    <2>2. CASE i \in 1..n
        BY <2>2 DEF Records, Grown
    <2> QED BY <2>1, <2>2
<1>3. ASSUME NEW i \in 1..n
      PROVE  Record(g, i + 1).ingress_ts - Record(g, i).ingress_ts
               = u[i].wait + u[i].wire + Drift(u, i, off)
    <2>1. CASE i < n
        <3>1. i + 1 \in 1..n /\ i \in 1..(n - 1)
            BY <2>1
        <3> QED BY <3>1 DEF Records, Drift, Grown
    <2>2. CASE i = n
        <3>1. /\ Record(g, i + 1) = r /\ Record(g, i) = Record(f, n)
              /\ u[i] = t[n] /\ u[i + 1] = m /\ n # 0
            BY <2>2 DEF Grown
        <3>2. /\ off[t[n].sw] \in Int
              /\ Record(f, n).ingress_ts \in Int /\ t[n].wait \in Int /\ t[n].wire \in Int
            BY <2>2 DEF Timed
        <3>3. (now + off[m.sw]) - Record(f, n).ingress_ts
                = t[n].wait + t[n].wire + (off[m.sw] - off[t[n].sw])
            BY <3>1, <3>2, Clocks
        <3>4. Drift(u, i, off) = off[m.sw] - off[t[n].sw]
            BY <3>1 DEF Drift
        <3> QED BY <3>1, <3>3, <3>4
    <2>3. i < n \/ i = n
        OBVIOUS
    <2> QED BY <2>1, <2>2, <2>3
<1> QED BY <1>2, <1>3 DEF Records, Grown

LEMMA FrameTimes ==
    ASSUME NEW f \in Frame, NEW t \in Seq(Met), off \in [IntSwitch -> Int], Records(f, t, off)
    PROVE  Timed(f, t, Len(t), off)
<1>1. f.recs \in Seq(Rec) /\ Len(f.recs) = Len(t)
    BY DEF Frame, Records
<1>2. ASSUME NEW i \in 1..Len(t)
      PROVE  /\ Record(f, i).ingress_ts \in Int
             /\ t[i].wait \in Int /\ t[i].wire \in Int /\ off[t[i].sw] \in Int
    <2>1. Len(f.recs) + 1 - i \in 1..Len(f.recs)
        BY <1>1
    <2>2. Record(f, i) \in Rec
        BY <1>1, <2>1 DEF Record
    <2>3. t[i] \in Met
        OBVIOUS
    <2> QED BY <2>2, <2>3 DEF Rec, Met
<1> QED BY <1>2 DEF Timed

LEMMA HopGrows ==
    ASSUME frame \in Frame, trace \in Seq(Met), NEW r \in Rec, NEW m \in Met,
           Records(frame, trace, off), Len(trace) + 1 <= INT_MAX_HOPS,
           r.switch_id = tb_swid(m.sw), r.ingress_port = m.in, r.egress_port = m.out,
           r.hop_latency = m.wait,
           frame' = int_append_hop(Shim(frame), r), trace' = Append(trace, m)
    PROVE  /\ frame' \in Frame /\ trace' \in Seq(Met) /\ Len(trace) \in Nat
           /\ Grown(frame, frame', r, trace, trace', m, Len(trace))
<1>1. /\ trace' \in Seq(Met) /\ trace' # <<>> /\ Len(trace') = Len(trace) + 1
      /\ \A i \in 1..Len(trace) : trace'[i] = trace[i]
      /\ trace'[Len(trace) + 1] = m
    BY Longer
<1>2. /\ frame' \in Frame /\ frame'.etherType = "INT" /\ frame'.origEtherType = "IPV4"
      /\ frame'.hopCount = Len(trace) + 1 /\ Len(frame'.recs) = Len(trace) + 1
      /\ Record(frame', Len(trace) + 1) = r
      /\ \A i \in 1..Len(trace) : Record(frame', i) = Record(frame, i)
    BY Pushed
<1>3. Len(trace) \in Nat /\ (trace = <<>> <=> Len(trace) = 0)
    OBVIOUS
<1> QED BY <1>1, <1>2, <1>3 DEF Grown

LEMMA Element ==
    ASSUME NEW T, NEW s \in Seq(T), NEW k \in 1..Len(s)
    PROVE  s[k] \in T
  OBVIOUS

LEMMA LaterClock ==
    ASSUME NEW now \in Int, NEW x \in Int, NEW q \in Int, NEW l \in Int
    PROVE  (now + x) + q + l = (now + q + l) + x
  OBVIOUS

-----------------------------------------------------------------------------
(* A hop *)

\* What a hop does, apart from the definitions it is written in.
LEMMA HopEffect ==
    ASSUME BInv, NEW q \in Wait, NEW l \in Wire, Hop(q, l)
    PROVE  \E r \in Rec, m \in Met :
             /\ r.switch_id = tb_swid(m.sw) /\ r.ingress_port = m.in /\ r.egress_port = m.out
             /\ r.hop_latency = m.wait /\ r.ingress_ts = clock + off[m.sw]
             /\ m.wait = q /\ m.wire = l /\ Place(m) = at
             /\ at \in IntSwitch \X Port /\ at \notin EndHost
             /\ frame' = int_append_hop(Shim(frame), r)
             /\ trace' = Append(trace, m) /\ clock' = clock + q + l
             /\ at' = After(m.sw, flow, pick) /\ UNCHANGED <<flow, pick, off, captured>>
             /\ at' \notin EndHost => at' \in IntSwitch \X Port
             /\ \E left \in [IntSwitch -> 1..INT_MAX_HOPS] :
                   /\ Descends(left, flow[2]) /\ Len(trace) + left[m.sw] <= INT_MAX_HOPS
                   /\ at' \notin EndHost => left[at'[1]] < left[m.sw]
<1> DEFINE s    == at[1]
           port == EgressSpec(s, flow[2], pick)
           next == LinkedTo(s, port)
           r    == [switch_id |-> tb_swid(s), ingress_port |-> at[2], egress_port |-> port,
                    hop_latency |-> q, ingress_ts |-> clock + off[s]]
           m    == [sw |-> s, in |-> at[2], out |-> port, wait |-> q, wire |-> l]
<1>1. /\ at \notin EndHost /\ UNCHANGED <<flow, pick, off, captured>>
      /\ frame' = (IF frame.etherType = "INT" \/ int_source(s, at[2])
                   THEN int_append_hop(Shim(frame), r) ELSE frame)
      /\ trace' = Append(trace, m) /\ clock' = clock + q + l
      /\ at' = (IF next \in EndHost THEN next ELSE <<next, FarPort(s, port)>>)
    BY DEF Hop
<1>2. /\ flow \in Flow /\ pick \in 0..(Group - 1) /\ off \in [IntSwitch -> Int] /\ clock \in Int
      /\ q \in Int /\ l \in Int
    BY NetworkAssumption DEF BInv, Types
<1>3. PICK left \in [IntSwitch -> 1..INT_MAX_HOPS] :
          /\ Descends(left, flow[2]) /\ Len(trace) + left[s] <= INT_MAX_HOPS
    BY <1>1 DEF BInv, Bounded
<1>4. /\ at \in IntSwitch \X Port /\ s \in IntSwitch /\ at[2] \in Port /\ at = <<s, at[2]>>
      /\ port \in Port
      /\ \/ next \in EndHost
         \/ next \in IntSwitch /\ left[next] < left[s] /\ FarPort(s, port) \in Port
    BY <1>1, <1>2, <1>3 DEF BInv, Bounded, Descends
<1>5. frame.etherType = "INT" \/ int_source(s, at[2])
    BY <1>2, FlowTypes DEF BInv, Current, Records, Follows
<1>6. m \in Met /\ r \in Rec
    BY <1>2, <1>4 DEF Met, Rec
<1>7. at' = After(s, flow, pick)
    BY <1>1 DEF After
<1>8. at' \notin EndHost => at' \in IntSwitch \X Port /\ left[at'[1]] < left[s]
    BY <1>1, <1>4
<1>9. Place(m) = at
    BY <1>4 DEF Place
<1> QED BY <1>1, <1>3, <1>4, <1>5, <1>6, <1>7, <1>8, <1>9

LEMMA HopInv ==
    ASSUME BInv, NEW q \in Wait, NEW l \in Wire, Hop(q, l)
    PROVE  BInv'
<1> DEFINE n == Len(trace)
<1>1. PICK r \in Rec, m \in Met :
          /\ r.switch_id = tb_swid(m.sw) /\ r.ingress_port = m.in /\ r.egress_port = m.out
          /\ r.hop_latency = m.wait /\ r.ingress_ts = clock + off[m.sw]
          /\ m.wait = q /\ m.wire = l /\ Place(m) = at
          /\ at \in IntSwitch \X Port /\ at \notin EndHost
          /\ frame' = int_append_hop(Shim(frame), r)
          /\ trace' = Append(trace, m) /\ clock' = clock + q + l
          /\ at' = After(m.sw, flow, pick) /\ UNCHANGED <<flow, pick, off, captured>>
          /\ at' \notin EndHost => at' \in IntSwitch \X Port
          /\ \E left \in [IntSwitch -> 1..INT_MAX_HOPS] :
                /\ Descends(left, flow[2]) /\ Len(trace) + left[m.sw] <= INT_MAX_HOPS
                /\ at' \notin EndHost => left[at'[1]] < left[m.sw]
    BY HopEffect
<1>2. /\ flow \in Flow /\ pick \in 0..(Group - 1) /\ off \in Offset /\ clock \in Int
      /\ off \in [IntSwitch -> Int] /\ q \in Int /\ l \in Int
      /\ frame \in Frame /\ trace \in Seq(Met) /\ n \in Nat
      /\ captured \in Seq([f : Frame, met : Seq(Met)])
    BY NetworkAssumption DEF BInv, Types
<1>3. PICK left \in [IntSwitch -> 1..INT_MAX_HOPS] :
          /\ Descends(left, flow[2]) /\ n + left[m.sw] <= INT_MAX_HOPS
          /\ at' \notin EndHost => left[at'[1]] < left[m.sw]
    BY <1>1
<1>4. m.sw \in IntSwitch /\ m.in \in Port
    BY DEF Met
<1>5. n + 1 <= INT_MAX_HOPS
    <2>1. left[m.sw] \in 1..INT_MAX_HOPS
        BY <1>4
    <2> QED BY <1>2, <1>3, <2>1, StackSize
<1>6. /\ Records(frame, trace, off) /\ Follows(trace, at, flow, pick)
      /\ OnTime(frame, trace, clock, off)
    BY DEF BInv, Current
<1>7. /\ frame' \in Frame /\ trace' \in Seq(Met)
      /\ Grown(frame, frame', r, trace, trace', m, n)
    BY <1>1, <1>2, <1>5, <1>6, HopGrows, Zenon
<1>8. /\ trace' # <<>> /\ Len(trace') = n + 1 /\ trace'[n + 1] = m
      /\ \A i \in 1..n : trace'[i] = trace[i]
      /\ Record(frame', n + 1) = r
    BY <1>7 DEF Grown
<1>9. Types'
    <2>1. clock + q + l \in Int
        BY <1>2
    <2> QED BY <1>1, <1>2, <1>7, <2>1 DEF Types
<1>10. Bounded'
    <2>1. at' \notin EndHost => n + 1 + left[at'[1]] <= INT_MAX_HOPS
        <3> SUFFICES ASSUME at' \notin EndHost PROVE n + 1 + left[at'[1]] <= INT_MAX_HOPS
            OBVIOUS
        <3>1. left[at'[1]] < left[m.sw] /\ at'[1] \in IntSwitch
            BY <1>1, <1>3
        <3>2. left[at'[1]] \in Nat /\ left[m.sw] \in Nat
            BY <1>4, <3>1, StackSize
        <3>3. n \in Nat /\ n + left[m.sw] <= INT_MAX_HOPS
            BY <1>2, <1>3
        <3> HIDE DEF n
        <3> QED BY <3>1, <3>2, <3>3, StackSize, OneCloser
    <2>2. Descends(left, flow'[2])
        BY <1>1, <1>3 DEF Descends
    <2> QED BY <1>1, <1>5, <1>8, <2>1, <2>2 DEF Bounded
<1>11. Records(frame', trace', off)
    <2>1. Timed(frame, trace, n, off) /\ off[m.sw] \in Int
        BY <1>2, <1>4, <1>6, FrameTimes
    <2>2. n # 0 => Record(frame, n).ingress_ts + trace[n].wait + trace[n].wire
                     = clock + off[trace[n].sw]
        <3>1. trace = <<>> <=> n = 0
            BY <1>2
        <3> QED BY <1>6, <3>1 DEF OnTime
    <2>3. r.ingress_ts = clock + off[m.sw]
        BY <1>1
    <2>4. n \in Nat /\ clock \in Int /\ Records(frame, trace, off)
        BY <1>2, <1>6
    <2>5. Grown(frame, frame', r, trace, trace', m, n)
        BY <1>7
    <2> HIDE DEF n
    <2> QED BY <2>1, <2>2, <2>3, <2>4, <2>5, RecordsGrow, Zenon
<1>12. Records(frame, trace, off)'
    BY <1>1, <1>11
<1>13. OnTime(frame, trace, clock, off)'
    <2>1. Record(frame', n + 1).ingress_ts + m.wait + m.wire = clock' + off[m.sw]
        <3>1. off[m.sw] \in Int
            BY <1>2, <1>4
        <3>2. (clock + off[m.sw]) + q + l = (clock + q + l) + off[m.sw]
            BY <1>2, <3>1, LaterClock
        <3> QED BY <1>1, <1>8, <3>2
    <2> QED BY <1>1, <1>8, <2>1 DEF OnTime
<1>14. Follows(trace, at, flow, pick)'
    <2>2. Place(trace'[1]) = HostPort(flow[1])
        BY <1>1, <1>2, <1>6, <1>8 DEF Follows
    <2>3. ASSUME NEW i \in 1..n
          PROVE  /\ Place(trace'[i + 1]) = After(trace'[i].sw, flow, pick)
                 /\ Place(trace'[i + 1]) \notin EndHost
        <3>1. CASE i = n
            BY <1>1, <1>2, <1>6, <1>8, <3>1 DEF Follows
        <3>2. CASE i < n
            <4>1. i \in 1..(n - 1) /\ i + 1 \in 1..n
                BY <1>2, <3>2
            <4> QED BY <1>6, <1>8, <4>1 DEF Follows
        <3> QED BY <1>2, <3>1, <3>2
    <2>4. \A i \in 1..(Len(trace') - 1) :
              /\ Place(trace'[i + 1]) = After(trace'[i].sw, flow, pick)
              /\ Place(trace'[i + 1]) \notin EndHost
        <3>1. 1..(Len(trace') - 1) = 1..n
            BY <1>2, <1>8
        <3> QED BY <2>3, <3>1
    <2>5. Follows(trace', at', flow, pick)
        BY <1>1, <1>8, <2>2, <2>4 DEF Follows
    <2> QED BY <1>1, <2>5
<1>15. Kept'
    <2>1. Kept
        BY DEF BInv
    <2> QED BY <1>1, <2>1 DEF Kept
<1>16. ASSUME NEW k \in 1..Len(captured) PROVE Behind(trace', at', captured[k].met)
    <2> DEFINE c == captured[k].met
    <2>1. Behind(trace, at, c) /\ Len(c) \in Nat /\ c \in Seq(Met)
        <3>1. captured[k] \in [f : Frame, met : Seq(Met)]
            BY <1>2, Element, Zenon
        <3>2. c \in Seq(Met)
            BY <3>1
        <3>3. Behind(trace, at, c)
            BY DEF BInv, OneRoute
        <3> QED BY <3>2, <3>3
    <2>2. PICK p \in EndHost : Follows(c, p, flow, pick)
        BY DEF BInv, Kept
    <2> HIDE DEF c
    <2>3. n < Len(c) /\ at = Place(c[n + 1])
        <3>1. n <= Len(c) /\ n # Len(c)
            BY <1>1, <2>1 DEF Behind
        <3>2. n < Len(c)
            BY <1>2, <2>1, <3>1
        <3> QED BY <2>1, <3>2 DEF Behind
    <2>4. m.sw = c[n + 1].sw /\ m.in = c[n + 1].in
        BY <1>1, <2>3 DEF Place
    <2>5. n + 1 < Len(c) => at' = Place(c[n + 1 + 1]) /\ at' \notin EndHost
        <3> SUFFICES ASSUME n + 1 < Len(c) PROVE at' = Place(c[n + 1 + 1]) /\ at' \notin EndHost
            OBVIOUS
        <3>1. n + 1 \in 1..(Len(c) - 1)
            BY <1>2, <2>1
        <3> QED BY <1>1, <2>2, <2>4, <3>1 DEF Follows
    <2>6. n + 1 = Len(c) => at' \in EndHost
        <3> SUFFICES ASSUME n + 1 = Len(c) PROVE at' \in EndHost
            OBVIOUS
        <3>1. c # <<>>
            BY <1>2, <2>3
        <3> QED BY <1>1, <2>2, <2>4, <3>1 DEF Follows
    <2>7. \A i \in 1..(n + 1) : trace'[i].sw = c[i].sw /\ trace'[i].in = c[i].in
        <3>1. ASSUME NEW i \in 1..(n + 1) PROVE trace'[i].sw = c[i].sw /\ trace'[i].in = c[i].in
            <4>1. CASE i = n + 1
                BY <1>8, <2>4, <4>1
            <4>2. CASE i \in 1..n
                BY <1>8, <2>1, <4>2 DEF Behind
            <4> QED BY <1>2, <4>1, <4>2
        <3> QED BY <3>1
    <2>8. n + 1 <= Len(c)
        BY <1>2, <2>1, <2>3
    <2> QED BY <1>8, <2>5, <2>6, <2>7, <2>8 DEF Behind, c
<1>17. OneRoute'
    <2>1. OneRoute /\ captured' = captured
        BY <1>1 DEF BInv
    <2> QED BY <1>16, <2>1 DEF OneRoute
<1> QED BY <1>9, <1>10, <1>12, <1>13, <1>14, <1>15, <1>17 DEF BInv, Current

-----------------------------------------------------------------------------
(* The capture of a frame *)

LEMMA Starts ==
    ASSUME flow \in Flow, NEW m \in Seq(Met), 1 <= Len(m), NEW p,
           Follows(m, p, flow, pick)
    PROVE  Behind(<<>>, HostPort(flow[1]), m)
<1>1. m # <<>> /\ Len(m) \in Nat
    OBVIOUS
<1>2. Place(m[1]) = HostPort(flow[1]) /\ HostPort(flow[1]) \notin EndHost
    BY <1>1, FlowTypes DEF Follows
<1>3. Len(<<>>) = 0 /\ 0 <= Len(m) /\ 0 # Len(m)
    BY <1>1
<1> QED BY <1>2, <1>3 DEF Behind

LEMMA Arrived ==
    ASSUME NEW t \in Seq(Met), NEW p \in EndHost, NEW m \in Seq(Met), Behind(t, p, m)
    PROVE  SameRoute(t, m) /\ SameRoute(m, t)
<1>1. Len(t) <= Len(m) /\ ~ Len(t) < Len(m) /\ Len(t) \in Nat /\ Len(m) \in Nat
    BY DEF Behind
<1>2. Len(t) = Len(m)
    BY <1>1
<1> QED BY <1>2 DEF Behind, SameRoute

LEMMA CaptureInv ==
    ASSUME BInv, Capture
    PROVE  BInv'
<1> DEFINE e == [f |-> frame, met |-> trace]
           n == Len(captured)
           C == [f : Frame, met : Seq(Met)]
<1>1. /\ at \in EndHost /\ captured' = Append(captured, e) /\ frame' = Plain
      /\ at' = HostPort(flow[1]) /\ trace' = <<>> /\ UNCHANGED <<flow, pick, off, clock>>
    BY DEF Capture
<1>2. /\ flow \in Flow /\ pick \in 0..(Group - 1) /\ off \in Offset /\ clock \in Int
      /\ frame \in Frame /\ trace \in Seq(Met) /\ captured \in Seq(C)
    BY DEF BInv, Types
<1>3. e \in C /\ e.f = frame /\ e.met = trace
    BY <1>2
<1> HIDE DEF e, C
<1>4. /\ captured' \in Seq(C) /\ Len(captured') = n + 1 /\ n \in Nat
      /\ \A k \in 1..n : captured'[k] = captured[k]
      /\ captured'[n + 1] = e
    BY <1>1, <1>2, <1>3
<1>5. \A k \in 1..Len(captured') : k \in 1..n \/ k = n + 1
    BY <1>4
<1>6. Types'
    <2>1. Plain \in Frame
        BY DEF Plain, Frame
    <2> QED BY <1>1, <1>2, <1>4, <2>1 DEF Types, C
<1>7. Bounded'
    <2>1. PICK left \in [IntSwitch -> 1..INT_MAX_HOPS] : Descends(left, flow[2])
        BY <1>2, FlowTypes, Distance
    <2>2. HostPort(flow[1]) \in IntSwitch \X Port /\ HostPort(flow[1])[1] \in IntSwitch
        BY <1>2, FlowTypes
    <2>3. left[HostPort(flow[1])[1]] \in 1..INT_MAX_HOPS
        BY <2>2
    <2>4. Descends(left, flow'[2])
        BY <1>1, <2>1
    <2>5. Len(trace') = 0 /\ 0 <= INT_MAX_HOPS /\ 0 + left[at'[1]] <= INT_MAX_HOPS
        BY <1>1, <2>3, StackSize
    <2> QED BY <1>1, <2>2, <2>4, <2>5 DEF Bounded
<1>8. Current'
    BY <1>1 DEF Current, Records, Follows, OnTime, Plain
<1>9. /\ Records(frame, trace, off) /\ Follows(trace, at, flow, pick)
      /\ 1 <= Len(trace) /\ Len(trace) <= INT_MAX_HOPS
    <2>1. Records(frame, trace, off) /\ Follows(trace, at, flow, pick) /\ Len(trace) <= INT_MAX_HOPS
        BY DEF BInv, Current, Bounded
    <2>2. trace # <<>>
        BY <1>1, <1>2, <2>1, FlowTypes DEF Follows
    <2>3. 1 <= Len(trace)
        BY <1>2, <2>2
    <2> QED BY <2>1, <2>3
<1>10. Kept'
    <2>1. ASSUME NEW k \in 1..Len(captured')
          PROVE  LET m == captured'[k].met
                 IN  /\ Records(captured'[k].f, m, off) /\ 1 <= Len(m) /\ Len(m) <= INT_MAX_HOPS
                     /\ \E p \in EndHost : Follows(m, p, flow, pick)
        <3>1. CASE k \in 1..n
            BY <1>4, <3>1 DEF BInv, Kept
        <3>2. CASE k = n + 1
            BY <1>1, <1>3, <1>4, <1>9, <3>2
        <3> QED BY <1>5, <3>1, <3>2
    <2> QED BY <1>1, <2>1 DEF Kept
<1>11. \A k \in 1..Len(captured') : captured'[k].met \in Seq(Met)
    <2>1. ASSUME NEW k \in 1..Len(captured') PROVE captured'[k].met \in Seq(Met)
        <3>1. captured'[k] \in C
            BY <1>4, Element, Zenon
        <3> QED BY <3>1 DEF C
    <2> QED BY <2>1
<1>12. \A k \in 1..Len(captured') : Behind(trace', at', captured'[k].met)
    <2>1. ASSUME NEW k \in 1..Len(captured') PROVE Behind(trace', at', captured'[k].met)
        <3>1. PICK p \in EndHost : /\ Follows(captured'[k].met, p, flow, pick)
                                /\ 1 <= Len(captured'[k].met)
            BY <1>1, <1>10 DEF Kept
        <3>2. Behind(<<>>, HostPort(flow[1]), captured'[k].met)
            BY <1>2, <1>11, <3>1, Starts
        <3> QED BY <1>1, <3>2
    <2> QED BY <2>1
<1>13. \A a, b \in 1..Len(captured') : SameRoute(captured'[a].met, captured'[b].met)
    <2>1. ASSUME NEW k \in 1..n
          PROVE  SameRoute(trace, captured[k].met) /\ SameRoute(captured[k].met, trace)
        <3>1. Behind(trace, at, captured[k].met)
            BY DEF BInv, OneRoute
        <3>2. k \in 1..Len(captured') /\ captured'[k] = captured[k]
            BY <1>4
        <3>3. captured[k].met \in Seq(Met)
            BY <1>11, <3>2
        <3> QED BY <1>1, <1>2, <3>1, <3>3, Arrived, Zenon
    <2>2. SameRoute(trace, trace)
        BY DEF SameRoute
    <2>3. \A a, b \in 1..n : SameRoute(captured[a].met, captured[b].met)
        BY DEF BInv, OneRoute
    <2>4. ASSUME NEW a \in 1..Len(captured'), NEW b \in 1..Len(captured')
          PROVE  SameRoute(captured'[a].met, captured'[b].met)
        <3>1. CASE a \in 1..n /\ b \in 1..n
            BY <1>4, <2>3, <3>1
        <3>2. CASE a = n + 1 /\ b \in 1..n
            BY <1>3, <1>4, <2>1, <3>2
        <3>3. CASE a \in 1..n /\ b = n + 1
            BY <1>3, <1>4, <2>1, <3>3
        <3>4. CASE a = n + 1 /\ b = n + 1
            BY <1>3, <1>4, <2>2, <3>4
        <3> QED BY <1>5, <3>1, <3>2, <3>3, <3>4
    <2> QED BY <2>4
<1> QED BY <1>6, <1>7, <1>8, <1>10, <1>12, <1>13 DEF BInv, OneRoute

LEMMA NextBInv == BInv /\ [Next]_vars => BInv'
<1> SUFFICES ASSUME BInv, [Next]_vars PROVE BInv'
    OBVIOUS
<1>1. ASSUME NEW q \in Wait, NEW l \in Wire, Hop(q, l) PROVE BInv'
    BY <1>1, HopInv
<1>2. CASE Capture
    BY <1>2, CaptureInv
<1>3. CASE UNCHANGED vars
    BY <1>3 DEF vars, BInv, Types, Bounded, Current, Kept, OneRoute
<1> QED BY <1>1, <1>2, <1>3 DEF Next

LEMMA AlwaysBInv == Spec => []BInv
  BY InitBInv, NextBInv, PTL DEF Spec

-----------------------------------------------------------------------------
(* What the collector makes of it *)

LEMMA ReadBack ==
    ASSUME NEW f \in Frame, NEW t \in Seq(Met), Records(f, t, off)
    PROVE  /\ Len(parse_int(f)) = Len(t)
           /\ DOMAIN parse_int(f) = 1..Len(t)
           /\ \A i \in 1..Len(t) : parse_int(f)[i] = Record(f, i)
<1>1. f.recs \in Seq(Rec) /\ f.hopCount = Len(f.recs) /\ Len(f.recs) = Len(t) /\ f.hopCount \in Nat
    BY DEF Frame, Records
<1>2. Len(f.recs) <= f.hopCount
    BY <1>1
<1>3. upTo(f.recs, f.hopCount) = f.recs
    BY <1>1, <1>2, Whole, Zenon
<1>4. parse_int(f) = [i \in 1..Len(f.recs) |-> f.recs[(Len(f.recs) - i) + 1]]
    BY <1>3 DEF parse_int, Reverse
<1>5. DOMAIN parse_int(f) = 1..Len(t)
    BY <1>1, <1>4
<1>6. Len(parse_int(f)) = Len(t)
    BY <1>1, <1>5, <1>4
<1>7. ASSUME NEW i \in 1..Len(t) PROVE parse_int(f)[i] = Record(f, i)
    <2>1. (Len(f.recs) - i) + 1 = Len(f.recs) + 1 - i
        BY <1>1
    <2> QED BY <1>1, <1>4, <2>1 DEF Record
<1> QED BY <1>5, <1>6, <1>7

LEMMA Captured ==
    ASSUME BInv, NEW k \in DOMAIN captured
    PROVE  /\ k \in 1..Len(captured)
           /\ captured[k].f \in Frame /\ captured[k].met \in Seq(Met)
           /\ Records(captured[k].f, captured[k].met, off)
           /\ 1 <= Len(captured[k].met) /\ Len(captured[k].met) <= INT_MAX_HOPS
<1>1. captured \in Seq([f : Frame, met : Seq(Met)])
    BY DEF BInv, Types
<1>2. k \in 1..Len(captured)
    BY <1>1
<1>3. captured[k] \in [f : Frame, met : Seq(Met)]
    BY <1>1, <1>2, Element, Zenon
<1> QED BY <1>2, <1>3 DEF BInv, Kept

(* In every network whose tables bring frames home over INT_MAX_HOPS        *)
(* switches at most, the collector reads back one record of every switch a  *)
(* frame crossed, in order, with its ports (baseline_int.p4:124-133,        *)
(* int_collector.py:38-48): parser, stack and hop counter never disagree.   *)
THEOREM StackIsAlwaysRoute == Spec => []StackIsRoute
<1>1. BInv => StackIsRoute
    <2> SUFFICES ASSUME BInv, NEW k \in DOMAIN captured
                 PROVE  LET f == captured[k].f
                            t == captured[k].met
                        IN  /\ isInt(f) /\ f.origEtherType = "IPV4" /\ ipv4Valid(f)
                            /\ Len(parse_int(f)) = Len(t)
                            /\ \A i \in DOMAIN t :
                                  LET h == parse_int(f)[i]
                                  IN  <<h.switch_id, h.ingress_port, h.egress_port>>
                                        = <<tb_swid(t[i].sw), t[i].in, t[i].out>>
        BY DEF StackIsRoute
    <2> DEFINE f == captured[k].f
               t == captured[k].met
    <2>1. /\ f \in Frame /\ t \in Seq(Met) /\ Records(f, t, off)
          /\ 1 <= Len(t) /\ Len(t) <= INT_MAX_HOPS
        BY Captured
    <2> HIDE DEF f, t
    <2>2. t # <<>> /\ Len(t) \in Nat /\ DOMAIN t = 1..Len(t)
        BY <2>1
    <2>3. isInt(f) /\ f.origEtherType = "IPV4" /\ ipv4Valid(f)
        BY <2>1, <2>2, StackSize DEF Records, isInt, ipv4Valid
    <2>4. Len(parse_int(f)) = Len(t) /\ \A i \in 1..Len(t) : parse_int(f)[i] = Record(f, i)
        BY <2>1, ReadBack
    <2>5. \A i \in DOMAIN t :
             LET h == parse_int(f)[i]
             IN  <<h.switch_id, h.ingress_port, h.egress_port>>
                   = <<tb_swid(t[i].sw), t[i].in, t[i].out>>
        BY <2>1, <2>2, <2>4 DEF Records
    <2> QED BY <2>3, <2>4, <2>5 DEF f, t
<1> QED BY <1>1, AlwaysBInv, PTL

LEMMA Remainder ==
    ASSUME NEW x \in Int, NEW y \in Int, NEW w \in Int, NEW l \in Int, NEW d \in Int,
           y - x = w + l + d
    PROVE  y - (x + w) = l + d
  OBVIOUS

LinkTime(f, i) == Record(f, i + 1).ingress_ts - (Record(f, i).ingress_ts + Record(f, i).hop_latency)
SpentAt(f, t, i, d) ==
    /\ Record(f, i).ingress_ts \in Int /\ Record(f, i + 1).ingress_ts \in Int
    /\ t[i].wait \in Int /\ t[i].wire \in Int
    /\ Record(f, i).hop_latency = t[i].wait
    /\ Record(f, i + 1).ingress_ts - Record(f, i).ingress_ts = t[i].wait + t[i].wire + d

LEMMA LinkSpent ==
    ASSUME NEW f, NEW t, NEW i, NEW d \in Int, SpentAt(f, t, i, d)
    PROVE  LinkTime(f, i) = t[i].wire + d /\ t[i].wire \in Int
  BY Remainder DEF SpentAt, LinkTime

LEMMA LinkDelta ==
    ASSUME NEW fa, NEW ta, NEW fb, NEW tb, NEW i, NEW d \in Int,
           SpentAt(fa, ta, i, d), SpentAt(fb, tb, i, d)
    PROVE  LinkTime(fb, i) - LinkTime(fa, i) = tb[i].wire - ta[i].wire
<1>1. LinkTime(fa, i) = ta[i].wire + d /\ LinkTime(fb, i) = tb[i].wire + d
    BY LinkSpent
<1>2. ta[i].wire \in Int /\ tb[i].wire \in Int
    BY LinkSpent
<1> QED BY <1>1, <1>2

(* In the same networks, whatever the clocks of the switches are off by and *)
(* wherever queues build up, the latency the collector computes of a link   *)
(* changes between two frames by what the link's own delay changes          *)
(* (int_collector.py:135-145).                                              *)
THEOREM DeltaIsAlwaysTheLinks == Spec => []DeltaIsTheLinks
<1>1. BInv => DeltaIsTheLinks
    <2> SUFFICES ASSUME BInv, NEW a \in DOMAIN captured, NEW b \in DOMAIN captured
                 PROVE  LET ha == parse_int(captured[a].f)  ta == captured[a].met
                            hb == parse_int(captured[b].f)  tb == captured[b].met
                        IN  /\ Len(ha) = Len(hb)
                            /\ \A i \in DOMAIN ha : ha[i].hop_latency = ta[i].wait
                            /\ \A i \in 1..(Len(ha) - 1) :
                                  link_latency(hb, i) - link_latency(ha, i)
                                    = tb[i].wire - ta[i].wire
        BY DEF DeltaIsTheLinks
    <2> DEFINE fa == captured[a].f
               ta == captured[a].met
               fb == captured[b].f
               tb == captured[b].met
               ha == parse_int(fa)
               hb == parse_int(fb)
    <2>1. /\ fa \in Frame /\ ta \in Seq(Met) /\ Records(fa, ta, off) /\ a \in 1..Len(captured)
        BY Captured
    <2>2. /\ fb \in Frame /\ tb \in Seq(Met) /\ Records(fb, tb, off) /\ b \in 1..Len(captured)
        BY Captured
    <2>3. SameRoute(ta, tb) /\ off \in [IntSwitch -> Int]
        BY <2>1, <2>2, NetworkAssumption DEF BInv, OneRoute, Types
    <2> HIDE DEF fa, ta, fb, tb
    <2>4. /\ Len(ha) = Len(ta) /\ DOMAIN ha = 1..Len(ta) /\ Len(ta) \in Nat
          /\ \A i \in 1..Len(ta) : ha[i] = Record(fa, i)
        BY <2>1, ReadBack
    <2>5. /\ Len(hb) = Len(tb) /\ Len(tb) = Len(ta)
          /\ \A i \in 1..Len(ta) : hb[i] = Record(fb, i)
        BY <2>2, <2>3, ReadBack DEF SameRoute
    <2>6. Timed(fa, ta, Len(ta), off) /\ Timed(fb, tb, Len(ta), off)
        BY <2>1, <2>2, <2>3, <2>5, FrameTimes
    <2> HIDE DEF ha, hb
    <2>7. \A i \in DOMAIN ha : ha[i].hop_latency = ta[i].wait
        BY <2>1, <2>4 DEF Records
    <2>8. ASSUME NEW i \in 1..(Len(ta) - 1)
          PROVE  link_latency(hb, i) - link_latency(ha, i) = tb[i].wire - ta[i].wire
        <3>1. i \in 1..Len(ta) /\ i + 1 \in 1..Len(ta)
            BY <2>4
        <3>2. Drift(tb, i, off) = Drift(ta, i, off)
            BY <2>3, <3>1 DEF SameRoute, Drift
        <3>3. /\ Record(fa, i + 1).ingress_ts - Record(fa, i).ingress_ts
                   = ta[i].wait + ta[i].wire + Drift(ta, i, off)
              /\ Record(fb, i + 1).ingress_ts - Record(fb, i).ingress_ts
                   = tb[i].wait + tb[i].wire + Drift(ta, i, off)
            BY <2>1, <2>2, <2>5, <3>2 DEF Records
        <3>4. /\ Record(fa, i).hop_latency = ta[i].wait
              /\ Record(fb, i).hop_latency = tb[i].wait
            BY <2>1, <2>2, <2>5, <3>1 DEF Records
        <3>5. /\ Record(fa, i).ingress_ts \in Int /\ Record(fa, i + 1).ingress_ts \in Int
              /\ Record(fb, i).ingress_ts \in Int /\ Record(fb, i + 1).ingress_ts \in Int
              /\ ta[i].wait \in Int /\ ta[i].wire \in Int /\ tb[i].wait \in Int /\ tb[i].wire \in Int
              /\ off[ta[i].sw] \in Int /\ off[ta[i + 1].sw] \in Int
            BY <2>6, <3>1 DEF Timed
        <3>6. Drift(ta, i, off) \in Int
            BY <3>5 DEF Drift
        <3>7. SpentAt(fa, ta, i, Drift(ta, i, off)) /\ SpentAt(fb, tb, i, Drift(ta, i, off))
            BY <3>3, <3>4, <3>5 DEF SpentAt
        <3>8. LinkTime(fb, i) - LinkTime(fa, i) = tb[i].wire - ta[i].wire
            BY <3>6, <3>7, LinkDelta
        <3> QED BY <2>4, <2>5, <3>1, <3>8 DEF link_latency, LinkTime
    <2>9. Len(ha) = Len(hb) /\ \A i \in 1..(Len(ha) - 1) :
             link_latency(hb, i) - link_latency(ha, i) = tb[i].wire - ta[i].wire
        BY <2>4, <2>5, <2>8
    <2> QED BY <2>7, <2>9 DEF fa, ta, fb, tb, ha, hb
<1> QED BY <1>1, AlwaysBInv, PTL

-----------------------------------------------------------------------------
\* Appending to a sequence, and to the short ones written out.
LEMMA Appended ==
    ASSUME NEW T, NEW s \in Seq(T), NEW t \in Seq(T), NEW x \in T, Len(t) = Len(s) + 1,
           \A i \in 1..Len(s) : t[i] = s[i], t[Len(t)] = x
    PROVE  Append(s, x) = t
<1>1. Append(s, x) \in Seq(T) /\ Len(Append(s, x)) = Len(t)
    BY AppendProperties
<1>2. \A i \in 1..Len(t) : Append(s, x)[i] = t[i]
    BY AppendProperties
<1> QED BY <1>1, <1>2, SeqEqual

LEMMA Append1 ==
    ASSUME NEW a, NEW b
    PROVE  Append(<<a>>, b) = <<a, b>>
<1> DEFINE T == {a, b}
           s == <<a>>
           t == <<a, b>>
<1>1. s \in Seq(T) /\ t \in Seq(T) /\ b \in T /\ Len(s) = 1 /\ Len(t) = 2
    OBVIOUS
<1>2. (\A i \in 1..1 : t[i] = s[i]) /\ t[2] = b
    OBVIOUS
<1> HIDE DEF T, s, t
<1>3. Len(t) = Len(s) + 1 /\ (\A i \in 1..Len(s) : t[i] = s[i]) /\ t[Len(t)] = b
    BY <1>1, <1>2
<1>4. Append(s, b) = t
    BY <1>1, <1>3, Appended
<1> QED BY <1>4 DEF s, t

LEMMA Append2 ==
    ASSUME NEW a, NEW b, NEW c
    PROVE  Append(<<a, b>>, c) = <<a, b, c>>
<1> DEFINE T == {a, b, c}
           s == <<a, b>>
           t == <<a, b, c>>
<1>1. s \in Seq(T) /\ t \in Seq(T) /\ c \in T /\ Len(s) = 2 /\ Len(t) = 3
    OBVIOUS
<1>2. (\A i \in 1..2 : t[i] = s[i]) /\ t[3] = c
    OBVIOUS
<1> HIDE DEF T, s, t
<1>3. Len(t) = Len(s) + 1 /\ (\A i \in 1..Len(s) : t[i] = s[i]) /\ t[Len(t)] = c
    BY <1>1, <1>2
<1>4. Append(s, c) = t
    BY <1>1, <1>3, Appended
<1> QED BY <1>4 DEF s, t

LEMMA Append3 ==
    ASSUME NEW a, NEW b, NEW c, NEW d
    PROVE  Append(<<a, b, c>>, d) = <<a, b, c, d>>
<1> DEFINE T == {a, b, c, d}
           s == <<a, b, c>>
           t == <<a, b, c, d>>
<1>1. s \in Seq(T) /\ t \in Seq(T) /\ d \in T /\ Len(s) = 3 /\ Len(t) = 4
    OBVIOUS
<1>2. (\A i \in 1..3 : t[i] = s[i]) /\ t[4] = d
    OBVIOUS
<1> HIDE DEF T, s, t
<1>3. Len(t) = Len(s) + 1 /\ (\A i \in 1..Len(s) : t[i] = s[i]) /\ t[Len(t)] = d
    BY <1>1, <1>2
<1>4. Append(s, d) = t
    BY <1>1, <1>3, Appended
<1> QED BY <1>4 DEF s, t

LEMMA Append4 ==
    ASSUME NEW a, NEW b, NEW c, NEW d, NEW e
    PROVE  Append(<<a, b, c, d>>, e) = <<a, b, c, d, e>>
<1> DEFINE T == {a, b, c, d, e}
           s == <<a, b, c, d>>
           t == <<a, b, c, d, e>>
<1>1. s \in Seq(T) /\ t \in Seq(T) /\ e \in T /\ Len(s) = 4 /\ Len(t) = 5
    OBVIOUS
<1>2. (\A i \in 1..4 : t[i] = s[i]) /\ t[5] = e
    OBVIOUS
<1> HIDE DEF T, s, t
<1>3. Len(t) = Len(s) + 1 /\ (\A i \in 1..Len(s) : t[i] = s[i]) /\ t[Len(t)] = e
    BY <1>1, <1>2
<1>4. Append(s, e) = t
    BY <1>1, <1>3, Appended
<1> QED BY <1>4 DEF s, t

-----------------------------------------------------------------------------
(* The fat-tree.  While a packet is on its way, the ports it has crossed    *)
(* are the ports up to the switch it is at on the replayed route.           *)

FatPort(s, port) == Fat!port_uid(s, port)

FatLabel == {FatPort(s, port) : s \in Fat!Switch, port \in 1..(2 * Fat!h + 1)}

\* The switches of the route of the flow, and what it has crossed before each.
Ed == Fat!edge(pk.src[2], pk.src[3])
Up == sel[Fat!Swid(Ed)]
Ag == Fat!agg(pk.src[2], Up)
Cr == sel[Fat!Swid(Ag)]
Co == Fat!core(Up, Cr)
Dg == Fat!agg(pk.dst[2], Up)
De == Fat!edge(pk.dst[2], pk.dst[3])

OnFatRoute ==
    \/ pk.at = Ed /\ pk.path = <<>>
    \/ pk.at = Ag /\ De # Ed /\ pk.path = <<FatPort(Ed, Up + 1)>>
    \/ /\ pk.at = Co /\ pk.src[2] # pk.dst[2]
       /\ pk.path = <<FatPort(Ed, Up + 1), FatPort(Ag, Cr + 1)>>
    \/ /\ pk.at = Dg /\ pk.src[2] # pk.dst[2]
       /\ pk.path = <<FatPort(Ed, Up + 1), FatPort(Ag, Cr + 1), FatPort(Co, pk.dst[2] + 1)>>
    \/ /\ pk.at = De /\ De # Ed /\ pk.src[2] = pk.dst[2]
       /\ pk.path = <<FatPort(Ed, Up + 1), FatPort(Ag, Fat!h + pk.dst[3] + 1)>>
    \/ /\ pk.at = De /\ pk.src[2] # pk.dst[2]
       /\ pk.path = <<FatPort(Ed, Up + 1), FatPort(Ag, Cr + 1), FatPort(Co, pk.dst[2] + 1),
                      FatPort(Dg, Fat!h + pk.dst[3] + 1)>>

FatPacket ==
    [src : Fat!Host, dst : Fat!Host, st : {"host", "switch", "arrived"}, at : Fat!Switch \cup Fat!Host,
     pool : BOOLEAN, path : Seq(FatLabel)]

FatInv ==
    /\ pk \in FatPacket
    /\ sel \in [Fat!Keys(pk.src) -> 0..(Fat!h - 1)]
    /\ pk.st = "host" => pk.at = Ed /\ pk.path = <<>>
    /\ pk.st = "switch" => pk.pool /\ OnFatRoute
    /\ pk.st = "arrived" => pk.path = Fat!reconstruct_path(pk.src, pk.dst)

LEMMA FatHalf == Fat!h \in Nat \ {0} /\ K = 2 * Fat!h
  BY TopologyAssumptions DEF Fat!KAssumption, Fat!h

LEMMA FatHost ==
    ASSUME NEW x \in Fat!Host
    PROVE  /\ x = <<"host", x[2], x[3], x[4]>> /\ x[2] \in 0..(K - 1) /\ x[3] \in 0..(Fat!h - 1)
           /\ x # Fat!hcol => x[4] \in 1..Fat!h
  BY FatHalf DEF Fat!Host, Fat!hcol, Fat!Pod, Fat!Pos

\* No two hosts hang on one port.
LEMMA FatAttach ==
    ASSUME NEW x \in Fat!Host, NEW y \in Fat!Host, Fat!Attach(x) = Fat!Attach(y)
    PROVE  x = y
<1>1. x[2] = y[2] /\ x[3] = y[3] /\ Fat!LeafPort(x) = Fat!LeafPort(y)
    BY DEF Fat!Attach, Fat!edge
<1>2. CASE x = Fat!hcol \/ y = Fat!hcol
    BY <1>1, <1>2, FatHost, FatHalf DEF Fat!LeafPort
<1>3. CASE x # Fat!hcol /\ y # Fat!hcol
    BY <1>1, <1>3, FatHost, FatHalf DEF Fat!LeafPort
<1> QED BY <1>2, <1>3

LEMMA FatInit == Fat!Net!Init => FatInv
<1> SUFFICES ASSUME Fat!Net!Init PROVE FatInv
    OBVIOUS
<1>1. PICK src \in Fat!Host, dst \in Fat!Host :
          pk = [src |-> src, dst |-> dst, st |-> "host", at |-> Fat!Attach(src)[1],
                pool |-> FALSE, path |-> <<>>]
    BY DEF Fat!Net!Init
<1>2. Fat!Attach(src)[1] = Fat!edge(src[2], src[3])
    BY DEF Fat!Attach
<1>3. Fat!edge(src[2], src[3]) \in Fat!Switch
    BY FatHost DEF Fat!Switch, Fat!Pod, Fat!Pos
<1>4. pk \in FatPacket /\ pk.at = Ed /\ pk.path = <<>> /\ pk.st = "host"
    BY <1>1, <1>2, <1>3 DEF FatPacket, Ed
<1>5. sel \in [Fat!Keys(pk.src) -> 0..(Fat!h - 1)]
    BY DEF Fat!Net!Init
<1> QED BY <1>4, <1>5 DEF FatInv

\* What is behind the ports of the route.
LEMMA FatUp ==
    ASSUME NEW p, NEW e, NEW a \in 0..(Fat!h - 1)
    PROVE  /\ Fat!Neighbor(Fat!edge(p, e), a + 1) = Fat!agg(p, a)
           /\ Fat!Neighbor(Fat!agg(p, e), a + 1) = Fat!core(e, a)
  BY FatHalf DEF Fat!Neighbor, Fat!edge, Fat!agg

LEMMA FatDown ==
    ASSUME NEW p \in Nat, NEW a, NEW c, NEW e \in Nat
    PROVE  /\ Fat!Neighbor(Fat!core(a, c), p + 1) = Fat!agg(p, a)
           /\ Fat!Neighbor(Fat!agg(p, a), Fat!h + e + 1) = Fat!edge(p, e)
  BY FatHalf DEF Fat!Neighbor, Fat!core, Fat!agg

LEMMA FatHome ==
    ASSUME NEW x \in Fat!Host
    PROVE  Fat!Neighbor(Fat!edge(x[2], x[3]), Fat!LeafPort(x)) = x
<1>1. Fat!LeafPort(x) \in Nat /\ Fat!LeafPort(x) > Fat!h
    BY FatHost, FatHalf DEF Fat!LeafPort
<1>2. Fat!Attach(x) = <<Fat!edge(x[2], x[3]), Fat!LeafPort(x)>>
    BY DEF Fat!Attach
<1>3. (CHOOSE y \in Fat!Host : Fat!Attach(y) = <<Fat!edge(x[2], x[3]), Fat!LeafPort(x)>>) = x
    BY <1>2, FatAttach
<1> QED BY <1>1, <1>3, FatHalf DEF Fat!Neighbor, Fat!edge
\* The hash results the tables and the replay look up.
LEMMA FatHash ==
    ASSUME FatInv
    PROVE  Up \in 0..(Fat!h - 1) /\ Cr \in 0..(Fat!h - 1)
<1>1. pk.src \in Fat!Host
    BY DEF FatInv, FatPacket
<1>2. Fat!Swid(Ed) \in Fat!Keys(pk.src)
    BY DEF Ed, Fat!Keys
<1>3. Up \in 0..(Fat!h - 1)
    BY <1>2 DEF FatInv, Up
<1>4. Fat!Swid(Ag) \in Fat!Keys(pk.src)
    BY <1>3 DEF Ag, Fat!Keys, Fat!Pos
<1> QED BY <1>3, <1>4 DEF FatInv, Cr

\* The tables of a switch of each tier.
LEMMA FatTables ==
    ASSUME NEW x \in Fat!Host, NEW p, NEW e
    PROVE  /\ Fat!Lpm(Fat!edge(p, e), x) =
                 IF Fat!edge(x[2], x[3]) = Fat!edge(p, e)
                 THEN [action |-> "set_nhop", arg |-> Fat!LeafPort(x)]
                 ELSE [action |-> "ecmp_group", arg |-> Fat!h]
           /\ Fat!Lpm(Fat!agg(p, e), x) =
                 IF x[2] = p THEN [action |-> "set_nhop", arg |-> Fat!h + x[3] + 1]
                 ELSE [action |-> "ecmp_group", arg |-> Fat!h]
           /\ Fat!Lpm(Fat!core(p, e), x) = [action |-> "set_nhop", arg |-> x[2] + 1]
<1>1. Fat!edge(p, e)[1] = "edge" /\ Fat!agg(p, e)[1] = "agg" /\ Fat!core(p, e)[1] = "core"
    BY DEF Fat!edge, Fat!agg, Fat!core
<1>2. Fat!Attach(x)[1] = Fat!edge(x[2], x[3]) /\ Fat!agg(p, e)[2] = p
    BY DEF Fat!Attach, Fat!agg
<1> QED BY <1>1, <1>2 DEF Fat!Lpm

\* The switch of the packet sends it through `port'.
FatPortOf(s, dst) ==
    IF Fat!Lpm(s, dst).action = "set_nhop" THEN Fat!Lpm(s, dst).arg
    ELSE Fat!EcmpNhop(s, sel[Fat!Swid(s)])

LEMMA FatPorts ==
    ASSUME FatInv
    PROVE  /\ FatPortOf(Ed, pk.dst) = IF De = Ed THEN Fat!LeafPort(pk.dst) ELSE Up + 1
           /\ FatPortOf(Ag, pk.dst) = IF pk.dst[2] = pk.src[2] THEN Fat!h + pk.dst[3] + 1
                                      ELSE Cr + 1
           /\ FatPortOf(Co, pk.dst) = pk.dst[2] + 1
           /\ FatPortOf(Dg, pk.dst) = Fat!h + pk.dst[3] + 1
           /\ FatPortOf(De, pk.dst) = Fat!LeafPort(pk.dst)
<1>1. pk.dst \in Fat!Host
    BY DEF FatInv, FatPacket
<1> QED BY <1>1, FatTables DEF FatPortOf, Ed, Ag, Co, Dg, De, Up, Cr, Fat!EcmpNhop

\* What is behind those ports.
LEMMA FatLinks ==
    ASSUME FatInv
    PROVE  /\ Fat!Neighbor(Ed, Up + 1) = Ag /\ Fat!Neighbor(Ag, Cr + 1) = Co
           /\ Fat!Neighbor(Co, pk.dst[2] + 1) = Dg
           /\ Fat!Neighbor(Dg, Fat!h + pk.dst[3] + 1) = De
           /\ pk.dst[2] = pk.src[2] => Fat!Neighbor(Ag, Fat!h + pk.dst[3] + 1) = De
           /\ Fat!Neighbor(De, Fat!LeafPort(pk.dst)) = pk.dst
<1>1. pk.dst \in Fat!Host /\ pk.src \in Fat!Host
    BY DEF FatInv, FatPacket
<1>2. pk.dst[2] \in Nat /\ pk.dst[3] \in Nat /\ pk.src[2] \in Nat
    BY <1>1, FatHost, FatHalf
<1>3. Fat!Neighbor(Ed, Up + 1) = Ag /\ Fat!Neighbor(Ag, Cr + 1) = Co
    BY FatHash, FatUp DEF Ed, Ag, Co
<1>4. Fat!Neighbor(Co, pk.dst[2] + 1) = Dg
    BY <1>2, FatDown DEF Co, Dg
<1>5. Fat!Neighbor(Dg, Fat!h + pk.dst[3] + 1) = De
    BY <1>2, FatDown DEF Dg, De
<1>6. pk.dst[2] = pk.src[2] => Fat!Neighbor(Ag, Fat!h + pk.dst[3] + 1) = De
    BY <1>2, FatDown DEF Ag, De
<1>7. Fat!Neighbor(De, Fat!LeafPort(pk.dst)) = pk.dst
    BY <1>1, FatHome DEF De
<1> QED BY <1>3, <1>4, <1>5, <1>6, <1>7

\* The switches of the route are switches, and no hosts.
LEMMA FatNodes ==
    ASSUME FatInv
    PROVE  /\ {Ed, Ag, Co, Dg, De} \subseteq Fat!Switch
           /\ \A s \in {Ed, Ag, Co, Dg, De} : s \notin Fat!Host
<1>1. pk.dst \in Fat!Host /\ pk.src \in Fat!Host
    BY DEF FatInv, FatPacket
<1>2. {Ed, Ag, Co, Dg, De} \subseteq Fat!Switch
    BY <1>1, FatHost, FatHash DEF Ed, Ag, Co, Dg, De, Fat!Switch, Fat!Pod, Fat!Pos
<1>3. \A s \in {Ed, Ag, Co, Dg, De} : s[1] \in {"edge", "agg", "core"}
    BY DEF Ed, Ag, Co, Dg, De, Fat!edge, Fat!agg, Fat!core
<1>4. \A x \in Fat!Host : x[1] = "host"
    BY FatHost
<1> QED BY <1>2, <1>3, <1>4

FatSame == UNCHANGED <<Ed, Up, Ag, Cr, Co, Dg, De>>

\* A hop from a switch of the route leads to the next one, or home.
LEMMA FatHop ==
    ASSUME FatInv, pk.st = "switch", UNCHANGED sel, NEW port, port = FatPortOf(pk.at, pk.dst),
           pk' = [pk EXCEPT !.path = Append(@, FatPort(pk.at, port)),
                            !.at = Fat!Neighbor(pk.at, port),
                            !.st = IF Fat!Neighbor(pk.at, port) \in Fat!Host THEN "arrived"
                                   ELSE "switch"]
    PROVE  /\ pk'.at \in Fat!Switch \cup Fat!Host
           /\ \/ pk'.st = "switch" /\ OnFatRoute'
              \/ pk'.st = "arrived" /\ pk'.path = Fat!reconstruct_path(pk.src, pk.dst)
<1>1. /\ pk'.src = pk.src /\ pk'.dst = pk.dst
      /\ pk'.path = Append(pk.path, FatPort(pk.at, port)) /\ pk'.at = Fat!Neighbor(pk.at, port)
      /\ pk'.st = IF pk'.at \in Fat!Host THEN "arrived" ELSE "switch"
    BY DEF FatInv, FatPacket
<1>2. FatSame
    BY <1>1 DEF FatSame, Ed, Up, Ag, Cr, Co, Dg, De
<1>3. OnFatRoute
    BY DEF FatInv
<1>4. pk.dst \in Fat!Host /\ pk.src \in Fat!Host
    BY DEF FatInv, FatPacket
<1>5. /\ De = Ed <=> pk.src[2] = pk.dst[2] /\ pk.src[3] = pk.dst[3]
    BY DEF De, Ed, Fat!edge
<1>6. Fat!reconstruct_path(pk.src, pk.dst) =
        CASE De = Ed -> <<FatPort(De, Fat!LeafPort(pk.dst))>>
          [] De # Ed /\ pk.src[2] = pk.dst[2] ->
                <<FatPort(Ed, Up + 1), FatPort(Ag, Fat!h + pk.dst[3] + 1),
                  FatPort(De, Fat!LeafPort(pk.dst))>>
          [] OTHER ->
                <<FatPort(Ed, Up + 1), FatPort(Ag, Cr + 1), FatPort(Co, pk.dst[2] + 1),
                  FatPort(Dg, Fat!h + pk.dst[3] + 1), FatPort(De, Fat!LeafPort(pk.dst))>>
    BY DEF Fat!reconstruct_path, FatPort, Ed, Up, Ag, Cr, Co, Dg, De
<1>7. CASE pk.at = Ed /\ pk.path = <<>> /\ De = Ed
    <2>1. pk'.at = pk.dst /\ pk'.path = <<FatPort(De, Fat!LeafPort(pk.dst))>>
        BY <1>1, <1>7, FatPorts, FatLinks, Append1, Append2, Append3, Append4
    <2> QED BY <1>1, <1>4, <1>6, <1>7, <2>1
<1>8. CASE pk.at = Ed /\ pk.path = <<>> /\ De # Ed
    <2>1. pk'.at = Ag /\ pk'.path = <<FatPort(Ed, Up + 1)>>
        BY <1>1, <1>8, FatPorts, FatLinks, Append1, Append2, Append3, Append4
    <2> QED BY <1>1, <1>2, <1>8, <2>1, FatNodes DEF OnFatRoute, FatSame
<1>9. CASE pk.at = Ag /\ De # Ed /\ pk.path = <<FatPort(Ed, Up + 1)>>
    <2>1. CASE pk.src[2] = pk.dst[2]
        <3>1. pk'.at = De
              /\ pk'.path = <<FatPort(Ed, Up + 1), FatPort(Ag, Fat!h + pk.dst[3] + 1)>>
            BY <1>1, <1>9, <2>1, FatPorts, FatLinks, Append1, Append2, Append3, Append4
        <3> QED BY <1>1, <1>2, <1>9, <2>1, <3>1, FatNodes DEF OnFatRoute, FatSame, FatPort
    <2>2. CASE pk.src[2] # pk.dst[2]
        <3>1. pk'.at = Co /\ pk'.path = <<FatPort(Ed, Up + 1), FatPort(Ag, Cr + 1)>>
            BY <1>1, <1>9, <2>2, FatPorts, FatLinks, Append1, Append2, Append3, Append4
        <3> QED BY <1>1, <1>2, <2>2, <3>1, FatNodes DEF OnFatRoute, FatSame, FatPort
    <2> QED BY <2>1, <2>2
<1>10. CASE /\ pk.at = Co /\ pk.src[2] # pk.dst[2]
            /\ pk.path = <<FatPort(Ed, Up + 1), FatPort(Ag, Cr + 1)>>
    <2>1. /\ pk'.at = Dg
          /\ pk'.path = <<FatPort(Ed, Up + 1), FatPort(Ag, Cr + 1), FatPort(Co, pk.dst[2] + 1)>>
        BY <1>1, <1>10, FatPorts, FatLinks, Append1, Append2, Append3, Append4
    <2> QED BY <1>1, <1>2, <1>10, <2>1, FatNodes DEF OnFatRoute, FatSame
<1>11. CASE /\ pk.at = Dg /\ pk.src[2] # pk.dst[2]
            /\ pk.path = <<FatPort(Ed, Up + 1), FatPort(Ag, Cr + 1), FatPort(Co, pk.dst[2] + 1)>>
    <2>1. /\ pk'.at = De
          /\ pk'.path = <<FatPort(Ed, Up + 1), FatPort(Ag, Cr + 1), FatPort(Co, pk.dst[2] + 1),
                          FatPort(Dg, Fat!h + pk.dst[3] + 1)>>
        BY <1>1, <1>11, FatPorts, FatLinks, Append1, Append2, Append3, Append4
    <2> QED BY <1>1, <1>2, <1>11, <2>1, FatNodes DEF OnFatRoute, FatSame, FatPort
<1>12. CASE /\ pk.at = De /\ De # Ed /\ pk.src[2] = pk.dst[2]
            /\ pk.path = <<FatPort(Ed, Up + 1), FatPort(Ag, Fat!h + pk.dst[3] + 1)>>
    <2>1. /\ pk'.at = pk.dst
          /\ pk'.path = <<FatPort(Ed, Up + 1), FatPort(Ag, Fat!h + pk.dst[3] + 1),
                          FatPort(De, Fat!LeafPort(pk.dst))>>
        BY <1>1, <1>12, FatPorts, FatLinks, Append1, Append2, Append3, Append4
    <2> QED BY <1>1, <1>4, <1>6, <1>12, <2>1
<1>13. CASE /\ pk.at = De /\ pk.src[2] # pk.dst[2]
            /\ pk.path = <<FatPort(Ed, Up + 1), FatPort(Ag, Cr + 1), FatPort(Co, pk.dst[2] + 1),
                           FatPort(Dg, Fat!h + pk.dst[3] + 1)>>
    <2>1. /\ pk'.at = pk.dst
          /\ pk'.path = <<FatPort(Ed, Up + 1), FatPort(Ag, Cr + 1), FatPort(Co, pk.dst[2] + 1),
                          FatPort(Dg, Fat!h + pk.dst[3] + 1), FatPort(De, Fat!LeafPort(pk.dst))>>
        BY <1>1, <1>13, FatPorts, FatLinks, Append1, Append2, Append3, Append4
    <2> QED BY <1>1, <1>4, <1>5, <1>6, <1>13, <2>1
<1> QED BY <1>3, <1>7, <1>8, <1>9, <1>10, <1>11, <1>12, <1>13 DEF OnFatRoute

LEMMA FatNext == FatInv /\ [Fat!Net!Next]_pool_vars => FatInv'
<1> SUFFICES ASSUME FatInv, [Fat!Net!Next]_pool_vars PROVE FatInv'
    OBVIOUS
<1>1. CASE Fat!Net!Send
    <2>1. /\ pk' = [pk EXCEPT !.st = "switch", !.pool = TRUE] /\ pk.st = "host" /\ sel' = sel
        BY <1>1 DEF Fat!Net!Send
    <2>2. pk' \in FatPacket /\ pk'.src = pk.src /\ pk'.path = pk.path /\ pk'.at = pk.at
          /\ pk'.pool /\ pk'.st = "switch"
        BY <2>1 DEF FatInv, FatPacket
    <2>3. Ed' = Ed
        BY <2>2 DEF Ed
    <2>4. OnFatRoute'
        BY <2>1, <2>2, <2>3 DEF FatInv, OnFatRoute
    <2> QED BY <2>1, <2>2, <2>4 DEF FatInv
<1>2. CASE Fat!Net!Forward \/ Fat!Net!ForwardEcmp
    <2> DEFINE port == FatPortOf(pk.at, pk.dst)
    <2>1. /\ pk.st = "switch" /\ sel' = sel
          /\ pk' = [pk EXCEPT !.path = IF pk.pool THEN Append(@, FatPort(pk.at, port)) ELSE @,
                              !.at = Fat!Neighbor(pk.at, port),
                              !.st = IF Fat!Neighbor(pk.at, port) \in Fat!Host THEN "arrived"
                                     ELSE "switch"]
        BY <1>2 DEF Fat!Net!Forward, Fat!Net!ForwardEcmp, Fat!Net!Emit, FatPortOf, Fat!Net!Uid,
                    FatPort, Fat!port_uid
    <2>2. pk.pool /\ OnFatRoute /\ pk \in FatPacket
        BY <2>1 DEF FatInv
    <2>3. pk' = [pk EXCEPT !.path = Append(@, FatPort(pk.at, port)),
                           !.at = Fat!Neighbor(pk.at, port),
                           !.st = IF Fat!Neighbor(pk.at, port) \in Fat!Host THEN "arrived"
                                  ELSE "switch"]
        BY <2>1, <2>2
    <2>4. /\ pk'.at \in Fat!Switch \cup Fat!Host
          /\ \/ pk'.st = "switch" /\ OnFatRoute'
             \/ pk'.st = "arrived" /\ pk'.path = Fat!reconstruct_path(pk.src, pk.dst)
        BY <2>1, <2>3, FatHop
    <2>5. FatPort(pk.at, port) \in FatLabel
        <3>1. pk.at \in {Ed, Ag, Co, Dg, De} /\ pk.dst \in Fat!Host
            BY <2>2 DEF OnFatRoute, FatPacket
        <3>2. /\ pk.dst[2] \in 0..(2 * Fat!h - 1) /\ pk.dst[3] \in 0..(Fat!h - 1)
              /\ Fat!LeafPort(pk.dst) \in 1..(2 * Fat!h + 1)
            BY <3>1, FatHost, FatHalf DEF Fat!LeafPort
        <3>3. port \in 1..(2 * Fat!h + 1)
            BY <3>1, <3>2, FatPorts, FatHash, FatHalf
        <3> HIDE DEF port
        <3> QED BY <3>1, <3>3, FatNodes DEF FatLabel
    <2> HIDE DEF port
    <2>6. Append(pk.path, FatPort(pk.at, port)) \in Seq(FatLabel)
        BY <2>2, <2>5 DEF FatPacket
    <2>7. pk' \in FatPacket /\ pk'.src = pk.src /\ pk'.dst = pk.dst /\ pk'.pool
        BY <2>2, <2>3, <2>4, <2>6 DEF FatPacket
    <2>8. Fat!reconstruct_path(pk.src, pk.dst)' = Fat!reconstruct_path(pk.src, pk.dst)
        BY <2>1, <2>7 DEF Fat!reconstruct_path
    <2> QED BY <2>1, <2>4, <2>7, <2>8 DEF FatInv
<1>3. CASE UNCHANGED pool_vars
    BY <1>3 DEF pool_vars, FatInv, OnFatRoute, Ed, Up, Ag, Cr, Co, Dg, De, Fat!reconstruct_path
<1> QED BY <1>1, <1>2, <1>3 DEF Fat!Net!Next

\* The ids of the switches as long as the tiers are small enough.
LEMMA FatIds ==
    ASSUME K <= 22, NEW s \in Fat!Switch
    PROVE  Fat!Swid(s) \in 1..255
<1>1. Fat!h \in 1..11
    BY FatHalf
<1>2. \A p \in Fat!Pod, e \in Fat!Pos : Fat!h * p + e \in 0..241
    <2> TAKE p \in Fat!Pod, e \in Fat!Pos
    <2>1. p \in 0..21 /\ e \in 0..10
        BY <1>1, FatHalf DEF Fat!Pod, Fat!Pos
    <2>2. Fat!h * p \in 0..(11 * p)
        BY <1>1, <2>1
    <2> QED BY <1>1, <2>1, <2>2
<1>3. \A a \in Fat!Pos, c \in Fat!Pos : Fat!h * a + c \in 0..120
    <2> TAKE a \in Fat!Pos, c \in Fat!Pos
    <2>1. a \in 0..10 /\ c \in 0..10
        BY <1>1 DEF Fat!Pos
    <2>2. Fat!h * a \in 0..(11 * a)
        BY <1>1, <2>1
    <2> QED BY <1>1, <2>1, <2>2
<1>4. ASSUME NEW p \in Fat!Pod, NEW e \in Fat!Pos, s = Fat!edge(p, e) \/ s = Fat!agg(p, e)
      PROVE  Fat!Swid(s) \in 1..255
    <2>1. Fat!h * p + e \in 0..241 /\ Fat!h \in Nat /\ p \in Nat /\ e \in Nat
        BY <1>1, <1>2, FatHalf DEF Fat!Pod, Fat!Pos
    <2>2. Fat!Swid(s) = 1 + Fat!h * p + e \/ Fat!Swid(s) = 11 + Fat!h * p + e
        BY <1>4 DEF Fat!Swid, Fat!edge, Fat!agg
    <2>3. (1 + Fat!h * p) + e = 1 + (Fat!h * p + e) /\ (11 + Fat!h * p) + e = 11 + (Fat!h * p + e)
        BY <2>1
    <2> QED BY <2>1, <2>2, <2>3
<1>5. ASSUME NEW a \in Fat!Pos, NEW c \in Fat!Pos, s = Fat!core(a, c)
      PROVE  Fat!Swid(s) \in 1..255
    <2>1. Fat!h * a + c \in 0..120 /\ Fat!h \in Nat /\ a \in Nat /\ c \in Nat
        BY <1>1, <1>3, FatHalf DEF Fat!Pos
    <2>2. Fat!Swid(s) = 41 + Fat!h * a + c
        BY <1>5 DEF Fat!Swid, Fat!core
    <2>3. (41 + Fat!h * a) + c = 41 + (Fat!h * a + c)
        BY <2>1
    <2> QED BY <2>1, <2>2, <2>3
<1> QED BY <1>4, <1>5 DEF Fat!Switch

LEMMA ShortLens ==
    ASSUME NEW a, NEW b, NEW c, NEW d, NEW e
    PROVE  /\ Len(<<>>) = 0 /\ Len(<<a>>) = 1 /\ Len(<<a, b>>) = 2 /\ Len(<<a, b, c>>) = 3
           /\ Len(<<a, b, c, d>>) = 4 /\ Len(<<a, b, c, d, e>>) = 5
  OBVIOUS

LEMMA FatFits ==
    ASSUME K <= 22, FatInv
    PROVE  Fat!PathFitsDebug
<1>1. pk.path \in Seq(FatLabel) /\ pk.st \in {"host", "switch", "arrived"}
    BY DEF FatInv, FatPacket
<1>2. ASSUME NEW i \in DOMAIN pk.path PROVE pk.path[i] \div 256 \in 1..255
    <2>1. pk.path[i] \in FatLabel
        BY <1>1, <1>2
    <2>2. PICK s \in Fat!Switch, port \in 1..(2 * Fat!h + 1) : pk.path[i] = FatPort(s, port)
        BY <2>1 DEF FatLabel
    <2>3. pk.path[i] = 256 * Fat!Swid(s) + port /\ port \in 1..255
        BY <2>2, FatHalf DEF FatPort, Fat!port_uid
    <2>4. PICK id \in 1..255 : id = Fat!Swid(s)
        BY FatIds
    <2>5. (256 * id + port) \div 256 = id
        BY <2>3
    <2> QED BY <2>3, <2>4, <2>5
<1>3. Len(pk.path) <= 8
    <2>1. CASE pk.st = "host"
        BY <2>1 DEF FatInv
    <2>2. CASE pk.st = "switch"
        <3>1. OnFatRoute
            BY <2>2 DEF FatInv
        <3>2. PICK a, b, c, d : pk.path \in {<<>>, <<a>>, <<a, b>>, <<a, b, c>>, <<a, b, c, d>>}
            BY <3>1 DEF OnFatRoute
        <3>3. /\ Len(<<>>) <= 8 /\ Len(<<a>>) <= 8 /\ Len(<<a, b>>) <= 8
              /\ Len(<<a, b, c>>) <= 8 /\ Len(<<a, b, c, d>>) <= 8
            OBVIOUS
        <3> QED BY <3>2, <3>3, Zenon
    <2>3. CASE pk.st = "arrived"
        <3>1. pk.path = Fat!reconstruct_path(pk.src, pk.dst)
            BY <2>3 DEF FatInv
        <3> QED BY <3>1, ShortLens DEF Fat!reconstruct_path
    <2> QED BY <1>1, <2>1, <2>2, <2>3
<1> QED BY <1>2, <1>3 DEF Fat!PathFitsDebug

\* With at most four pods the ids of the tiers do not meet.
LEMMA FatOneSwitch ==
    ASSUME K <= 4, NEW s \in Fat!Switch, NEW t \in Fat!Switch, Fat!Swid(s) = Fat!Swid(t)
    PROVE  s = t
<1>1. Fat!h = 1 \/ Fat!h = 2
    BY FatHalf
<1>2. PICK r \in {"edge", "agg", "core"}, p \in 0..3, e \in 0..1 :
          s = <<r, p, e>> /\ e < Fat!h /\ p < 2 * Fat!h /\ (r = "core" => p < Fat!h)
    BY <1>1, FatHalf DEF Fat!Switch, Fat!edge, Fat!agg, Fat!core, Fat!Pod, Fat!Pos
<1>3. PICK q \in {"edge", "agg", "core"}, m \in 0..3, d \in 0..1 :
          t = <<q, m, d>> /\ d < Fat!h /\ m < 2 * Fat!h /\ (q = "core" => m < Fat!h)
    BY <1>1, FatHalf DEF Fat!Switch, Fat!edge, Fat!agg, Fat!core, Fat!Pod, Fat!Pos
<1>4. /\ r = "edge" => Fat!Swid(s) = 1 + Fat!h * p + e
      /\ r = "agg" => Fat!Swid(s) = 11 + Fat!h * p + e
      /\ r = "core" => Fat!Swid(s) = 41 + Fat!h * p + e
    BY <1>2 DEF Fat!Swid
<1>5. /\ q = "edge" => Fat!Swid(t) = 1 + Fat!h * m + d
      /\ q = "agg" => Fat!Swid(t) = 11 + Fat!h * m + d
      /\ q = "core" => Fat!Swid(t) = 41 + Fat!h * m + d
    BY <1>3 DEF Fat!Swid
<1>6. r = q /\ Fat!h * p + e = Fat!h * m + d
    <2>1. CASE Fat!h = 1
        BY <1>2, <1>3, <1>4, <1>5, <2>1
    <2>2. CASE Fat!h = 2
        BY <1>2, <1>3, <1>4, <1>5, <2>2
    <2> QED BY <1>1, <2>1, <2>2
<1>7. p = m /\ e = d
    BY <1>1, <1>2, <1>3, <1>6
<1> QED BY <1>2, <1>3, <1>6, <1>7

LEMMA FatGlobal ==
    ASSUME K <= 4, FatInv
    PROVE  Fat!UidIsGlobalLabel
<1> SUFFICES ASSUME pk.st = "switch" PROVE Fat!SwitchOf(Fat!Swid(pk.at)) = pk.at
    BY DEF Fat!UidIsGlobalLabel
<1>1. pk.at \in Fat!Switch
    BY FatNodes DEF FatInv, OnFatRoute
<1>2. \A t \in Fat!Switch : Fat!Swid(t) = Fat!Swid(pk.at) => t = pk.at
    BY <1>1, FatOneSwitch
<1>3. Fat!Rank(pk.at) <= Fat!Rank(pk.at)
    BY <1>1 DEF Fat!Rank, Fat!Switch, Fat!edge, Fat!agg, Fat!core
<1> QED BY <1>1, <1>2, <1>3 DEF Fat!SwitchOf

-----------------------------------------------------------------------------
(* The leaf-spine: two or no hops, and home.                                *)

Lf == Leaf!leaf(pk.src[2])
Lu == sel[Leaf!Swid(Lf)]

LeafLabel == {Leaf!port_uid(s, port) : s \in MCSwitch, port \in Nat}

OnLeafRoute ==
    \/ pk.at = Lf /\ pk.path = <<>>
    \/ /\ pk.at = Leaf!spine(Lu + 1) /\ pk.src[2] # pk.dst[2]
       /\ pk.path = <<Leaf!port_uid(Lf, Lu + 1)>>
    \/ /\ pk.at = Leaf!leaf(pk.dst[2]) /\ pk.src[2] # pk.dst[2]
       /\ pk.path = <<Leaf!port_uid(Lf, Lu + 1), Leaf!port_uid(Leaf!spine(Lu + 1), pk.dst[2])>>

LeafPacket ==
    [src : Leaf!Host, dst : Leaf!Host, st : {"host", "switch", "arrived"},
     at : MCSwitch \cup Leaf!Host, pool : BOOLEAN, path : Seq(LeafLabel)]

LeafInv ==
    /\ pk \in LeafPacket
    /\ sel \in [Leaf!Keys(pk.src) -> 0..(S - 1)]
    /\ pk.st = "host" => pk.at = Lf /\ pk.path = <<>>
    /\ pk.st = "switch" => pk.pool /\ OnLeafRoute
    /\ pk.st = "arrived" => pk.path = Leaf!RouteVia(Lu, pk.src, pk.dst)

LEMMA LeafSizes == S \in Nat \ {0} /\ L \in Nat \ {0} /\ H \in Nat \ {0}
  BY TopologyAssumptions DEF Leaf!SizeAssumption

LEMMA LeafHost ==
    ASSUME NEW x \in Leaf!Host
    PROVE  /\ x = <<"host", x[2], x[3]>> /\ x[2] \in 1..L
           /\ x # Leaf!hcol => x[3] \in 1..H
           /\ Leaf!LeafPort(x) \in Nat /\ Leaf!LeafPort(x) > S
  BY LeafSizes DEF Leaf!Host, Leaf!hcol, Leaf!LeafPort

LEMMA LeafAttach ==
    ASSUME NEW x \in Leaf!Host, NEW y \in Leaf!Host, Leaf!Attach(x) = Leaf!Attach(y)
    PROVE  x = y
<1>1. x[2] = y[2] /\ Leaf!LeafPort(x) = Leaf!LeafPort(y)
    BY DEF Leaf!Attach, Leaf!leaf
<1>2. CASE x = Leaf!hcol \/ y = Leaf!hcol
    BY <1>1, <1>2, LeafHost, LeafSizes DEF Leaf!LeafPort
<1>3. CASE x # Leaf!hcol /\ y # Leaf!hcol
    BY <1>1, <1>3, LeafHost, LeafSizes DEF Leaf!LeafPort
<1> QED BY <1>2, <1>3

\* What is behind the ports, and no switch is a host.
LEMMA LeafLinks ==
    ASSUME NEW x \in Leaf!Host, NEW i, NEW u \in 0..(S - 1)
    PROVE  /\ Leaf!Neighbor(Leaf!leaf(i), u + 1) = Leaf!spine(u + 1)
           /\ Leaf!Neighbor(Leaf!spine(u + 1), x[2]) = Leaf!leaf(x[2])
           /\ Leaf!Neighbor(Leaf!leaf(x[2]), Leaf!LeafPort(x)) = x
<1>1. Leaf!Neighbor(Leaf!leaf(i), u + 1) = Leaf!spine(u + 1)
    BY LeafSizes DEF Leaf!Neighbor, Leaf!leaf
<1>2. Leaf!Neighbor(Leaf!spine(u + 1), x[2]) = Leaf!leaf(x[2])
    BY LeafSizes DEF Leaf!Neighbor, Leaf!spine
<1>3. Leaf!LeafPort(x) \in Nat /\ Leaf!LeafPort(x) > S
    BY LeafHost
<1>4. Leaf!Attach(x) = <<Leaf!leaf(x[2]), Leaf!LeafPort(x)>>
    BY DEF Leaf!Attach
<1>5. (CHOOSE y \in Leaf!Host : Leaf!Attach(y) = <<Leaf!leaf(x[2]), Leaf!LeafPort(x)>>) = x
    BY <1>4, LeafAttach
<1>6. Leaf!Neighbor(Leaf!leaf(x[2]), Leaf!LeafPort(x)) = x
    BY <1>3, <1>5, LeafSizes DEF Leaf!Neighbor, Leaf!leaf
<1> QED BY <1>1, <1>2, <1>6

LEMMA LeafTables ==
    ASSUME NEW x \in Leaf!Host, NEW i
    PROVE  /\ Leaf!Lpm(Leaf!leaf(i), x) =
                 IF x[2] = i THEN [action |-> "set_nhop", arg |-> Leaf!LeafPort(x)]
                 ELSE [action |-> "ecmp_group", arg |-> S]
           /\ Leaf!Lpm(Leaf!spine(i), x) = [action |-> "set_nhop", arg |-> x[2]]
<1>1. Leaf!Attach(x)[1] = Leaf!leaf(x[2])
    BY DEF Leaf!Attach
<1>2. Leaf!leaf(x[2]) # Leaf!spine(i) /\ (Leaf!leaf(x[2]) = Leaf!leaf(i) <=> x[2] = i)
      /\ Leaf!leaf(i)[1] = "leaf" /\ Leaf!spine(i)[1] = "spine"
    BY DEF Leaf!leaf, Leaf!spine
<1> QED BY <1>1, <1>2 DEF Leaf!Lpm

\* The switches of the route, and no hosts.
LEMMA LeafNodes ==
    ASSUME NEW x \in Leaf!Host, NEW u \in 0..(S - 1)
    PROVE  /\ Leaf!leaf(x[2]) \in MCSwitch /\ Leaf!spine(u + 1) \in MCSwitch
           /\ Leaf!leaf(x[2]) \notin Leaf!Host /\ Leaf!spine(u + 1) \notin Leaf!Host
<1>1. Leaf!leaf(x[2]) \in MCSwitch /\ Leaf!spine(u + 1) \in MCSwitch
    BY LeafHost, LeafSizes DEF MCSwitch
<1>2. \A y \in Leaf!Host : y[1] = "host"
    BY LeafHost
<1>3. Leaf!leaf(x[2])[1] = "leaf" /\ Leaf!spine(u + 1)[1] = "spine"
    BY DEF Leaf!leaf, Leaf!spine
<1> QED BY <1>1, <1>2, <1>3

LEMMA LeafHash ==
    ASSUME LeafInv
    PROVE  pk.src \in Leaf!Host /\ pk.dst \in Leaf!Host /\ Lu \in 0..(S - 1)
<1>1. Leaf!Swid(Lf) \in Leaf!Keys(pk.src)
    BY DEF Lf, Leaf!Keys
<1> QED BY <1>1 DEF LeafInv, LeafPacket, Lu

LEMMA LeafInit == Leaf!Net!Init => LeafInv
<1> SUFFICES ASSUME Leaf!Net!Init PROVE LeafInv
    OBVIOUS
<1>1. PICK src \in Leaf!Host, dst \in Leaf!Host :
          pk = [src |-> src, dst |-> dst, st |-> "host", at |-> Leaf!Attach(src)[1],
                pool |-> FALSE, path |-> <<>>]
    BY DEF Leaf!Net!Init
<1>2. Leaf!Attach(src)[1] = Leaf!leaf(src[2]) /\ 0 \in 0..(S - 1)
    BY LeafSizes DEF Leaf!Attach
<1>3. Leaf!leaf(src[2]) \in MCSwitch
    BY <1>2, LeafNodes
<1>4. pk \in LeafPacket /\ pk.at = Lf /\ pk.path = <<>> /\ pk.st = "host"
    BY <1>1, <1>2, <1>3 DEF LeafPacket, Lf
<1>5. sel \in [Leaf!Keys(pk.src) -> 0..(S - 1)]
    BY DEF Leaf!Net!Init
<1> QED BY <1>4, <1>5 DEF LeafInv

LeafPortOf(s, dst) ==
    IF Leaf!Lpm(s, dst).action = "set_nhop" THEN Leaf!Lpm(s, dst).arg
    ELSE Leaf!EcmpNhop(s, sel[Leaf!Swid(s)])

LEMMA LeafPorts ==
    ASSUME LeafInv
    PROVE  /\ LeafPortOf(Lf, pk.dst) = IF pk.src[2] = pk.dst[2] THEN Leaf!LeafPort(pk.dst)
                                       ELSE Lu + 1
           /\ LeafPortOf(Leaf!spine(Lu + 1), pk.dst) = pk.dst[2]
           /\ LeafPortOf(Leaf!leaf(pk.dst[2]), pk.dst) = Leaf!LeafPort(pk.dst)
  BY LeafHash, LeafTables DEF LeafPortOf, Lf, Lu, Leaf!EcmpNhop

LEMMA LeafHop ==
    ASSUME LeafInv, pk.st = "switch", UNCHANGED sel, NEW port, port = LeafPortOf(pk.at, pk.dst),
           pk' = [pk EXCEPT !.path = Append(@, Leaf!port_uid(pk.at, port)),
                            !.at = Leaf!Neighbor(pk.at, port),
                            !.st = IF Leaf!Neighbor(pk.at, port) \in Leaf!Host THEN "arrived"
                                   ELSE "switch"]
    PROVE  /\ pk'.at \in MCSwitch \cup Leaf!Host /\ pk.at \in MCSwitch /\ port \in Nat
           /\ \/ pk'.st = "switch" /\ OnLeafRoute'
              \/ pk'.st = "arrived" /\ pk'.path = Leaf!RouteVia(Lu, pk.src, pk.dst)
<1>1. /\ pk'.src = pk.src /\ pk'.dst = pk.dst
      /\ pk'.path = Append(pk.path, Leaf!port_uid(pk.at, port)) /\ pk'.at = Leaf!Neighbor(pk.at, port)
      /\ pk'.st = IF pk'.at \in Leaf!Host THEN "arrived" ELSE "switch"
    BY DEF LeafInv, LeafPacket
<1>2. UNCHANGED <<Lf, Lu>>
    BY <1>1 DEF Lf, Lu
<1>3. OnLeafRoute
    BY DEF LeafInv
<1>4. /\ pk.dst \in Leaf!Host /\ pk.src \in Leaf!Host /\ Lu \in 0..(S - 1)
      /\ pk.dst[2] \in Nat /\ Leaf!LeafPort(pk.dst) \in Nat /\ Lu + 1 \in Nat
    BY LeafHash, LeafHost, LeafSizes
<1>5. /\ Lf \in MCSwitch /\ Leaf!spine(Lu + 1) \in MCSwitch /\ Leaf!leaf(pk.dst[2]) \in MCSwitch
      /\ Leaf!spine(Lu + 1) \notin Leaf!Host /\ Leaf!leaf(pk.dst[2]) \notin Leaf!Host
    BY <1>4, LeafNodes DEF Lf
<1>6. /\ Leaf!Neighbor(Lf, Lu + 1) = Leaf!spine(Lu + 1)
      /\ Leaf!Neighbor(Leaf!spine(Lu + 1), pk.dst[2]) = Leaf!leaf(pk.dst[2])
      /\ Leaf!Neighbor(Leaf!leaf(pk.dst[2]), Leaf!LeafPort(pk.dst)) = pk.dst
    BY <1>4, LeafLinks DEF Lf
<1>7. CASE pk.at = Lf /\ pk.path = <<>> /\ pk.src[2] = pk.dst[2]
    <2>1. Lf = Leaf!leaf(pk.dst[2]) /\ port = Leaf!LeafPort(pk.dst)
        BY <1>7, LeafPorts DEF Lf
    <2>2. pk'.at = pk.dst /\ pk'.path = <<Leaf!port_uid(Leaf!leaf(pk.dst[2]), Leaf!LeafPort(pk.dst))>>
        BY <1>1, <1>6, <1>7, <2>1
    <2> QED BY <1>1, <1>4, <1>5, <1>7, <2>1, <2>2 DEF Leaf!RouteVia
<1>8. CASE pk.at = Lf /\ pk.path = <<>> /\ pk.src[2] # pk.dst[2]
    <2>1. port = Lu + 1
        BY <1>8, LeafPorts
    <2>2. pk'.at = Leaf!spine(Lu + 1) /\ pk'.path = <<Leaf!port_uid(Lf, Lu + 1)>>
        BY <1>1, <1>6, <1>8, <2>1
    <2> QED BY <1>1, <1>2, <1>4, <1>5, <1>8, <2>1, <2>2 DEF OnLeafRoute
<1>9. CASE /\ pk.at = Leaf!spine(Lu + 1) /\ pk.src[2] # pk.dst[2]
           /\ pk.path = <<Leaf!port_uid(Lf, Lu + 1)>>
    <2>1. port = pk.dst[2]
        BY <1>9, LeafPorts
    <2>2. /\ pk'.at = Leaf!leaf(pk.dst[2])
          /\ pk'.path = <<Leaf!port_uid(Lf, Lu + 1), Leaf!port_uid(Leaf!spine(Lu + 1), pk.dst[2])>>
        BY <1>1, <1>6, <1>9, <2>1, Append1
    <2> QED BY <1>1, <1>2, <1>4, <1>5, <1>9, <2>1, <2>2 DEF OnLeafRoute
<1>10. CASE /\ pk.at = Leaf!leaf(pk.dst[2]) /\ pk.src[2] # pk.dst[2]
            /\ pk.path = <<Leaf!port_uid(Lf, Lu + 1),
                           Leaf!port_uid(Leaf!spine(Lu + 1), pk.dst[2])>>
    <2>1. port = Leaf!LeafPort(pk.dst)
        BY <1>10, LeafPorts
    <2>2. /\ pk'.at = pk.dst
          /\ pk'.path = <<Leaf!port_uid(Lf, Lu + 1), Leaf!port_uid(Leaf!spine(Lu + 1), pk.dst[2]),
                          Leaf!port_uid(Leaf!leaf(pk.dst[2]), Leaf!LeafPort(pk.dst))>>
        BY <1>1, <1>6, <1>10, <2>1, Append2
    <2> QED BY <1>1, <1>4, <1>5, <1>10, <2>1, <2>2 DEF Leaf!RouteVia, Lf
<1> QED BY <1>3, <1>7, <1>8, <1>9, <1>10 DEF OnLeafRoute

LEMMA LeafNext == LeafInv /\ [Leaf!Net!Next]_pool_vars => LeafInv'
<1> SUFFICES ASSUME LeafInv, [Leaf!Net!Next]_pool_vars PROVE LeafInv'
    OBVIOUS
<1>1. CASE Leaf!Net!Send
    <2>1. /\ pk' = [pk EXCEPT !.st = "switch", !.pool = TRUE] /\ pk.st = "host" /\ sel' = sel
        BY <1>1 DEF Leaf!Net!Send
    <2>2. pk' \in LeafPacket /\ pk'.src = pk.src /\ pk'.path = pk.path /\ pk'.at = pk.at
          /\ pk'.pool /\ pk'.st = "switch"
        BY <2>1 DEF LeafInv, LeafPacket
    <2>3. Lf' = Lf
        BY <2>2 DEF Lf
    <2>4. OnLeafRoute'
        BY <2>1, <2>2, <2>3 DEF LeafInv, OnLeafRoute
    <2> QED BY <2>1, <2>2, <2>4 DEF LeafInv
<1>2. CASE Leaf!Net!Forward \/ Leaf!Net!ForwardEcmp
    <2> DEFINE port == LeafPortOf(pk.at, pk.dst)
    <2>1. /\ pk.st = "switch" /\ sel' = sel
          /\ pk' = [pk EXCEPT !.path = IF pk.pool THEN Append(@, Leaf!port_uid(pk.at, port)) ELSE @,
                              !.at = Leaf!Neighbor(pk.at, port),
                              !.st = IF Leaf!Neighbor(pk.at, port) \in Leaf!Host THEN "arrived"
                                     ELSE "switch"]
        BY <1>2 DEF Leaf!Net!Forward, Leaf!Net!ForwardEcmp, Leaf!Net!Emit, LeafPortOf,
                    Leaf!Net!Uid, Leaf!port_uid
    <2>2. pk.pool /\ pk \in LeafPacket
        BY <2>1 DEF LeafInv
    <2>3. pk' = [pk EXCEPT !.path = Append(@, Leaf!port_uid(pk.at, port)),
                           !.at = Leaf!Neighbor(pk.at, port),
                           !.st = IF Leaf!Neighbor(pk.at, port) \in Leaf!Host THEN "arrived"
                                  ELSE "switch"]
        BY <2>1, <2>2
    <2>4. /\ pk'.at \in MCSwitch \cup Leaf!Host /\ pk.at \in MCSwitch /\ port \in Nat
          /\ \/ pk'.st = "switch" /\ OnLeafRoute'
             \/ pk'.st = "arrived" /\ pk'.path = Leaf!RouteVia(Lu, pk.src, pk.dst)
        BY <2>1, <2>3, LeafHop
    <2> HIDE DEF port
    <2>5. Leaf!port_uid(pk.at, port) \in LeafLabel
        BY <2>4 DEF LeafLabel
    <2>6. Append(pk.path, Leaf!port_uid(pk.at, port)) \in Seq(LeafLabel)
        BY <2>2, <2>5 DEF LeafPacket
    <2>7. pk' \in LeafPacket /\ pk'.src = pk.src /\ pk'.dst = pk.dst /\ pk'.pool
        BY <2>2, <2>3, <2>4, <2>6 DEF LeafPacket
    <2>8. Lu' = Lu
        BY <2>1, <2>7 DEF Lu, Lf
    <2> QED BY <2>1, <2>4, <2>7, <2>8 DEF LeafInv
<1>3. CASE UNCHANGED pool_vars
    BY <1>3 DEF pool_vars, LeafInv, OnLeafRoute, Lf, Lu
<1> QED BY <1>1, <1>2, <1>3 DEF Leaf!Net!Next

LEMMA LeafReplay ==
    ASSUME LeafInv
    PROVE  Leaf!ReplayUpToSpine
  BY LeafHash DEF LeafInv, Leaf!ReplayUpToSpine, Leaf!CandidatePaths

-----------------------------------------------------------------------------
(* The line: a packet has crossed the ports of the walk so far.             *)

Toward == IF pk.dst[2] > pk.src[2] THEN 1 ELSE -1
Far    == IF pk.dst[2] > pk.src[2] THEN pk.dst[2] - pk.src[2] ELSE pk.src[2] - pk.dst[2]
On(i)  == <<"line", pk.src[2] + Toward * i>>
Walk(n) == [k \in 1..n |-> Line!port_uid(On(k - 1), IF Toward > 0 THEN 2 ELSE 1)]

LinePacket ==
    [src : Line!Host, dst : Line!Host, st : {"host", "switch", "arrived"},
     at : {<<"line", i>> : i \in Int} \cup Line!Host, pool : BOOLEAN, path : Seq(Int)]

LineInv ==
    /\ pk \in LinePacket
    /\ pk.st = "host" => pk.at = On(0) /\ pk.path = <<>>
    /\ pk.st = "switch" =>
          /\ pk.pool
          /\ \E n \in 0..Far : pk.at = On(n) /\ pk.path = Walk(n)
    /\ pk.st = "arrived" => pk.path = Line!reconstruct_path(pk.src, pk.dst)

LEMMA LineHost ==
    ASSUME NEW x \in Line!Host
    PROVE  /\ (x = Line!hA /\ x[2] = 1) \/ (x = Line!hcol /\ x[2] = N)
           /\ N \in Nat /\ N > 1 /\ x[2] \in Int
           /\ \A y \in Line!Host : x[2] = y[2] => x = y
           /\ \A i : x # <<"line", i>>
  BY TopologyAssumptions DEF Line!NAssumption, Line!Host, Line!hA, Line!hcol

LEMMA LineAway ==
    ASSUME pk \in LinePacket
    PROVE  /\ pk.src[2] \in Int /\ pk.dst[2] \in Int /\ Far \in Nat
           /\ Toward = 1 \/ Toward = -1
           /\ Toward = 1 => pk.dst[2] = pk.src[2] + Far
           /\ Toward = -1 => pk.dst[2] = pk.src[2] - Far
<1>1. pk.src[2] \in Int /\ pk.dst[2] \in Int
    BY LineHost DEF LinePacket
<1> QED BY <1>1 DEF Far, Toward

LEMMA LineInit == Line!Net!Init => LineInv
<1> SUFFICES ASSUME Line!Net!Init PROVE LineInv
    OBVIOUS
<1>1. PICK src \in Line!Host, dst \in Line!Host :
          pk = [src |-> src, dst |-> dst, st |-> "host", at |-> Line!Attach(src)[1],
                pool |-> FALSE, path |-> <<>>]
    BY DEF Line!Net!Init
<1>2. Line!Attach(src)[1] = <<"line", src[2]>> /\ src[2] \in Int
    BY LineHost DEF Line!Attach
<1>3. pk \in LinePacket /\ pk.st = "host" /\ pk.path = <<>> /\ pk.at = <<"line", pk.src[2]>>
    BY <1>1, <1>2 DEF LinePacket
<1>4. pk.at = On(0)
    BY <1>3, LineAway DEF On
<1> QED BY <1>3, <1>4 DEF LineInv

\* One step further along the walk.
LEMMA WalkType ==
    ASSUME pk \in LinePacket, NEW n \in Nat
    PROVE  /\ Walk(n) \in Seq(Int) /\ Len(Walk(n)) = n
           /\ \A k \in 1..n : Walk(n)[k] = Line!port_uid(On(k - 1), IF Toward > 0 THEN 2 ELSE 1)
           /\ Line!port_uid(On(n), IF Toward > 0 THEN 2 ELSE 1) \in Int
  BY LineAway DEF Walk, On, Line!port_uid, Line!Swid

LEMMA WalkGrows ==
    ASSUME pk \in LinePacket, NEW n \in Nat
    PROVE  Append(Walk(n), Line!port_uid(On(n), IF Toward > 0 THEN 2 ELSE 1)) = Walk(n + 1)
<1> DEFINE s == Walk(n)
           t == Walk(n + 1)
           x == Line!port_uid(On(n), IF Toward > 0 THEN 2 ELSE 1)
<1>1. s \in Seq(Int) /\ Len(s) = n /\ x \in Int
    BY WalkType
<1>2. n + 1 \in Nat
    OBVIOUS
<1>3. /\ t \in Seq(Int) /\ Len(t) = n + 1
      /\ \A k \in 1..(n + 1) : t[k] = Line!port_uid(On(k - 1), IF Toward > 0 THEN 2 ELSE 1)
    BY <1>2, WalkType
<1>4. t[n + 1] = x
    BY <1>3
<1>5. \A k \in 1..n : t[k] = s[k]
    BY <1>3, WalkType
<1> HIDE DEF s, t, x
<1>6. Len(t) = Len(s) + 1 /\ (\A i \in 1..Len(s) : t[i] = s[i]) /\ t[Len(t)] = x
    BY <1>1, <1>3, <1>4, <1>5
<1>7. Append(s, x) = t
    BY <1>1, <1>3, <1>6, Appended
<1> QED BY <1>7 DEF s, t, x

LEMMA LineHop ==
    ASSUME LineInv, pk.st = "switch", UNCHANGED sel, NEW port,
           port = Line!Lpm(pk.at, pk.dst).arg,
           pk' = [pk EXCEPT !.path = Append(@, Line!port_uid(pk.at, port)),
                            !.at = Line!Neighbor(pk.at, port),
                            !.st = IF Line!Neighbor(pk.at, port) \in Line!Host THEN "arrived"
                                   ELSE "switch"]
    PROVE  /\ pk' \in LinePacket /\ pk'.src = pk.src /\ pk'.dst = pk.dst /\ pk'.pool = pk.pool
           /\ \/ /\ pk'.st = "switch"
                 /\ \E n \in 0..Far : pk'.at = On(n) /\ pk'.path = Walk(n)
              \/ pk'.st = "arrived" /\ pk'.path = Line!reconstruct_path(pk.src, pk.dst)
<1>0. pk \in LinePacket
    BY DEF LineInv
<1>1. /\ pk'.src = pk.src /\ pk'.dst = pk.dst /\ pk'.pool = pk.pool
      /\ pk'.path = Append(pk.path, Line!port_uid(pk.at, port)) /\ pk'.at = Line!Neighbor(pk.at, port)
      /\ pk'.st = IF pk'.at \in Line!Host THEN "arrived" ELSE "switch"
    BY <1>0 DEF LinePacket
<1>2. PICK n \in 0..Far : pk.at = On(n) /\ pk.path = Walk(n)
    BY DEF LineInv
<1>3. n \in Nat /\ n <= Far /\ (n < Far \/ n = Far)
    BY <1>0, <1>2, LineAway
<1>4. port = CASE pk.dst[2] = pk.at[2] -> 3 [] pk.dst[2] > pk.at[2] -> 2 [] pk.dst[2] < pk.at[2] -> 1
    BY DEF Line!Lpm, Line!LeafPort
<1>5. pk.at[2] = pk.src[2] + Toward * n
    BY <1>2 DEF On
<1>6. ASSUME pk'.path \in Seq(Int), pk'.at \in {<<"line", i>> : i \in Int} \cup Line!Host
      PROVE  pk' \in LinePacket
    BY <1>0, <1>1, <1>6 DEF LinePacket
<1>7. CASE n < Far
    <2>1. port = IF Toward > 0 THEN 2 ELSE 1
        BY <1>0, <1>3, <1>4, <1>5, <1>7, LineAway
    <2>2. pk'.path = Walk(n + 1)
        BY <1>0, <1>1, <1>2, <1>3, <2>1, WalkGrows
    <2>3. pk'.at = On(n + 1)
        <3>1. pk'.at = <<"line", pk.at[2] + Toward>>
            <4>1. CASE Toward = 1
                BY <1>1, <2>1, <4>1 DEF Line!Neighbor
            <4>2. CASE Toward = -1
                <5>1. pk'.at = <<"line", pk.at[2] - 1>>
                    BY <1>1, <2>1, <4>2 DEF Line!Neighbor
                <5>2. pk.at[2] \in Int
                    BY <1>0, <1>3, <1>5, LineAway
                <5> QED BY <4>2, <5>1, <5>2
            <4> QED BY <1>0, <4>1, <4>2, LineAway
        <3>2. pk.at[2] + Toward = pk.src[2] + Toward * (n + 1)
            BY <1>0, <1>3, <1>5, LineAway
        <3> QED BY <3>1, <3>2 DEF On
    <2>4. pk'.at \notin Line!Host /\ n + 1 \in 0..Far
        BY <1>0, <1>3, <1>7, <2>3, LineHost, LineAway DEF On
    <2>5. pk'.path \in Seq(Int)
        <3>1. PICK m \in Nat : m = n + 1
            BY <1>3
        <3> QED BY <1>0, <2>2, <3>1, WalkType
    <2>6. pk.src[2] + Toward * (n + 1) \in Int
        BY <1>0, <1>3, LineAway
    <2>7. pk' \in LinePacket
        BY <1>6, <2>3, <2>5, <2>6 DEF On
    <2> QED BY <1>1, <2>2, <2>3, <2>4, <2>7
<1>8. CASE n = Far
    <2>1. pk.at[2] = pk.dst[2] /\ port = 3
        BY <1>0, <1>3, <1>4, <1>5, <1>8, LineAway
    <2>2. pk.at = <<"line", pk.dst[2]>> /\ pk.dst \in Line!Host
        BY <1>0, <1>2, <2>1 DEF On, LinePacket
    <2>3. pk'.at = pk.dst
        <3>1. \A x \in Line!Host : Line!Attach(x)[1] = pk.at <=> x = pk.dst
            BY <2>2, LineHost DEF Line!Attach
        <3>2. pk'.at = CHOOSE x \in Line!Host : Line!Attach(x)[1] = pk.at
            BY <1>1, <2>1 DEF Line!Neighbor
        <3> QED BY <2>2, <3>1, <3>2
    <2> DEFINE last == Line!port_uid(<<"line", pk.dst[2]>>, 3)
    <2>4. last \in Int /\ Walk(Far) \in Seq(Int)
        <3>1. Walk(Far) \in Seq(Int) /\ pk.dst[2] \in Int
            BY <1>0, WalkType, LineAway
        <3>2. last = 256 * pk.dst[2] + 3
            BY DEF Line!port_uid, Line!Swid
        <3> QED BY <3>1, <3>2
    <2>5. pk'.path = Append(Walk(Far), last)
        BY <1>1, <1>2, <1>8, <2>1, <2>2
    <2>6. Line!reconstruct_path(pk.src, pk.dst) = Walk(Far) \o <<last>>
        BY DEF Line!reconstruct_path, Walk, Far, Toward, On, Line!LeafPort
    <2> HIDE DEF last
    <2>7. pk'.path = Walk(Far) \o <<last>> /\ pk'.path \in Seq(Int)
        <3>1. Append(Walk(Far), last) = Walk(Far) \o <<last>>
            BY <2>4, AppendIsConcat
        <3>2. Append(Walk(Far), last) \in Seq(Int)
            BY <2>4, AppendProperties
        <3> QED BY <2>5, <3>1, <3>2
    <2>8. pk' \in LinePacket
        BY <1>6, <2>2, <2>3, <2>7
    <2> QED BY <1>1, <2>2, <2>3, <2>6, <2>7, <2>8
<1> QED BY <1>3, <1>7, <1>8

LEMMA LineNext == LineInv /\ [Line!Net!Next]_pool_vars => LineInv'
<1> SUFFICES ASSUME LineInv, [Line!Net!Next]_pool_vars PROVE LineInv'
    OBVIOUS
<1>0. pk \in LinePacket
    BY DEF LineInv
<1>1. CASE Line!Net!Send
    <2>1. /\ pk' = [pk EXCEPT !.st = "switch", !.pool = TRUE] /\ pk.st = "host"
        BY <1>1 DEF Line!Net!Send
    <2>2. pk' \in LinePacket /\ pk'.src = pk.src /\ pk'.dst = pk.dst /\ pk'.path = pk.path
          /\ pk'.at = pk.at /\ pk'.pool /\ pk'.st = "switch"
        BY <1>0, <2>1 DEF LinePacket
    <2>3. pk.at = On(0) /\ pk.path = <<>>
        BY <2>1 DEF LineInv
    <2>4. On(0)' = On(0) /\ Walk(0)' = Walk(0) /\ Far' = Far
        BY <2>2 DEF On, Toward, Walk, Far
    <2>5. Walk(0) = <<>> /\ 0 \in 0..Far
        BY <1>0, WalkType, LineAway DEF Walk
    <2> QED BY <2>2, <2>3, <2>4, <2>5 DEF LineInv
<1>2. CASE Line!Net!Forward \/ Line!Net!ForwardEcmp
    <2> DEFINE port == Line!Lpm(pk.at, pk.dst).arg
    <2>1. Line!Lpm(pk.at, pk.dst).action = "set_nhop"
        BY DEF Line!Lpm
    <2>2. /\ pk.st = "switch" /\ sel' = sel
          /\ pk' = [pk EXCEPT !.path = IF pk.pool THEN Append(@, Line!port_uid(pk.at, port)) ELSE @,
                              !.at = Line!Neighbor(pk.at, port),
                              !.st = IF Line!Neighbor(pk.at, port) \in Line!Host THEN "arrived"
                                     ELSE "switch"]
        BY <1>2, <2>1 DEF Line!Net!Forward, Line!Net!ForwardEcmp, Line!Net!Emit, Line!Net!Uid,
                          Line!port_uid
    <2>3. pk.pool
        BY <2>2 DEF LineInv
    <2>4. pk' = [pk EXCEPT !.path = Append(@, Line!port_uid(pk.at, port)),
                           !.at = Line!Neighbor(pk.at, port),
                           !.st = IF Line!Neighbor(pk.at, port) \in Line!Host THEN "arrived"
                                  ELSE "switch"]
        BY <2>2, <2>3
    <2>5. /\ pk' \in LinePacket /\ pk'.src = pk.src /\ pk'.dst = pk.dst /\ pk'.pool = pk.pool
          /\ \/ /\ pk'.st = "switch"
                /\ \E n \in 0..Far : pk'.at = On(n) /\ pk'.path = Walk(n)
             \/ pk'.st = "arrived" /\ pk'.path = Line!reconstruct_path(pk.src, pk.dst)
        BY <2>2, <2>4, LineHop
    <2>6. /\ Far' = Far /\ Line!reconstruct_path(pk.src, pk.dst)' = Line!reconstruct_path(pk.src, pk.dst)
          /\ \A n \in 0..Far : On(n)' = On(n) /\ Walk(n)' = Walk(n)
        BY <2>5 DEF Far, On, Toward, Walk, Line!reconstruct_path
    <2> HIDE DEF port
    <2> QED BY <2>3, <2>5, <2>6 DEF LineInv
<1>3. CASE UNCHANGED pool_vars
    <2>1. pk' = pk
        BY <1>3 DEF pool_vars
    <2>2. /\ Far' = Far /\ Line!reconstruct_path(pk.src, pk.dst)' = Line!reconstruct_path(pk.src, pk.dst)
          /\ On(0)' = On(0) /\ \A n \in 0..Far : On(n)' = On(n) /\ Walk(n)' = Walk(n)
        BY <2>1 DEF Far, On, Toward, Walk, Line!reconstruct_path
    <2> QED BY <1>0, <2>1, <2>2 DEF LineInv
<1> QED BY <1>1, <1>2, <1>3 DEF Line!Net!Next

-----------------------------------------------------------------------------
(* Baseline frames in the leaf-spine: the hops of a frame are determined by *)
(* the flow and the hash, and so are the ports they leave by.               *)

Outs(t) == \A i \in 1..Len(t) : t[i].out = EgressSpec(t[i].sw, flow[2], pick)

OutInv ==
    /\ pick \in 0..(Group - 1) /\ Outs(trace)
    /\ \A k \in 1..Len(captured) : Outs(captured[k].met)

LEMMA InitOuts == Init => OutInv
  BY DEF Init, OutInv, Outs

LEMMA NextOuts == BInv /\ OutInv /\ [Next]_vars => OutInv'
<1> SUFFICES ASSUME BInv, OutInv, [Next]_vars PROVE OutInv'
    OBVIOUS
<1>0. trace \in Seq(Met) /\ captured \in Seq([f : Frame, met : Seq(Met)])
    BY DEF BInv, Types
<1>1. ASSUME NEW q \in Wait, NEW l \in Wire, Hop(q, l) PROVE OutInv'
    <2> DEFINE m == [sw |-> at[1], in |-> at[2], out |-> EgressSpec(at[1], flow[2], pick),
                     wait |-> q, wire |-> l]
    <2>1. trace' = Append(trace, m) /\ UNCHANGED <<flow, pick, captured>>
        BY <1>1 DEF Hop
    <2>2. m.out = EgressSpec(m.sw, flow[2], pick)
        OBVIOUS
    <2> HIDE DEF m
    <2>3. /\ Len(trace') = Len(trace) + 1 /\ trace'[Len(trace) + 1] = m
          /\ \A i \in 1..Len(trace) : trace'[i] = trace[i]
        BY <1>0, <2>1
    <2>4. \A i \in 1..(Len(trace) + 1) : i \in 1..Len(trace) \/ i = Len(trace) + 1
        BY <1>0
    <2> QED BY <2>1, <2>2, <2>3, <2>4 DEF OutInv, Outs, EgressSpec
<1>2. CASE Capture
    <2> DEFINE e == [f |-> frame, met |-> trace]
    <2>1. captured' = Append(captured, e) /\ trace' = <<>> /\ UNCHANGED <<flow, pick>>
        BY <1>2 DEF Capture
    <2>2. e.met = trace
        OBVIOUS
    <2> HIDE DEF e
    <2>3. /\ Len(captured') = Len(captured) + 1 /\ captured'[Len(captured) + 1] = e
          /\ \A k \in 1..Len(captured) : captured'[k] = captured[k]
        BY <1>0, <2>1
    <2>4. \A k \in 1..(Len(captured) + 1) : k \in 1..Len(captured) \/ k = Len(captured) + 1
        BY <1>0
    <2>5. Len(<<>>) = 0
        OBVIOUS
    <2> QED BY <2>1, <2>2, <2>3, <2>4, <2>5 DEF OutInv, Outs, EgressSpec
<1>3. CASE UNCHANGED vars
    BY <1>3 DEF vars, OutInv, Outs, EgressSpec
<1> QED BY <1>1, <1>2, <1>3 DEF Next

\* The tables and links of the baseline's switches, which are those of the leaf-spine.
LEMMA LeafNet ==
    /\ Group = S /\ EndHost = Leaf!Host
    /\ \A x \in Leaf!Host : HostPort(x) = Leaf!Attach(x)
    /\ \A s \in MCSwitch, x \in Leaf!Host, i \in 0..(S - 1) :
          /\ EgressSpec(s, x, i) = IF Leaf!Lpm(s, x).action = "set_nhop" THEN Leaf!Lpm(s, x).arg
                                   ELSE i + 1
          /\ LinkedTo(s, EgressSpec(s, x, i)) = Leaf!Neighbor(s, EgressSpec(s, x, i))
  BY BaselineIsLeafSpine DEF MCHost, MCAttach, MCLpm, MCNeighbor, MCEcmpNhop, EgressSpec,
                             Leaf!EcmpNhop

\* Where a frame goes from a switch, and through which port.
LEMMA BaseHops ==
    ASSUME NEW w \in Flow, NEW u \in 0..(S - 1)
    PROVE  /\ w[1] \in Leaf!Host /\ w[2] \in Leaf!Host
           /\ EgressSpec(Leaf!leaf(w[2][2]), w[2], u) = Leaf!LeafPort(w[2])
           /\ After(Leaf!leaf(w[2][2]), w, u) = w[2]
           /\ EgressSpec(Leaf!spine(u + 1), w[2], u) = w[2][2]
           /\ After(Leaf!spine(u + 1), w, u)
                = <<Leaf!leaf(w[2][2]), FarPort(Leaf!spine(u + 1), w[2][2])>>
           /\ w[1][2] # w[2][2] =>
                 /\ EgressSpec(Leaf!leaf(w[1][2]), w[2], u) = u + 1
                 /\ After(Leaf!leaf(w[1][2]), w, u)
                      = <<Leaf!spine(u + 1), FarPort(Leaf!leaf(w[1][2]), u + 1)>>
<1>1. w[1] \in Leaf!Host /\ w[2] \in Leaf!Host
    BY LeafNet, NetworkAssumption
<1>2. /\ Leaf!leaf(w[1][2]) \in MCSwitch /\ Leaf!leaf(w[2][2]) \in MCSwitch
      /\ Leaf!spine(u + 1) \in MCSwitch
      /\ Leaf!leaf(w[2][2]) \notin Leaf!Host /\ Leaf!spine(u + 1) \notin Leaf!Host
    BY <1>1, LeafNodes
<1>3. EgressSpec(Leaf!leaf(w[2][2]), w[2], u) = Leaf!LeafPort(w[2])
    BY <1>1, <1>2, LeafNet, LeafTables
<1>4. EgressSpec(Leaf!spine(u + 1), w[2], u) = w[2][2]
    BY <1>1, <1>2, LeafNet, LeafTables
<1>5. w[1][2] # w[2][2] => EgressSpec(Leaf!leaf(w[1][2]), w[2], u) = u + 1
    BY <1>1, <1>2, LeafNet, LeafTables
<1>6. After(Leaf!leaf(w[2][2]), w, u) = w[2]
    BY <1>1, <1>2, <1>3, LeafNet, LeafLinks DEF After
<1>7. After(Leaf!spine(u + 1), w, u) = <<Leaf!leaf(w[2][2]), FarPort(Leaf!spine(u + 1), w[2][2])>>
    BY <1>1, <1>2, <1>4, LeafNet, LeafLinks DEF After
<1>8. ASSUME w[1][2] # w[2][2]
      PROVE  After(Leaf!leaf(w[1][2]), w, u)
               = <<Leaf!spine(u + 1), FarPort(Leaf!leaf(w[1][2]), u + 1)>>
    BY <1>1, <1>2, <1>5, <1>8, LeafNet, LeafLinks DEF After
<1> QED BY <1>1, <1>3, <1>4, <1>5, <1>6, <1>7, <1>8

LEMMA PairIsNoHost ==
    ASSUME NEW a, NEW b
    PROVE  <<a, b>> \notin Leaf!Host
<1> SUFFICES ASSUME <<a, b>> \in Leaf!Host PROVE FALSE
    OBVIOUS
<1>1. \A x \in Leaf!Host : \E i, j, k : x = <<i, j, k>>
    BY LeafHost
<1>2. PICK i, j, k : <<a, b>> = <<i, j, k>>
    BY <1>1
<1>3. Len(<<a, b>>) = 2 /\ Len(<<i, j, k>>) = 3
    OBVIOUS
<1> QED BY <1>2, <1>3

Ports(t) == [i \in DOMAIN t |-> Leaf!port_uid(t[i].sw, t[i].out)]

LEMMA BaseRoute ==
    ASSUME flow \in Flow, pick \in 0..(S - 1), NEW t \in Seq(Met), 1 <= Len(t), Outs(t),
           NEW p \in EndHost, Follows(t, p, flow, pick)
    PROVE  Ports(t) = Leaf!RouteVia(pick, flow[1], flow[2])
<1> DEFINE n == Len(t)
           ls == Leaf!leaf(flow[1][2])
           sp == Leaf!spine(pick + 1)
           ld == Leaf!leaf(flow[2][2])
<1>1. /\ n \in Nat /\ DOMAIN t = 1..n
      /\ p = After(t[n].sw, flow, pick) /\ p \in Leaf!Host
      /\ Place(t[1]) = HostPort(flow[1])
      /\ \A i \in 1..(n - 1) :
            Place(t[i + 1]) = After(t[i].sw, flow, pick) /\ Place(t[i + 1]) \notin Leaf!Host
      /\ \A i \in 1..n : t[i].out = EgressSpec(t[i].sw, flow[2], pick)
    BY LeafNet DEF Follows, Outs
<1>2. t[1].sw = ls
    BY <1>1, BaseHops, LeafNet DEF Place, Leaf!Attach
<1>3. CASE flow[1][2] = flow[2][2]
    <2>1. After(t[1].sw, flow, pick) \in Leaf!Host
        BY <1>2, <1>3, BaseHops
    <2>2. n = 1
        BY <1>1, <2>1
    <2>3. t[1].out = Leaf!LeafPort(flow[2])
        BY <1>1, <1>2, <1>3, <2>2, BaseHops
    <2> QED BY <1>1, <1>2, <1>3, <2>2, <2>3 DEF Ports, Leaf!RouteVia
<1>4. CASE flow[1][2] # flow[2][2]
    <2>1. After(t[1].sw, flow, pick) = <<sp, FarPort(ls, pick + 1)>> /\ t[1].out = pick + 1
        BY <1>1, <1>2, <1>4, BaseHops
    <2>2. n > 1
        BY <1>1, <2>1, PairIsNoHost
    <2>3. t[2].sw = sp
        <3>1. 1 \in 1..(n - 1) /\ 1 + 1 = 2
            BY <1>1, <2>2
        <3>2. Place(t[2]) = After(t[1].sw, flow, pick)
            BY <1>1, <3>1
        <3> QED BY <2>1, <3>2 DEF Place
    <2>4. /\ After(t[2].sw, flow, pick) = <<ld, FarPort(sp, flow[2][2])>>
          /\ t[2].out = flow[2][2]
        BY <1>1, <2>2, <2>3, BaseHops
    <2>5. n > 2
        BY <1>1, <2>2, <2>4, PairIsNoHost
    <2>6. t[3].sw = ld
        <3>1. 2 \in 1..(n - 1) /\ 2 + 1 = 3
            BY <1>1, <2>5
        <3>2. Place(t[3]) = After(t[2].sw, flow, pick)
            BY <1>1, <3>1
        <3> QED BY <2>4, <3>2 DEF Place
    <2>7. After(t[3].sw, flow, pick) \in Leaf!Host /\ t[3].out = Leaf!LeafPort(flow[2])
        BY <1>1, <2>5, <2>6, BaseHops
    <2>8. n = 3
        BY <1>1, <2>5, <2>7
    <2> QED BY <1>1, <1>2, <1>4, <2>1, <2>3, <2>4, <2>6, <2>7, <2>8 DEF Ports, Leaf!RouteVia
<1> QED BY <1>3, <1>4

LEMMA BaseReplay ==
    ASSUME BInv, OutInv, NEW k \in DOMAIN captured
    PROVE  Ports(captured[k].met) = Leaf!RouteVia(pick, flow[1], flow[2])
<1>1. k \in 1..Len(captured) /\ captured[k].met \in Seq(Met) /\ 1 <= Len(captured[k].met)
    BY Captured
<1>2. PICK p \in EndHost : Follows(captured[k].met, p, flow, pick)
    BY <1>1 DEF BInv, Kept
<1>3. flow \in Flow /\ pick \in 0..(S - 1)
    BY LeafNet DEF BInv, Types
<1>4. Outs(captured[k].met)
    BY <1>1 DEF OutInv
<1> QED BY <1>1, <1>2, <1>3, <1>4, BaseRoute

-----------------------------------------------------------------------------
(* One network at a time *)

NetInv ==
    /\ net = "fat-tree" => FatInv
    /\ net = "leaf-spine" => LeafInv
    /\ net = "line" => LineInv
    /\ net = "baseline" => BInv /\ OutInv

LEMMA AlwaysNetInv == NetSpec => []NetInv
<1>1. NetInit => NetInv
    BY FatInit, LeafInit, LineInit, InitBInv, InitOuts DEF NetInit, NetInv
<1>2. NetInv /\ [NetNext]_net_vars => NetInv'
    <2> SUFFICES ASSUME NetInv, [NetNext]_net_vars PROVE NetInv'
        OBVIOUS
    <2>1. net' = net
        BY DEF NetNext, net_vars
    <2>2. ASSUME net = "fat-tree" PROVE FatInv'
        <3>1. FatInv /\ [Fat!Net!Next]_pool_vars
            BY <2>2 DEF NetInv, NetNext, net_vars
        <3> QED BY <3>1, FatNext
    <2>3. ASSUME net = "leaf-spine" PROVE LeafInv'
        <3>1. LeafInv /\ [Leaf!Net!Next]_pool_vars
            BY <2>3 DEF NetInv, NetNext, net_vars
        <3> QED BY <3>1, LeafNext
    <2>4. ASSUME net = "line" PROVE LineInv'
        <3>1. LineInv /\ [Line!Net!Next]_pool_vars
            BY <2>4 DEF NetInv, NetNext, net_vars
        <3> QED BY <3>1, LineNext
    <2>5. ASSUME net = "baseline" PROVE BInv' /\ OutInv'
        <3>1. BInv /\ OutInv /\ [Next]_vars
            BY <2>5 DEF NetInv, NetNext, net_vars
        <3> QED BY <3>1, NextBInv, NextOuts
    <2> QED BY <2>1, <2>2, <2>3, <2>4, <2>5 DEF NetInv
<1> QED BY <1>1, <1>2, PTL DEF NetSpec

(* What the collector replays is what the packet crossed (gate #0b,         *)
(* fat_tree.py:166-210, leaf_spine.py:104-126, line_topo.py:68-89), in      *)
(* fat-trees of up to 22 pods, whose switch ids still fit the eight bits of *)
(* a debug entry, in leaf-spines of every size up to the choice of the      *)
(* spine, and in lines of every length, for every outcome of the hashes.    *)
THEOREM ReplayIsAlwaysRoute ==
    ASSUME K <= 22
    PROVE  NetSpec => []ReplayIsRoute
<1>1. NetInv => ReplayIsRoute
    <2> SUFFICES ASSUME NetInv PROVE ReplayIsRoute
        OBVIOUS
    <2>1. net = "fat-tree" => Fat!ReplayIsPath /\ Fat!PathFitsDebug
        BY FatFits DEF NetInv, FatInv, Fat!ReplayIsPath
    <2>2. net = "leaf-spine" => Leaf!ReplayUpToSpine
        BY LeafReplay DEF NetInv
    <2>3. net = "line" => Line!ReplayIsPath
        BY DEF NetInv, LineInv, Line!ReplayIsPath
    <2>4. ASSUME net = "baseline", NEW k \in DOMAIN captured
          PROVE  Ports(captured[k].met) = Leaf!RouteVia(pick, flow[1], flow[2])
        BY <2>4, BaseReplay DEF NetInv
    <2> QED BY <2>1, <2>2, <2>3, <2>4 DEF ReplayIsRoute, Ports
<1> QED BY <1>1, AlwaysNetInv, PTL

(* With at most four pods a port_uid is a global label of the port          *)
(* (headers.p4:37, fat_tree.py:23-24): no two switches have one id.  With   *)
(* six the edges' ids reach those of the aggregation switches.              *)
THEOREM UidIsAlwaysGlobal ==
    ASSUME K <= 4
    PROVE  NetSpec => []UidIsGlobalLabel
<1>1. NetInv => UidIsGlobalLabel
    BY FatGlobal DEF NetInv, UidIsGlobalLabel
<1> QED BY <1>1, AlwaysNetInv, PTL
=============================================================================
