--------------------------- MODULE TelemetryProofs ---------------------------
(***************************************************************************)
(* What holds of every comparison, timeline, set of paths and loss: a      *)
(* collector is stale only through a loss, and PoolINT never names a port  *)
(* that is not faulty in the window it decodes.                            *)
(***************************************************************************)
EXTENDS TelemetryReplay, DataProofs

\* The per-scheme functions have the shape they start with.
Shape ==
    /\ last_rep \in [compared -> [Monitored -> Value]]
    /\ known \in [compared -> [Monitored -> Value]]
    /\ missed \in [compared -> SUBSET Monitored]
    /\ refreshed \in [compared -> SUBSET Monitored]
    /\ heard \in [compared -> SUBSET Monitored]
    /\ crossed \in [Monitored -> Nat]
    /\ declared \in [compared -> [Monitored -> Nat]]

\* Shape is inductive by itself.
LEMMA ShapeStep == Shape /\ [Next]_vars => Shape'
<1> SUFFICES ASSUME Shape, [Next]_vars PROVE Shape'
  OBVIOUS
<1> USE DEF Shape
<1>s. \A e : State(e) \in Value
  BY DEF State, Value
<1>l. ASSUME NEW f \in [Monitored -> Value], NEW recs
      PROVE  Learn(f, recs) \in [Monitored -> Value]
  BY <1>s DEF Learn
<1>c. ASSUME NEW f \in [Monitored -> Nat], NEW recs
      PROVE  Count(f, recs) \in [Monitored -> Nat]
  BY DEF Count
<1>1. CASE Packet
  <2> PICK path \in Path :
        \E recs \in [compared -> SUBSET (path \cap Monitored)],
           gone \in [compared -> SUBSET (path \cap Monitored)] :
           RevealReport(recs, gone) /\ crossed' = Count(crossed, path)
    BY <1>1 DEF Packet
  <2> PICK recs \in [compared -> SUBSET (path \cap Monitored)],
           gone \in [compared -> SUBSET (path \cap Monitored)] :
           RevealReport(recs, gone) /\ crossed' = Count(crossed, path)
    OBVIOUS
  <2>0. compared' = compared
    BY <1>1 DEF Packet
  <2>1. last_rep' \in [compared -> [Monitored -> Value]]
    BY <1>l DEF RevealReport, Reported
  <2>2. known' \in [compared -> [Monitored -> Value]]
    BY <1>l DEF RevealReport, Learned
  <2>3. /\ missed' \in [compared -> SUBSET Monitored]
        /\ refreshed' \in [compared -> SUBSET Monitored]
        /\ heard' \in [compared -> SUBSET Monitored]
    BY DEF RevealReport
  <2>4. crossed' \in [Monitored -> Nat]
    BY <1>c
  <2>5. declared' \in [compared -> [Monitored -> Nat]]
    BY <1>c DEF RevealReport
  <2> QED
    BY <2>0, <2>1, <2>2, <2>3, <2>4, <2>5
<1>2. CASE NextWindow
  BY <1>2 DEF NextWindow
<1>3. CASE UNCHANGED vars
  BY <1>3 DEF vars
<1> QED
  BY <1>1, <1>2, <1>3 DEF Next

\* What a scheme that reports every change has declared of a path.
LEMMA RecordsFacts ==
    ASSUME NEW s, NEW path, NEW recs \in Records(s, path), s.kind \in Reveals
    PROVE  /\ s.kind = "full" \/ Changed(s, path \cap Monitored) \subseteq recs
           /\ s.kind = "full" => recs = path \cap Monitored
  BY DEF Records, Reveals, Pools

(* The links between what a port is, what its switch has reported and what  *)
(* the collector knows.                                                     *)
Current(s, e) == IF s.kind \in Reveals THEN crossed[e] > 0 ELSE declared[s][e] > 0

Links ==
    \A s \in compared, e \in Monitored :
        /\ e \notin missed[s] => known[s][e] = last_rep[s][e]
        /\ s.kind = "delta" => missed[s] = {}
        /\ Current(s, e) => last_rep[s][e] = State(e)

\* A packet keeps the links: the switch notes every record it sends, and a port
\* on the path that is not on the record already had its value.
LEMMA LinksPacket == Shape /\ Links /\ Packet => Links'
<1> SUFFICES ASSUME Shape, Links, Packet PROVE Links'
  OBVIOUS
<1>1. PICK path \in Path :
        \E recs \in [compared -> SUBSET (path \cap Monitored)],
           gone \in [compared -> SUBSET (path \cap Monitored)] :
           /\ \A s \in compared : recs[s] \in Records(s, path) /\ gone[s] \subseteq Losable(s, recs[s])
           /\ RevealReport(recs, gone)
           /\ crossed' = Count(crossed, path)
  BY DEF Packet
<1>2. PICK recs \in [compared -> SUBSET (path \cap Monitored)],
           gone \in [compared -> SUBSET (path \cap Monitored)] :
           /\ \A s \in compared : recs[s] \in Records(s, path) /\ gone[s] \subseteq Losable(s, recs[s])
           /\ RevealReport(recs, gone)
           /\ crossed' = Count(crossed, path)
  BY <1>1
<1>3. compared' = compared /\ tw' = tw
  BY DEF Packet
<1> SUFFICES ASSUME NEW s \in compared, NEW e \in Monitored
             PROVE  /\ e \notin missed'[s] => known'[s][e] = last_rep'[s][e]
                    /\ s.kind = "delta" => missed'[s] = {}
                    /\ Current(s, e)' => last_rep'[s][e] = State(e)
  BY <1>3 DEF Links, State
<1>4. /\ last_rep'[s][e] = IF e \in recs[s] THEN State(e) ELSE last_rep[s][e]
      /\ known'[s][e] = IF e \in recs[s] \ gone[s] THEN State(e) ELSE known[s][e]
      /\ missed'[s] = (missed[s] \ recs[s]) \cup gone[s]
      /\ crossed'[e] = IF e \in path THEN crossed[e] + 1 ELSE crossed[e]
      /\ declared'[s][e] = IF e \in recs[s] THEN declared[s][e] + 1 ELSE declared[s][e]
  BY <1>2 DEF RevealReport, Reported, Learned, Learn, Count, Shape
<1>5. gone[s] \subseteq recs[s] /\ (s.kind = "delta" => gone[s] = {})
  BY <1>2 DEF Losable
<1>6. e \notin missed'[s] => known'[s][e] = last_rep'[s][e]
  BY <1>4, <1>5 DEF Links
<1>7. s.kind = "delta" => missed'[s] = {}
  BY <1>4, <1>5 DEF Links
<1>8. ASSUME Current(s, e)' PROVE last_rep'[s][e] = State(e)
  <2>1. CASE e \in recs[s]
    BY <1>4, <2>1
  <2>2. CASE e \notin recs[s] /\ ~(e \in path /\ s.kind \in Reveals)
    <3>1. Current(s, e)
      BY <1>4, <1>8, <2>2 DEF Current
    <3> QED
      BY <1>4, <2>2, <3>1 DEF Links
  <2>3. CASE e \notin recs[s] /\ e \in path /\ s.kind \in Reveals
    <3>1. recs[s] \in Records(s, path)
      BY <1>2
    <3>5. /\ s.kind = "full" \/ Changed(s, path \cap Monitored) \subseteq recs[s]
          /\ s.kind = "full" => recs[s] = path \cap Monitored
      BY <2>3, <3>1, RecordsFacts
    <3>2. s.kind # "full" /\ e \notin Changed(s, path \cap Monitored)
      BY <2>3, <3>5
    <3>3. Reference(s)[e] = State(e)
      BY <2>3, <3>2 DEF Changed
    <3>4. last_rep[s][e] = State(e)
      BY <3>3 DEF Reference, Links
    <3> QED
      BY <1>4, <2>3, <3>4
  <2> QED
    BY <2>1, <2>2, <2>3
<1> QED
  BY <1>6, <1>7, <1>8

\* A new window makes no port current.
LEMMA LinksWindow == Shape /\ Links /\ NextWindow => Links'
  BY DEF Shape, Links, NextWindow, Current

-----------------------------------------------------------------------------
\* How many records of a port a window has seen, under each accounting.
Counts ==
    \A s \in compared, e \in Monitored :
        /\ s.kind \in {"O", "once"} =>
             /\ declared[s][e] <= 1
             /\ declared[s][e] = 1 => crossed[e] > 0
        /\ s.kind = "once" /\ is_refresh(s) =>
             /\ declared[s][e] = 1 <=> e \in refreshed[s]
             /\ crossed[e] > 0 => declared[s][e] = 1
        /\ s.kind = "every" /\ is_refresh(s) =>
             /\ declared[s][e] = crossed[e]
             /\ e \in heard[s] => known[s][e] = State(e)

\* What DeltaINT declares of a path.
LEMMA DeltaRecords ==
    ASSUME NEW s, NEW path, NEW recs \in Records(s, path), s.kind \in {"O", "every", "once"}
    PROVE  recs = Refresh(s, path \cap Monitored) \cup Changed(s, path \cap Monitored)
  BY DEF Records, Pools

\* A packet keeps the counts: a port already declared in this window is neither
\* due for a refresh nor changed.
LEMMA CountsPacket == Shape /\ Links /\ Counts /\ Packet => Counts'
<1> SUFFICES ASSUME Shape, Links, Counts, Packet PROVE Counts'
  OBVIOUS
<1>1. PICK path \in Path :
        \E recs \in [compared -> SUBSET (path \cap Monitored)],
           gone \in [compared -> SUBSET (path \cap Monitored)] :
           /\ \A s \in compared : recs[s] \in Records(s, path)
           /\ RevealReport(recs, gone)
           /\ crossed' = Count(crossed, path)
  BY DEF Packet
<1>2. PICK recs \in [compared -> SUBSET (path \cap Monitored)],
           gone \in [compared -> SUBSET (path \cap Monitored)] :
           /\ \A s \in compared : recs[s] \in Records(s, path)
           /\ RevealReport(recs, gone)
           /\ crossed' = Count(crossed, path)
  BY <1>1
<1>3. compared' = compared /\ tw' = tw /\ w' = w
  BY DEF Packet
<1> SUFFICES ASSUME NEW s \in compared, NEW e \in Monitored
             PROVE  /\ s.kind \in {"O", "once"} =>
                          declared'[s][e] <= 1 /\ (declared'[s][e] = 1 => crossed'[e] > 0)
                    /\ s.kind = "once" /\ is_refresh(s) =>
                          /\ declared'[s][e] = 1 <=> e \in refreshed'[s]
                          /\ crossed'[e] > 0 => declared'[s][e] = 1
                    /\ s.kind = "every" /\ is_refresh(s) =>
                          /\ declared'[s][e] = crossed'[e]
                          /\ e \in heard'[s] => known'[s][e] = State(e)
  BY <1>3 DEF Counts, State, is_refresh
<1>4. /\ known'[s][e] = IF e \in recs[s] \ gone[s] THEN State(e) ELSE known[s][e]
      /\ crossed'[e] = IF e \in path THEN crossed[e] + 1 ELSE crossed[e]
      /\ declared'[s][e] = IF e \in recs[s] THEN declared[s][e] + 1 ELSE declared[s][e]
      /\ refreshed'[s] = IF is_refresh(s) /\ s.kind = "once" THEN refreshed[s] \cup recs[s]
                                                             ELSE refreshed[s]
      /\ heard'[s] = heard[s] \cup (recs[s] \ gone[s])
  BY <1>2 DEF RevealReport, Learned, Learn, Count, Shape
<1>5. crossed[e] \in Nat /\ declared[s][e] \in Nat /\ recs[s] \subseteq path \cap Monitored
  BY <1>2 DEF Shape
<1>6. ASSUME s.kind \in {"O", "every", "once"}
      PROVE  e \in recs[s] <=> e \in Refresh(s, path \cap Monitored)
                                \/ (e \in path /\ last_rep[s][e] # State(e))
  <2>1. recs[s] = Refresh(s, path \cap Monitored) \cup Changed(s, path \cap Monitored)
    BY <1>2, <1>6, DeltaRecords
  <2>2. e \in Changed(s, path \cap Monitored) <=> e \in path /\ last_rep[s][e] # State(e)
    BY <1>6 DEF Changed, Reference
  <2> QED
    BY <2>1, <2>2
<1>7. ASSUME s.kind \in {"O", "once"}, e \in recs[s]
      PROVE  declared[s][e] = 0
  <2> SUFFICES ASSUME declared[s][e] = 1 PROVE FALSE
    BY <1>5, <1>7 DEF Counts
  <2>1. last_rep[s][e] = State(e)
    BY <1>7 DEF Counts, Links, Current, Reveals
  <2>2. e \in Refresh(s, path \cap Monitored)
    BY <1>6, <1>7, <2>1
  <2>3. s.kind = "once" /\ is_refresh(s) /\ e \notin refreshed[s]
    BY <1>7, <2>2 DEF Refresh, is_refresh
  <2> QED
    BY <2>3 DEF Counts
<1>8. s.kind \in {"O", "once"} =>
          declared'[s][e] <= 1 /\ (declared'[s][e] = 1 => crossed'[e] > 0)
  BY <1>4, <1>5, <1>7 DEF Counts
<1>9. ASSUME s.kind = "once", is_refresh(s)
      PROVE  /\ declared'[s][e] = 1 <=> e \in refreshed'[s]
             /\ crossed'[e] > 0 => declared'[s][e] = 1
  <2>1. e \in path => e \in recs[s] \/ e \in refreshed[s]
    BY <1>6, <1>9 DEF Refresh
  <2>2. CASE e \in recs[s]
    BY <1>4, <1>7, <1>9, <2>2
  <2>3. CASE e \notin recs[s]
    BY <1>4, <1>5, <1>9, <2>1, <2>3 DEF Counts
  <2> QED
    BY <2>2, <2>3
<1>10. ASSUME s.kind = "every", is_refresh(s)
       PROVE  /\ declared'[s][e] = crossed'[e]
              /\ e \in heard'[s] => known'[s][e] = State(e)
  <2>1. e \in recs[s] <=> e \in path
    BY <1>5, <1>6, <1>10 DEF Refresh
  <2> QED
    BY <1>4, <1>10, <2>1 DEF Counts
<1> QED
  BY <1>8, <1>9, <1>10

-----------------------------------------------------------------------------
\* Two schemes that report every change agree on what was last reported; where
\* nothing is lost, on what the collector knows.
Agree ==
    \A a, b \in {s \in compared : s.kind \in Reveals} :
        /\ last_rep[a] = last_rep[b]
        /\ ~lossy => missed[a] = {}

\* What a packet does to a scheme that reports every change: the ports on its
\* path are reported at their present value, the others as before.
LEMMA RevealPacket ==
    ASSUME Shape, Links, Packet
    PROVE  \E path \in Path : \A s \in compared : s.kind \in Reveals =>
              \A e \in Monitored :
                 last_rep'[s][e] = IF e \in path THEN State(e) ELSE last_rep[s][e]
<1>1. PICK path \in Path :
        \E recs \in [compared -> SUBSET (path \cap Monitored)],
           gone \in [compared -> SUBSET (path \cap Monitored)] :
           /\ \A s \in compared : recs[s] \in Records(s, path)
           /\ RevealReport(recs, gone)
  BY DEF Packet
<1>2. PICK recs \in [compared -> SUBSET (path \cap Monitored)],
           gone \in [compared -> SUBSET (path \cap Monitored)] :
           /\ \A s \in compared : recs[s] \in Records(s, path)
           /\ RevealReport(recs, gone)
  BY <1>1
<1> SUFFICES ASSUME NEW s \in compared, s.kind \in Reveals, NEW e \in Monitored
             PROVE  last_rep'[s][e] = IF e \in path THEN State(e) ELSE last_rep[s][e]
  OBVIOUS
<1>3. /\ last_rep'[s][e] = IF e \in recs[s] THEN State(e) ELSE last_rep[s][e]
      /\ recs[s] \subseteq path
  BY <1>2 DEF RevealReport, Reported, Learn, Shape
<1>4. ASSUME e \in path, e \notin recs[s] PROVE last_rep[s][e] = State(e)
  <2>1. recs[s] \in Records(s, path)
    BY <1>2
  <2>2. /\ s.kind = "full" \/ Changed(s, path \cap Monitored) \subseteq recs[s]
        /\ s.kind = "full" => recs[s] = path \cap Monitored
    BY <2>1, RecordsFacts
  <2>3. Reference(s)[e] = State(e)
    BY <1>4, <2>2 DEF Changed
  <2> QED
    BY <2>3 DEF Reference, Links
<1> QED
  BY <1>3, <1>4

LEMMA AgreeStep ==
    ASSUME Shape, Links, Agree, [Next]_vars, Shape'
    PROVE  Agree'
<1>1. CASE Packet
  <2>0. compared' = compared /\ lossy' = lossy
    BY <1>1 DEF Packet
  <2> SUFFICES ASSUME NEW a \in compared, NEW b \in compared, a.kind \in Reveals, b.kind \in Reveals
               PROVE  last_rep'[a] = last_rep'[b] /\ (~lossy => missed'[a] = {})
    BY <2>0 DEF Agree
  <2>1. last_rep'[a] = last_rep'[b]
    <3>1. PICK path \in Path : \A s \in compared : s.kind \in Reveals =>
              \A e \in Monitored :
                 last_rep'[s][e] = IF e \in path THEN State(e) ELSE last_rep[s][e]
      BY <1>1, RevealPacket
    <3>2. \A e \in Monitored : last_rep'[a][e] = last_rep'[b][e]
      BY <3>1 DEF Agree
    <3>3. last_rep'[a] \in [Monitored -> Value] /\ last_rep'[b] \in [Monitored -> Value]
      BY <2>0 DEF Shape
    <3> QED
      BY <3>2, <3>3
  <2>2. ASSUME ~lossy PROVE missed'[a] = {}
    <3>1. \E recs, gone : RevealReport(recs, gone) /\ gone[a] \subseteq Losable(a, recs[a])
      BY <1>1 DEF Packet
    <3> QED
      BY <2>2, <3>1 DEF RevealReport, Losable, Agree, Shape
  <2> QED
    BY <2>1, <2>2
<1>2. CASE NextWindow
  BY <1>2 DEF NextWindow, Agree
<1>3. CASE UNCHANGED vars
  BY <1>3 DEF vars, Agree
<1> QED
  BY <1>1, <1>2, <1>3 DEF Next

\* Every window that refreshes with the longer period refreshes with the shorter.
LEMMA RefreshNested ==
    ASSUME NEW a \in Nat \ {0}, NEW b \in Nat \ {0}, NEW v \in Nat, b % a = 0, v % b = 0
    PROVE  v % a = 0
<1>1. PICK k \in Nat : b = a * k
  BY SMT
<1>2. PICK m \in Nat : v = b * m
  BY SMT
<1>3. v = a * (k * m)
  BY <1>1, <1>2, SMT
<1> QED
  BY <1>3, SMT

\* The comparisons as the constants declare them, and byte counts that are numbers.
Frame ==
    /\ compared \subseteq [kind : Kind, P : Nat \ {0}]
    /\ w \in Nat
    /\ nbytes \in [compared -> Nat]

LEMMA CostIsNat ==
    ASSUME NEW s, NEW recs \in SUBSET Monitored
    PROVE  Cost(s, recs) \in Nat
<1>1. Cardinality(recs) \in Nat
  BY ReplayAssumption, FS_Subset, FS_CardinalityType
<1>2. BASE + REC * Cardinality(recs) \in Nat
  BY <1>1, ReplayAssumption
<1> QED
  BY <1>2, ReplayAssumption DEF Cost, Pools

LEMMA FrameStep == Frame /\ [Next]_vars => Frame'
<1> SUFFICES ASSUME Frame, [Next]_vars PROVE Frame'
  OBVIOUS
<1>1. CASE Packet
  <2>1. PICK recs \in [compared -> SUBSET Monitored], got \in BOOLEAN :
          nbytes' = [s \in compared |-> nbytes[s] + Cost(s, recs[s]) + PoolSent(s, got)]
    <3>1. PICK path \in Path :
            \E recs \in [compared -> SUBSET (path \cap Monitored)], got \in BOOLEAN :
               nbytes' = [s \in compared |-> nbytes[s] + Cost(s, recs[s]) + PoolSent(s, got)]
      BY <1>1 DEF Packet
    <3> QED
      BY <3>1
  <2>2. \A s \in compared : Cost(s, recs[s]) \in Nat /\ PoolSent(s, got) \in Nat
    BY CostIsNat, ReplayAssumption DEF PoolSent, Pools
  <2> QED
    BY <1>1, <2>1, <2>2 DEF Packet, Frame
<1>2. CASE NextWindow
  BY <1>2 DEF NextWindow, Frame
<1>3. CASE UNCHANGED vars
  BY <1>3 DEF vars, Frame
<1> QED
  BY <1>1, <1>2, <1>3 DEF Next

\* A set of records costs no more than a set that includes it.
LEMMA CostMonotone ==
    ASSUME NEW a, NEW b, a.kind \notin Pools \cup {"pint"}, b.kind \notin Pools \cup {"pint"},
           NEW recs \in SUBSET Monitored, NEW sub \in SUBSET recs
    PROVE  Cost(b, sub) <= Cost(a, recs)
<1>1. IsFiniteSet(recs) /\ IsFiniteSet(sub)
  BY ReplayAssumption, FS_Subset
<1>2. Cardinality(recs) \in Nat /\ Cardinality(sub) \in Nat
  BY <1>1, FS_CardinalityType
<1>3. Cardinality(sub) <= Cardinality(recs)
  BY <1>1, FS_Subset
<1>4. REC * Cardinality(sub) <= REC * Cardinality(recs)
  BY <1>2, <1>3, ReplayAssumption, SMT
<1>5. REC * Cardinality(sub) \in Nat /\ REC * Cardinality(recs) \in Nat
  BY <1>2, ReplayAssumption, SMT
<1>6. Cost(b, sub) = IF sub = {} THEN 0 ELSE BASE + REC * Cardinality(sub)
  BY DEF Cost, Pools
<1>7. Cost(a, recs) = IF recs = {} THEN 0 ELSE BASE + REC * Cardinality(recs)
  BY DEF Cost, Pools
<1> QED
  BY <1>4, <1>5, <1>6, <1>7, ReplayAssumption

\* A scheme that covers another declares, on every packet, all the other does.
LEMMA CoversRecords ==
    ASSUME Shape, Links, Counts, Agree, Frame,
           NEW a \in compared, NEW b \in compared, Covers(a, b),
           NEW path, NEW recsA \in Records(a, path), NEW recsB \in Records(b, path)
    PROVE  recsB \subseteq recsA
<1> DEFINE onM == path \cap Monitored
<1>1. CASE a.kind = "full"
  <2>1. recsA = onM
    BY <1>1 DEF Records, Pools
  <2>2. CASE b.kind = "samp"
    BY <2>1, <2>2 DEF Records, Pools
  <2>3. CASE b.kind \in {"delta", "O", "every", "once"}
    <3>1. recsB = Refresh(b, onM) \cup Changed(b, onM)
      BY <2>3 DEF Records, Pools
    <3> QED
      BY <2>1, <3>1 DEF Refresh, Changed
  <2> QED
    BY <1>1, <2>2, <2>3 DEF Covers
<1>2. CASE a.kind \in {"every", "once"}
  <2>1. /\ b.kind \in {"O", "every", "once"}
        /\ b.kind # "O" => b.P % a.P = 0
        /\ a.kind = "once" => b.kind # "every"
    BY <1>2 DEF Covers
  <2>2. /\ recsA = Refresh(a, onM) \cup Changed(a, onM)
        /\ recsB = Refresh(b, onM) \cup Changed(b, onM)
    BY <1>2, <2>1, DeltaRecords
  <2>3. Changed(b, onM) = Changed(a, onM)
    <3>1. last_rep[a] = last_rep[b]
      BY <1>2, <2>1 DEF Agree, Reveals
    <3> QED
      BY <1>2, <2>1, <3>1 DEF Changed, Reference
  <2>4. is_refresh(b) => is_refresh(a)
    <3>1. a.P \in Nat \ {0} /\ b.P \in Nat \ {0} /\ w \in Nat
      BY DEF Frame
    <3> QED
      BY <1>2, <2>1, <3>1, RefreshNested DEF is_refresh
  <2>5. CASE ~is_refresh(b)
    BY <2>2, <2>3, <2>5 DEF Refresh
  <2>6. CASE is_refresh(b) /\ a.kind = "every"
    BY <2>2, <2>3, <2>4, <2>6 DEF Refresh
  <2>7. CASE is_refresh(b) /\ a.kind = "once"
    <3>1. b.kind = "once" /\ is_refresh(a)
      BY <2>1, <2>4, <2>7 DEF is_refresh
    <3>2. \A e \in Monitored : e \in refreshed[a] <=> e \in refreshed[b]
      BY <2>7, <3>1 DEF Counts, Shape
    <3> QED
      BY <2>2, <2>3, <2>7, <3>1, <3>2 DEF Refresh
  <2> QED
    BY <1>2, <2>5, <2>6, <2>7
<1> QED
  BY <1>1, <1>2 DEF Covers

-----------------------------------------------------------------------------
\* The parts hold each other up: Changed needs Links, Refresh needs Counts, and
\* the costs of two schemes need them to agree on what was reported.
Inv == Shape /\ Links /\ Counts /\ Agree /\ Frame /\ CostOrder

LEMMA InvAlways == Spec => []Inv
<1> USE DEF Inv
<1>1. Init => Inv
  <2> SUFFICES ASSUME Init PROVE Inv
    OBVIOUS
  <2>1. Shape /\ Links /\ Counts
    BY DEF Init, Shape, Links, Counts, Current, Value, is_refresh
  <2>2. Frame
    BY ReplayAssumption DEF Init, Frame
  <2>3. Agree /\ CostOrder
    BY DEF Init, Agree, CostOrder
  <2> QED
    BY <2>1, <2>2, <2>3
<1>2. Inv /\ [Next]_vars => Inv'
  <2> SUFFICES ASSUME Inv, [Next]_vars PROVE Inv'
    OBVIOUS
  <2>1. Shape' /\ Frame'
    BY ShapeStep, FrameStep
  <2>2. Agree'
    BY <2>1, AgreeStep
  <2>3. CASE Packet
    <3>1. Links' /\ Counts'
      BY <2>3, LinksPacket, CountsPacket
    <3>2. CostOrder'
      <4>1. PICK path \in Path :
              \E recs \in [compared -> SUBSET (path \cap Monitored)], got \in BOOLEAN :
                 /\ \A s \in compared : recs[s] \in Records(s, path)
                 /\ nbytes' = [s \in compared |-> nbytes[s] + Cost(s, recs[s]) + PoolSent(s, got)]
        BY <2>3 DEF Packet
      <4>2. PICK recs \in [compared -> SUBSET (path \cap Monitored)], got \in BOOLEAN :
                 /\ \A s \in compared : recs[s] \in Records(s, path)
                 /\ nbytes' = [s \in compared |-> nbytes[s] + Cost(s, recs[s]) + PoolSent(s, got)]
        BY <4>1
      <4>3. compared' = compared
        BY <2>3 DEF Packet
      <4> SUFFICES ASSUME NEW a \in compared, NEW b \in compared, Covers(a, b)
                   PROVE  nbytes'[b] <= nbytes'[a]
        BY <4>3 DEF CostOrder, Covers
      <4>4. a.kind \notin Pools \cup {"pint"} /\ b.kind \notin Pools \cup {"pint"}
        BY DEF Covers, Pools
      <4>5. recs[b] \subseteq recs[a] /\ recs[a] \subseteq Monitored
        BY <4>2, CoversRecords
      <4>6. Cost(b, recs[b]) <= Cost(a, recs[a])
        BY <4>4, <4>5, CostMonotone
      <4>7. Cost(a, recs[a]) \in Nat /\ Cost(b, recs[b]) \in Nat
        BY <4>5, CostIsNat
      <4>8. /\ nbytes'[a] = nbytes[a] + Cost(a, recs[a])
            /\ nbytes'[b] = nbytes[b] + Cost(b, recs[b])
        BY <4>2, <4>4, <4>7 DEF PoolSent, Pools, Frame
      <4>9. nbytes[b] <= nbytes[a] /\ nbytes[a] \in Nat /\ nbytes[b] \in Nat
        BY DEF CostOrder, Frame
      <4> QED
        BY <4>6, <4>7, <4>8, <4>9
    <3> QED
      BY <2>1, <2>2, <3>1, <3>2
  <2>4. CASE NextWindow
    <3>1. Counts' /\ CostOrder'
      BY <2>4 DEF NextWindow, Counts, is_refresh, CostOrder, Covers
    <3> QED
      BY <2>1, <2>2, <2>4, <3>1, LinksWindow
  <2>5. CASE UNCHANGED vars
    BY <2>1, <2>2, <2>5 DEF vars, Links, Counts, Current, State, is_refresh, CostOrder, Covers
  <2> QED
    BY <2>3, <2>4, <2>5 DEF Next
<1> QED
  BY <1>1, <1>2, PTL DEF Spec

(* "The collector holds the stale state" only where a record was lost       *)
(* (m3c1_loss.py, run_delta; m3final.py, run_full, run_pint, run_delta):    *)
(* for every scheme, timeline, set of paths and pattern of loss.            *)
THEOREM StaleOnlyByLoss == Spec => []StaleNeedsLoss
<1>1. Inv => StaleNeedsLoss
  BY DEF Inv, Links, StaleNeedsLoss, Current
<1> QED
  BY <1>1, InvAlways, PTL

(* m3final.py, run_delta: refresh and change report never both declare a    *)
(* port, and a refresh window leaves out no port it crosses.                *)
THEOREM AlwaysDeclaredOnce == Spec => []DeclaredOnce
<1>1. Inv => DeclaredOnce
  BY DEF Inv, Shape, Counts, DeclaredOnce
<1> QED
  BY <1>1, InvAlways, PTL

(* m3c1_loss.py, run_delta: a refresh window heals a stale port "unless ALL *)
(* crossing reports are dropped".                                           *)
THEOREM RefreshAlwaysHeals == Spec => []RefreshHeals
<1>1. Inv => RefreshHeals
  BY DEF Inv, Counts, RefreshHeals
<1> QED
  BY <1>1, InvAlways, PTL

(* board_study takes the cheapest period whose F1 suffices: it relies on    *)
(* rarer and once-only refreshes never costing more. For every comparison,  *)
(* timeline, cost per record and pattern of loss.                           *)
THEOREM CostIsOrdered == Spec => []CostOrder
<1>1. Inv => CostOrder
  BY DEF Inv
<1> QED
  BY <1>1, InvAlways, PTL

(* m3b3_dynamic.py: without loss the "collector knowledge == Full (so same  *)
(* F1/latency) at fewer bytes".                                             *)
THEOREM DeltaEqualsFull == Spec => []DeltaIsFull
<1>1. Inv => DeltaIsFull
  <2> SUFFICES ASSUME Inv, NEW a \in compared, NEW b \in compared,
                      ~lossy, a.kind = "full", b.kind \in {"delta", "O"}
               PROVE  est(a) = est(b) /\ nbytes[b] <= nbytes[a]
    BY DEF DeltaIsFull
  <2>1. last_rep[a] = last_rep[b] /\ missed[a] = {} /\ missed[b] = {}
    BY DEF Inv, Agree, Reveals
  <2>2. \A e \in Monitored : known[a][e] = known[b][e]
    BY <2>1 DEF Inv, Links
  <2>3. est(a) = est(b)
    BY <2>2 DEF est
  <2> QED
    BY <2>3 DEF Inv, CostOrder, Covers
<1> QED
  BY <1>1, InvAlways, PTL

-----------------------------------------------------------------------------
\* Every test of the window is a pooled test of the window's faults.
WindowTests == Consistent(tests, tw)

LEMMA WindowTestsAlways == Spec => []WindowTests
<1>1. Init => WindowTests
  BY DEF Init, WindowTests, Consistent
<1>2. WindowTests /\ [Next]_vars => WindowTests'
  <2> SUFFICES ASSUME WindowTests, [Next]_vars PROVE WindowTests'
    OBVIOUS
  <2>1. CASE Packet
    <3>1. tw' = tw
      BY <2>1 DEF Packet
    <3>2. UNCHANGED tests \/ \E mem, got : PoolReport(mem, got)
      BY <2>1 DEF Packet
    <3>3. ASSUME NEW mem PROVE Consistent(TestsOf(mem), tw)
      BY DEF TestsOf, Consistent
    <3> QED
      BY <3>1, <3>2, <3>3 DEF PoolReport, WindowTests, Consistent
  <2>2. CASE NextWindow
    BY <2>2 DEF NextWindow, WindowTests, Consistent
  <2>3. CASE UNCHANGED vars
    BY <2>3 DEF vars, WindowTests, Consistent
  <2> QED
    BY <2>1, <2>2, <2>3 DEF Next
<1> QED
  BY <1>1, <1>2, PTL DEF Spec

(* PoolINT "has no state history" (m3c1_loss.py and m3d2_scaling.py,        *)
(* run_pool): whatever is lost, whatever failed before and whichever        *)
(* members the tests are cut to, it names only ports that are faulty in the *)
(* window.                                                                  *)
THEOREM PoolNeverStale == Spec => []PoolHasNoHistory
<1>1. WindowTests => PoolHasNoHistory
  <2> SUFFICES ASSUME WindowTests, NEW s \in compared, s.kind \in Pools
               PROVE  est(s) \subseteq tw
    BY DEF PoolHasNoHistory
  <2>1. Definite(tests) \subseteq tw
    BY DefiniteSound DEF WindowTests
  <2>2. Consistent(Cut(tests), tw)
    BY DEF Cut, Consistent
  <2>3. Definite(Cut(tests)) \subseteq tw
    BY <2>2, DefiniteSound
  <2> QED
    BY <2>1, <2>3 DEF est, Pools
<1> QED
  BY <1>1, WindowTestsAlways, PTL

-----------------------------------------------------------------------------
\* The faults of a window are among the monitored ports.
TruthMonitored == tw \subseteq Monitored

LEMMA TruthAlwaysMonitored == Spec => []TruthMonitored
<1>1. Init => TruthMonitored
  BY DEF Init, TruthMonitored
<1>2. TruthMonitored /\ [Next]_vars => TruthMonitored'
  BY DEF TruthMonitored, Next, Packet, NextWindow, vars
<1> QED
  BY <1>1, <1>2, PTL DEF Spec

\* A test without its unmonitored members: still a test if some are left, with
\* the bit it had.
LEMMA CutTest ==
    ASSUME WindowTests, TruthMonitored, NEW t \in tests, t.mem \cap Monitored # {}
    PROVE  [mem |-> t.mem \cap Monitored, y |-> t.y] \in Cut(tests)
<1>1. t.y = Pooled(t.mem \cap Monitored, tw)
  <2>1. (t.mem \cap Monitored) \cap tw = t.mem \cap tw
    BY DEF TruthMonitored
  <2> QED
    BY <2>1 DEF WindowTests, Consistent, Pooled
<1> QED
  BY <1>1 DEF Cut

\* What DD finds in whole rows it finds in rows cut to the monitored ports.
CutNamesAll == Definite(tests) \cap Monitored \subseteq Definite(Cut(tests))

(* m3d2_scaling.py (run_pool) compares the schemes on fewer and fewer       *)
(* monitored ports, and cuts the rows of PoolINT's tests to them before it  *)
(* decodes, where m3c1_loss.py decodes whole rows and cuts the answer:      *)
(* cutting first never costs a name, whatever is lost.                      *)
THEOREM CuttingKeepsNames == Spec => []CutNamesAll
<1>1. WindowTests /\ TruthMonitored => CutNamesAll
  <2> SUFFICES ASSUME WindowTests, TruthMonitored, NEW p \in Definite(tests) \cap Monitored
               PROVE  p \in Definite(Cut(tests))
    BY DEF CutNamesAll
  <2>1. \A c \in Cut(tests) : \E t \in tests : c.mem = t.mem \cap Monitored /\ c.y = t.y
    <3> SUFFICES ASSUME NEW c \in Cut(tests)
                 PROVE  \E t \in tests : c.mem = t.mem \cap Monitored /\ c.y = t.y
      OBVIOUS
    <3>1. PICK t \in tests : c = [mem |-> t.mem \cap Monitored,
                                  y |-> Pooled(t.mem \cap Monitored, tw)]
      BY DEF Cut
    <3>2. (t.mem \cap Monitored) \cap tw = t.mem \cap tw
      BY DEF TruthMonitored
    <3>3. t.y = Pooled(t.mem \cap Monitored, tw)
      BY <3>2 DEF WindowTests, Consistent, Pooled
    <3> QED
      BY <3>1, <3>3
  <2>2. Cleared(Cut(tests)) = Cleared(tests) \cap Monitored
    <3>1. Cleared(Cut(tests)) \subseteq Cleared(tests) \cap Monitored
      BY <2>1 DEF Cleared
    <3>2. ASSUME NEW x \in Cleared(tests) \cap Monitored PROVE x \in Cleared(Cut(tests))
      <4>1. PICK t \in tests : t.y = 0 /\ x \in t.mem
        BY DEF Cleared
      <4>2. [mem |-> t.mem \cap Monitored, y |-> t.y] \in Cut(tests)
        BY <4>1, CutTest
      <4> QED
        BY <4>1, <4>2 DEF Cleared
    <3> QED
      BY <3>1, <3>2
  <2>3. Columns(Cut(tests)) = Columns(tests) \cap Monitored
    <3>1. Columns(Cut(tests)) \subseteq Columns(tests) \cap Monitored
      BY <2>1 DEF Columns
    <3>2. ASSUME NEW x \in Columns(tests) \cap Monitored PROVE x \in Columns(Cut(tests))
      <4>1. PICK t \in tests : x \in t.mem
        BY DEF Columns
      <4>2. [mem |-> t.mem \cap Monitored, y |-> t.y] \in Cut(tests)
        BY <4>1, CutTest
      <4> QED
        BY <4>1, <4>2 DEF Columns
    <3> QED
      BY <3>1, <3>2
  <2>4. Suspects(Cut(tests)) = Suspects(tests) \cap Monitored
    BY <2>2, <2>3 DEF Suspects
  <2>5. PICK t \in tests : t.y = 1 /\ t.mem \cap Suspects(tests) = {p}
    BY DEF Definite
  <2>6. [mem |-> t.mem \cap Monitored, y |-> t.y] \in Cut(tests)
    BY <2>5, CutTest
  <2>7. (t.mem \cap Monitored) \cap Suspects(Cut(tests)) = {p}
    BY <2>4, <2>5
  <2>8. p \in Suspects(Cut(tests))
    BY <2>7
  <2> QED
    BY <2>5, <2>6, <2>7, <2>8 DEF Definite
<1> QED
  BY <1>1, WindowTestsAlways, TruthAlwaysMonitored, PTL
=============================================================================
