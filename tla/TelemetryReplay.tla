--------------------------- MODULE TelemetryReplay ---------------------------
(***************************************************************************)
(* The dynamic-fault comparison of telemetry schemes (control/m3final.py,  *)
(* m3c1_loss.py, m3b3_dynamic.py) and its scaling study over random sets   *)
(* of monitored ports (m3d2_scaling.py): the packets of a capture, cut into*)
(* windows, are replayed under each scheme while faults come and go at     *)
(* window borders and records get lost on their way to the collector.      *)
(*                                                                         *)
(* A scheme is a record [kind, P]:                                         *)
(*   "full"   every packet declares its monitored ports (run_full)         *)
(*   "samp"   some packets do (run_full with s < 1)                        *)
(*   "pint"   a packet declares one port of its path (run_pint)            *)
(*   "delta"  DeltaINT-O of m3b3_dynamic: what differs from what the       *)
(*            COLLECTOR knows; that study loses nothing                    *)
(*   "O"      DeltaINT-O: what differs from what the SWITCH last reported  *)
(*   "every"  DeltaINT-E of m3c1_loss: in every P-th window, all of it     *)
(*   "once"   DeltaINT-E of m3final: in every P-th window, each port once  *)
(*   "pool"   PoolINT: COMP + DD over the window's surviving packets       *)
(*   "cut"    PoolINT of m3d2_scaling: tests cut to the monitored ports    *)
(* A behaviour replays the schemes of one comparison side by side over one *)
(* timeline, each with losses of its own, as the studies run one scheme    *)
(* after the other over one schedule.                                      *)
(***************************************************************************)
EXTENDS Integers, FiniteSets, GroupTest

CONSTANTS
    Port,         \* observable ports
    Monitored,    \* those the schemes report and the scores count
    Path,         \* the sets of ports a packet may cross
    Round,        \* rounds of the hash gate
    Comparisons,  \* the schemes replayed side by side, and whether records get lost
    Windows,      \* W, a bound too: windows of a timeline
    PerWindow,    \* bound: packets of a window
    BASE, REC, POOL, PINT   \* the cost model, in bytes

Kind == {"full", "samp", "pint", "delta", "O", "every", "once", "pool", "cut"}
Pools == {"pool", "cut"}

ASSUME ReplayAssumption ==
    /\ IsFiniteSet(Port) /\ Monitored \subseteq Port
    /\ Path \subseteq SUBSET Port
    /\ Comparisons \subseteq [schemes : SUBSET [kind : Kind, P : Nat \ {0}], lossy : BOOLEAN]
    /\ Windows \in Nat \ {0} /\ PerWindow \in Nat
    /\ BASE \in Nat /\ REC \in Nat /\ POOL \in Nat /\ PINT \in Nat

VARIABLES
    compared,   \* the schemes of this behaviour
    lossy,      \* q > 0
    w,          \* the window
    tw,         \* truth_at(sched, w): the ports that are faulty in it
    n,          \* packets of the window so far
    last_rep,   \* per scheme: the value of each port the switch last reported
    known,      \* per scheme: the value of each port the collector knows
    refreshed,  \* per scheme: ports this window's refresh has declared
    tests,      \* PoolINT: the tests of the window
    nbytes,     \* per scheme: its byte count
    \* history, read by no guard:
    crossed,    \* packets of this window across each port
    declared,   \* per scheme: records of each port sent in this window
    heard,      \* per scheme: ports a record of which arrived in this window
    missed,     \* per scheme: ports whose latest record was lost
    reports     \* report packets sent so far

vars == <<compared, lossy, w, tw, n, last_rep, known, refreshed, tests, nbytes,
          crossed, declared, heard, missed, reports>>

Value == {"none", "on", "off"}      \* dict.get: None, True, False
State(e) == IF e \in tw THEN "on" ELSE "off"

-----------------------------------------------------------------------------
(* What a packet declares *)

is_refresh(s) == s.kind \in {"every", "once"} /\ w % s.P = 0

Reference(s) == IF s.kind = "delta" THEN known[s] ELSE last_rep[s]

\* Mutants: only failures are reported, not recoveries; a port is reported only once.
ChangedOn(s, onM) == {e \in onM : Reference(s)[e] # State(e) /\ e \in tw}
ChangedFirst(s, onM) == {e \in onM : Reference(s)[e] = "none"}
\* The ports on the path whose value is not the one last reported.
Changed(s, onM) == {e \in onM : Reference(s)[e] # State(e)}

\* Mutants: the refresh of a port is not remembered; nothing is ever refreshed.
RefreshAgain(s, onM) == IF is_refresh(s) THEN onM ELSE {}
RefreshNever(s, onM) == {}
\* m3final: a refresh declares each port once, on its first packet; m3c1 each time.
Refresh(s, onM) ==
    IF ~is_refresh(s) THEN {}
    ELSE IF s.kind = "once" THEN onM \ refreshed[s] ELSE onM

\* The record sets scheme s may put on a packet of this path.
Records(s, path) ==
    LET onM == path \cap Monitored
    IN  CASE s.kind = "full" -> {onM}
          [] s.kind = "samp" -> {{}, onM}
          [] s.kind = "pint" -> {{e} \cap Monitored : e \in path}
          [] s.kind \in Pools -> {{}}
          [] OTHER           -> {Refresh(s, onM) \cup Changed(s, onM)}

\* Bytes of a packet with the record set recs; PoolINT's are counted in PoolReport.
Cost(s, recs) ==
    CASE s.kind = "pint" -> PINT
      [] s.kind \in Pools -> 0
      [] OTHER           -> IF recs = {} THEN 0 ELSE BASE + REC * Cardinality(recs)

\* Records that can get lost.
Losable(s, recs) == IF lossy /\ s.kind # "delta" THEN recs ELSE {}

-----------------------------------------------------------------------------
(* The replay of one packet *)

Init ==
    /\ \E c \in Comparisons : compared = c.schemes /\ lossy = c.lossy
    /\ w = 0 /\ n = 0
    /\ tw \in SUBSET Monitored
    /\ last_rep = [s \in compared |-> [e \in Monitored |-> "none"]]
    /\ known = [s \in compared |-> [e \in Monitored |-> "none"]]
    /\ refreshed = [s \in compared |-> {}]
    /\ tests = {}
    /\ nbytes = [s \in compared |-> 0]
    /\ crossed = [e \in Monitored |-> 0]
    /\ declared = [s \in compared |-> [e \in Monitored |-> 0]]
    /\ heard = [s \in compared |-> {}]
    /\ missed = [s \in compared |-> {}]
    /\ reports = 0

Count(f, recs) == [e \in Monitored |-> IF e \in recs THEN f[e] + 1 ELSE f[e]]
\* The values the records of recs carry, over f.
Learn(f, recs) == [e \in Monitored |-> IF e \in recs THEN State(e) ELSE f[e]]

\* Mutant: the switch keeps its value until the collector has it.
ReportedOnArrival(recs, gone) == [s \in compared |-> Learn(last_rep[s], recs[s] \ gone[s])]
\* last_rep after the packet: the switch notes what it sent, lost or not.
Reported(recs, gone) == [s \in compared |-> Learn(last_rep[s], recs[s])]

\* known after the packet: the values of the records that arrive.
Learned(recs, gone) == [s \in compared |-> Learn(known[s], recs[s] \ gone[s])]

\* The reveal schemes on one packet: recs are its records, gone those lost.
RevealReport(recs, gone) ==
    /\ last_rep' = Reported(recs, gone)
    /\ known' = Learned(recs, gone)
    /\ refreshed' = [s \in compared |->
                       IF is_refresh(s) /\ s.kind = "once" THEN refreshed[s] \cup recs[s]
                                                           ELSE refreshed[s]]
    /\ declared' = [s \in compared |-> Count(declared[s], recs[s])]
    /\ heard' = [s \in compared |-> heard[s] \cup (recs[s] \ gone[s])]
    /\ missed' = [s \in compared |-> (missed[s] \ recs[s]) \cup gone[s]]

\* The tests of a packet: its gate members in each round, with the pooled bit.
TestsOf(mem) == {[mem |-> mem[r], y |-> Pooled(mem[r], tw)] : r \in {q \in Round : mem[q] # {}}}

\* run_pool: a lost packet leaves no test, and its bytes are not counted.
PoolSent(s, got) == IF s.kind \in Pools /\ got THEN POOL ELSE 0
PoolReport(mem, got) == tests' = IF got THEN tests \cup TestsOf(mem) ELSE tests

\* One packet of the window under all compared schemes.
Packet ==
    /\ n < PerWindow
    /\ \E path \in Path :
       \E recs \in [compared -> SUBSET (path \cap Monitored)],
          gone \in [compared -> SUBSET (path \cap Monitored)] :
          /\ \A s \in compared :
                recs[s] \in Records(s, path) /\ gone[s] \subseteq Losable(s, recs[s])
          /\ RevealReport(recs, gone)
          /\ \E got \in IF lossy THEN BOOLEAN ELSE {TRUE} :
                /\ IF \E s \in compared : s.kind \in Pools
                     THEN \E mem \in [Round -> SUBSET path] : PoolReport(mem, got)
                     ELSE got /\ UNCHANGED tests
                /\ nbytes' = [s \in compared |-> nbytes[s] + Cost(s, recs[s]) + PoolSent(s, got)]
          /\ crossed' = Count(crossed, path)
    /\ n' = n + 1
    /\ reports' = reports + 1
    /\ UNCHANGED <<compared, lossy, w, tw>>

\* Mutant: the tests of the window before are decoded with the next one's.
NextWindowKeeps ==
    /\ w + 1 < Windows
    /\ w' = w + 1 /\ n' = 0
    /\ tw' \in SUBSET Monitored
    /\ refreshed' = [s \in compared |-> {}]
    /\ crossed' = [e \in Monitored |-> 0]
    /\ declared' = [s \in compared |-> [e \in Monitored |-> 0]]
    /\ heard' = [s \in compared |-> {}]
    /\ UNCHANGED <<compared, lossy, last_rep, known, nbytes, missed, reports, tests>>

\* The next window: any ports may have failed or recovered.
NextWindow ==
    /\ w + 1 < Windows
    /\ w' = w + 1 /\ n' = 0
    /\ tw' \in SUBSET Monitored
    /\ refreshed' = [s \in compared |-> {}]
    /\ tests' = {}
    /\ crossed' = [e \in Monitored |-> 0]
    /\ declared' = [s \in compared |-> [e \in Monitored |-> 0]]
    /\ heard' = [s \in compared |-> {}]
    /\ UNCHANGED <<compared, lossy, last_rep, known, nbytes, missed, reports>>

Next == Packet \/ NextWindow

Spec == Init /\ [][Next]_vars

-----------------------------------------------------------------------------
(* Properties *)

\* m3d2_scaling's run_pool: the members of a test that are monitored, if any,
\* pooled again.
Cut(T) == {[mem |-> m, y |-> Pooled(m, tw)] : m \in {t.mem \cap Monitored : t \in T} \ {{}}}

\* What the collector names: est of each scheme at this point of the window.
est(s) ==
    CASE s.kind = "pool" -> Definite(tests) \cap Monitored
      [] s.kind = "cut"  -> Definite(Cut(tests)) \cap Monitored
      [] OTHER           -> {e \in Monitored : known[s][e] = "on"}

Reveals == {"full", "delta", "O", "every", "once"}

\* After a packet has crossed a port (a packet that declared it, where the
\* scheme samples or picks), the collector is wrong about it only if the latest
\* record of that port was lost: no order of changes, windows and refreshes
\* makes a switch believe it has reported what it has not.
StaleNeedsLoss ==
    \A s \in compared, e \in Monitored :
        /\ IF s.kind \in Reveals THEN crossed[e] > 0 ELSE declared[s][e] > 0
        /\ known[s][e] # State(e)
        => e \in missed[s]

\* Where nothing is lost, DeltaINT-O of both studies names exactly what
\* Full-INT names, at every moment, and never costs more.
DeltaIsFull ==
    \A a, b \in compared :
        ~lossy /\ a.kind = "full" /\ b.kind \in {"delta", "O"}
            => est(a) = est(b) /\ nbytes[b] <= nbytes[a]

\* DeltaINT-E of m3final: in a refresh window a port is declared once if it is
\* crossed at all, whether or not it changed; in other windows, and under
\* DeltaINT-O, at most once - the refresh and the change report never both
\* charge for it.
DeclaredOnce ==
    \A s \in compared, e \in Monitored :
        /\ s.kind \in {"O", "once"} => declared[s][e] <= 1
        /\ s.kind = "once" /\ is_refresh(s) /\ crossed[e] > 0 => declared[s][e] = 1

\* DeltaINT-E of m3c1: a refresh heals a stale port unless every report that
\* crossed it in the window was lost.
RefreshHeals ==
    \A s \in compared, e \in Monitored :
        s.kind = "every" /\ is_refresh(s) /\ crossed[e] > 0 /\ known[s][e] # State(e)
            => e \notin heard[s] /\ declared[s][e] = crossed[e]

\* Which scheme declares everything another one does, packet by packet.
Covers(a, b) ==
    \/ a.kind = "full" /\ b.kind \in {"samp", "delta", "O", "every", "once"}
    \/ a.kind = "every" /\ b.kind \in {"every", "once"} /\ b.P % a.P = 0
    \/ a.kind = "once" /\ b.kind = "once" /\ b.P % a.P = 0
    \/ a.kind \in {"every", "once"} /\ b.kind = "O"

\* The cost order board_study's choice of a period rests on: refreshing less
\* often, or once per window, never costs more - whatever either scheme loses.
CostOrder == \A a, b \in compared : Covers(a, b) => nbytes[b] <= nbytes[a]

\* PoolINT names only ports that are faulty in the window, whatever is lost and
\* whatever was faulty before: it has no state that could go stale.
PoolHasNoHistory == \A s \in compared : s.kind \in Pools => est(s) \subseteq tw

\* "cumulative TRANSMITTED bytes" (m3c1_loss.py): a report packet is paid for
\* when it is sent.
TransmittedBytes == \A s \in compared : s.kind \in Pools => nbytes[s] = POOL * reports
=============================================================================
