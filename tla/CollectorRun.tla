---------------------------- MODULE CollectorRun ----------------------------
(***************************************************************************)
(* Sessions of scripts/poolint_runner.py on one results directory, and the *)
(* collector process (collector/poolint_collector.py, main) each spawns.   *)
(* The collector keeps its packets in memory and leaves one JSON summary   *)
(* at the end; the runner removes the summary of the label first, waits,   *)
(* kills what is late, and returns whatever summary it then finds.  As in  *)
(* CaptureRun a kill may end only the shell: such an orphan lives on into  *)
(* the next session of the same label.                                     *)
(***************************************************************************)
EXTENDS Integers, Sequences, FiniteSets

CONSTANTS
    NumSessions,    \* bound: sessions run one after the other
    Drops,          \* TRUE: --drop-frac > 0
    MaxPackets      \* bound: reports a collector sniffs (--count)

SessionAssumption ==
    /\ NumSessions \in Nat
    /\ Drops \in BOOLEAN /\ MaxPackets \in Nat

VARIABLES
    session,    \* the current session
    pc,         \* where run_flows_and_capture is
    fault,      \* the targets are faulty
    flows,      \* the iperf clients are sending
    coll,       \* each session's collector: state, packets, outlived its kill or not
    json,       \* <label>.json on disk
    returned    \* the summary the session returned

vars == <<session, pc, fault, flows, coll, json, returned>>

Session == 1..NumSessions

\* A summary: the session that wrote it (0: none), its packets, and whether
\* all of it is on disk.
NoJson   == [by |-> 0, packets |-> 0, whole |-> TRUE]
Finished == {"ended", "crashed", "killed"}

Init ==
    /\ session = 0 /\ pc = "idle" /\ fault = FALSE /\ flows = FALSE
    /\ coll = [s \in Session |-> [st |-> "none", pkts |-> <<>>, orphan |-> FALSE]]
    /\ json = NoJson /\ returned = NoJson

(* The runner *)

\* main and scen_*: the network is up and the targets are faulty.
Begin ==
    /\ pc = "idle" /\ session + 1 \in Session
    /\ session' = session + 1
    /\ fault' = TRUE
    /\ pc' = "remove" /\ returned' = NoJson
    /\ UNCHANGED <<flows, coll, json>>

\* Mutant: the old summary stays.
RemoveNothing ==
    pc = "remove" /\ pc' = "start" /\ UNCHANGED <<session, fault, flows, coll, json, returned>>
RemoveStale ==
    /\ pc = "remove"
    /\ json' = NoJson
    /\ pc' = "start"
    /\ UNCHANGED <<session, fault, flows, coll, returned>>

StartCollector ==
    /\ pc = "start"
    /\ coll' = [coll EXCEPT ![session].st = "sniffing"]
    /\ pc' = "flows"
    /\ UNCHANGED <<session, fault, flows, json, returned>>

LaunchFlows ==
    /\ pc = "flows"
    /\ flows' = TRUE
    /\ pc' = "wait"
    /\ UNCHANGED <<session, fault, coll, json, returned>>

\* Mutant: the runner does not wait.
WaitNot ==
    /\ pc = "wait"
    /\ pc' = "read"
    /\ UNCHANGED <<session, fault, flows, coll, json, returned>>
WaitReturns ==
    /\ pc = "wait" /\ coll[session].st \in Finished
    /\ pc' = "read"
    /\ UNCHANGED <<session, fault, flows, coll, json, returned>>

\* Mutant: the wait has no timeout.
TimeoutNever == FALSE /\ UNCHANGED vars
WaitTimeout ==
    /\ pc = "wait" /\ coll[session].st \notin Finished
    /\ \/ coll' = [coll EXCEPT ![session].st = "killed"]
       \/ coll' = [coll EXCEPT ![session].orphan = TRUE]
    /\ pc' = "read"
    /\ UNCHANGED <<session, fault, flows, json, returned>>

\* A summary cut short is no JSON: the exception skips clear_fail.
Read ==
    /\ pc = "read"
    /\ IF json.whole THEN returned' = json /\ pc' = "clear"
                     ELSE pc' = "stop" /\ UNCHANGED returned
    /\ UNCHANGED <<session, fault, flows, coll, json>>

Clear ==
    /\ pc = "clear"
    /\ fault' = FALSE
    /\ pc' = "stop"
    /\ UNCHANGED <<session, flows, coll, json, returned>>

\* finally: net.stop takes the switches with it.
NetStop ==
    /\ pc = "stop"
    /\ fault' = FALSE /\ flows' = FALSE
    /\ pc' = "idle"
    /\ UNCHANGED <<session, coll, json, returned>>

(* The collector of session s *)

\* Only its own session's interface carries packets to it.
Sniff(s) ==
    /\ coll[s].st = "sniffing" /\ s = session /\ flows
    /\ Len(coll[s].pkts) < MaxPackets
    /\ coll' = [coll EXCEPT ![s].pkts = Append(@, fault)]
    /\ UNCHANGED <<session, pc, fault, flows, json, returned>>

\* sniff() returns; --drop-frac discards some packets; without packets the
\* summary is written at once, else gate #0 reads p["dbg_spine"], a field
\* parse_pool does not return: a KeyError.
SniffEnds(s) ==
    /\ coll[s].st = "sniffing"
    /\ \E n \in 0..Len(coll[s].pkts) :
          /\ n < Len(coll[s].pkts) => Drops
          /\ coll' = [coll EXCEPT ![s].st = IF n = 0 THEN "writing" ELSE "crashed"]
          /\ json' = IF n = 0
                     THEN [by |-> s, packets |-> Len(coll[s].pkts), whole |-> FALSE]
                     ELSE json
    /\ UNCHANGED <<session, pc, fault, flows, returned>>

Written(s) ==
    /\ coll[s].st = "writing"
    /\ coll' = [coll EXCEPT ![s].st = "ended"]
    /\ json' = [by |-> s, packets |-> Len(coll[s].pkts), whole |-> TRUE]
    /\ UNCHANGED <<session, pc, fault, flows, returned>>

FlowsEnd == flows /\ flows' = FALSE /\ UNCHANGED <<session, pc, fault, coll, json, returned>>

Runner ==
    \/ Begin \/ RemoveStale \/ StartCollector \/ LaunchFlows
    \/ WaitReturns \/ WaitTimeout \/ Read \/ Clear \/ NetStop
Next ==
    \/ Runner \/ FlowsEnd
    \/ \E s \in Session : Sniff(s) \/ SniffEnds(s) \/ Written(s)

Spec == Init /\ [][Next]_vars

\* The runner keeps running; nothing is assumed of the collectors.
LiveSpec == Spec /\ WF_vars(Runner)
-----------------------------------------------------------------------------
(* Properties *)

NoOrphan == \A s \in Session : ~ coll[s].orphan

(* The summary a session returns was whole when read, and as long as every  *)
(* kill reached its collector it is the session's own or none, whatever was *)
(* left on disk, however the wait ended, and although a killed collector    *)
(* may leave half a summary (poolint_runner.py:144-180).                    *)
ReturnedIsOwn ==
    /\ returned.whole
    /\ NoOrphan => returned.by \in {0, session}

(* Every report was taken while the targets were faulty, from the first     *)
(* flow on: the clear never overtakes the capture, although the traffic may *)
(* outlast it (poolint_runner.py:198-204).  Only an orphan may still sniff  *)
(* what is sent after the clear.                                            *)
TakenUnderFault ==
    NoOrphan => \A s \in Session : \A k \in DOMAIN coll[s].pkts : coll[s].pkts[k]

(* All sessions end, whatever their collectors do.                          *)
SessionsEnd == <>(session = NumSessions /\ pc = "idle")

(* A collector that ran to its end with reports in hand left a summary of   *)
(* them: "Everything quantitative is written to --json-out"                 *)
(* (poolint_collector.py:20-21).                                            *)
ResultIsWritten ==
    \A s \in Session :
        /\ coll[s].st \in {"ended", "crashed"} /\ coll[s].pkts # <<>>
        /\ session = s
        => json.by = s
=============================================================================
