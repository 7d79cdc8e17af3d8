------------------------------- MODULE NetRun -------------------------------
(***************************************************************************)
(* Sessions of scripts/net_runner.py: the switches are started one by one  *)
(* and polled (topo/p4_switch.py), populated, and then a scenario's phases *)
(* are run: a capture of the healthy network, one under a netem delay, one *)
(* under a throttled queue.  poolint_runner brings its network up and down *)
(* the same way.                                                           *)
(*                                                                         *)
(* net.start() and populate come before the try block, so a switch that    *)
(* does not come up (exit(1)) leaves the ones before it running: strays,   *)
(* which hold their thrift ports when the next session starts.             *)
(*                                                                         *)
(* The link that gets the delay is a TCLink: its own bandwidth and delay   *)
(* are a root qdisc as well, which "tc qdisc replace ... root" removes.    *)
(***************************************************************************)
EXTENDS Integers, Sequences, FiniteSets

CONSTANTS
    NumSwitches,
    Scenario,       \* the scenarios sessions may run
    MaxPolls,       \* 40 in the code: SWITCH_START_TIMEOUT * 4
    MaxSessions     \* bound: sessions one after the other

ASSUME SizesAssumption ==
    /\ {NumSwitches, MaxPolls, MaxSessions} \subseteq Nat \ {0}
    /\ Scenario \subseteq {"demo", "baseline", "delay", "queue", "cli"}

VARIABLES
    sess,       \* the current session
    scen,       \* its scenario
    at,         \* where main is
    sw,         \* the switch it starts, populates or stops
    polls,      \* turns of check_switch_started
    proc,       \* each switch's own process
    stray,      \* switches whose thrift port a process of an earlier session holds
    tables,     \* whose tables populate wrote: "own", "stray", or "none"
    todo,       \* labels of the captures still to run
    env,        \* what the network adds to a packet
    sending,    \* send.py or iperf is running
    sniffer,    \* the collector of the phase: its state and what it captured
    orphans,    \* collectors that have survived their kill
    out,        \* <label>.json on disk
    path,       \* the baseline's summary has a path
    aborted,    \* history: a bring-up has failed
    survived    \* history: a collector has survived its kill

vars == <<sess, scen, at, sw, polls, proc, stray, tables, todo, env, sending, sniffer, orphans,
          out, path, aborted, survived>>

Sw    == 1..NumSwitches
Label == {"baseline", "delay_after", "queue_after"}
Proc  == {"none", "starting", "serving", "dead"}

Phases(s) == CASE s = "demo"     -> <<"baseline", "delay_after", "queue_after">>
               [] s = "baseline" -> <<"baseline">>
               [] s = "delay"    -> <<"baseline", "delay_after">>
               [] s = "queue"    -> <<"baseline", "queue_after">>
               [] s = "cli"      -> <<>>

Healthy == [delayed |-> FALSE, throttled |-> FALSE, shaped |-> TRUE]
NoFile  == [by |-> 0, whole |-> TRUE, got |-> {}]
NoSniffer == [st |-> "none", got |-> {}]

Init ==
    /\ sess = 0 /\ scen = "none" /\ at = "idle" /\ sw = 1 /\ polls = 0
    /\ proc = [s \in Sw |-> "none"] /\ stray = {} /\ tables = [s \in Sw |-> "none"]
    /\ todo = <<>> /\ env = Healthy /\ sending = FALSE
    /\ sniffer = NoSniffer /\ out = [l \in Label |-> NoFile]
    /\ path = FALSE /\ aborted = FALSE /\ orphans = {} /\ survived = FALSE

switches == <<proc, stray, tables, aborted>>
strays   == <<orphans, survived>>
capture  == <<sending, sniffer, out, path, strays>>
session  == <<sess, scen>>

-----------------------------------------------------------------------------
(* Bring-up *)

\* A new Mininet: new links, new processes.
Begin ==
    /\ at = "idle" /\ sess < MaxSessions
    /\ sess' = sess + 1 /\ scen' \in Scenario
    /\ todo' = Phases(scen') /\ env' = Healthy
    /\ at' = "start" /\ sw' = 1 /\ tables' = [s \in Sw |-> "none"] /\ path' = FALSE
    /\ UNCHANGED <<polls, proc, stray, aborted, sending, sniffer, out, strays>>

StartSwitch ==
    /\ at = "start"
    /\ proc' = [proc EXCEPT ![sw] = "starting"]
    /\ at' = "poll"
    /\ UNCHANGED <<session, sw, polls, stray, tables, aborted, todo, env, capture>>

\* ss lists the port, whichever process holds it.
Listening(s) == proc[s] = "serving" \/ s \in stray

NextSwitch(this, then) ==
    IF sw = NumSwitches THEN at' = then /\ sw' = 1 ELSE at' = this /\ sw' = sw + 1

\* /proc/<pid> is there for a dead process too: nobody has waited for the child.
InProc(s) == proc[s] # "none"

\* Mutant: a process that is still starting counts as started.
PollOptimist ==
    /\ at = "poll" /\ InProc(sw)
    /\ NextSwitch("start", "populate")
    /\ polls' = 0
    /\ UNCHANGED <<session, switches, todo, env, capture>>
PollReady ==
    /\ at = "poll" /\ InProc(sw) /\ Listening(sw)
    /\ NextSwitch("start", "populate")
    /\ polls' = 0
    /\ UNCHANGED <<session, switches, todo, env, capture>>

\* Mutant: the turns are not counted.
PollForever ==
    /\ at = "poll" /\ InProc(sw) /\ ~ Listening(sw)
    /\ UNCHANGED <<session, at, sw, switches, todo, env, capture, polls>>
PollAgain ==
    /\ at = "poll" /\ InProc(sw) /\ ~ Listening(sw) /\ polls < MaxPolls
    /\ polls' = polls + 1
    /\ UNCHANGED <<session, at, sw, switches, todo, env, capture>>

\* exit(1) outside the try block.  What was starting may yet come up.
StartFails ==
    /\ at = "poll"
    /\ ~ InProc(sw) \/ polls = MaxPolls
    /\ \E late \in SUBSET {s \in Sw : proc[s] = "starting"} :
          stray' = stray \cup late \cup {s \in Sw : proc[s] = "serving"}
    /\ proc' = [s \in Sw |-> "none"]
    /\ aborted' = TRUE /\ at' = "idle" /\ polls' = 0
    /\ UNCHANGED <<session, sw, tables, todo, env, capture>>

\* simple_switch_CLI: its failure is only printed.
Populate ==
    /\ at = "populate"
    /\ tables' = [tables EXCEPT ![sw] = CASE proc[sw] = "serving" -> "own"
                                          [] sw \in stray         -> "stray"
                                          [] OTHER                -> "none"]
    /\ NextSwitch("populate", "phase")
    /\ UNCHANGED <<session, polls, proc, stray, aborted, todo, env, capture>>

\* A port that is taken cannot be served; any process may die.
ProcessServes(s) ==
    /\ proc[s] = "starting" /\ s \notin stray
    /\ proc' = [proc EXCEPT ![s] = "serving"]
    /\ UNCHANGED <<session, at, sw, polls, stray, tables, aborted, todo, env, capture>>
ProcessDies(s) ==
    /\ proc[s] \in {"starting", "serving"} /\ at # "stop"
    /\ proc' = [proc EXCEPT ![s] = "dead"]
    /\ UNCHANGED <<session, at, sw, polls, stray, tables, aborted, todo, env, capture>>

-----------------------------------------------------------------------------
(* The phases of the try block *)

Now == Head(todo)

\* The anomaly of the phase, then the label's old summary is removed.
Prepare ==
    /\ at = "phase" /\ todo # <<>>
    /\ Now = "delay_after" => path
    /\ env' = CASE Now = "baseline"    -> env
                [] Now = "delay_after" -> [env EXCEPT !.delayed = TRUE, !.shaped = FALSE]
                [] Now = "queue_after" -> [env EXCEPT !.throttled = TRUE]
    /\ out' = [out EXCEPT ![Now] = NoFile]
    /\ sniffer' = [st |-> "sniffing", got |-> {}]
    /\ sending' = TRUE /\ at' = "wait"
    /\ UNCHANGED <<session, sw, polls, switches, todo, path, strays>>

\* onpath_delay_intf finds nothing: the phase is skipped.
SkipDelay ==
    /\ at = "phase" /\ todo # <<>> /\ Now = "delay_after" /\ ~ path
    /\ todo' = Tail(todo)
    /\ UNCHANGED <<session, at, sw, polls, switches, env, capture>>

\* src.cmd returns when the sender has sent everything.
SendEnds ==
    /\ sending /\ sending' = FALSE
    /\ UNCHANGED <<session, at, sw, polls, switches, todo, env, sniffer, out, path, strays>>

\* The wait returns or times out; a kill may end only the shell.
WaitEnds ==
    /\ at = "wait" /\ ~ sending
    /\ \/ sniffer.st = "ended" /\ UNCHANGED <<sniffer, strays>>
       \/ /\ sniffer.st # "ended"
          /\ sniffer' = [sniffer EXCEPT !.st = "killed"]
          /\ \/ UNCHANGED strays
             \/ /\ ~ survived   \* bound: one orphan
                /\ orphans' = orphans \cup {[label |-> Now, by |-> sess, got |-> sniffer.got]}
                /\ survived' = TRUE
    /\ at' = "read"
    /\ UNCHANGED <<session, sw, polls, switches, todo, env, sending, out, path>>

\* What the phase injected is taken back: the delay with it the link's own shape.
\* Mutant: the delay stays.
RestoredButDelay(l) == IF l = "queue_after" THEN [env EXCEPT !.throttled = FALSE] ELSE env
Restored(l) == CASE l = "baseline"    -> env
                 [] l = "delay_after" -> [env EXCEPT !.delayed = FALSE]
                 [] l = "queue_after" -> [env EXCEPT !.throttled = FALSE]

\* Half a summary raises: the finally clause is next.
Read ==
    /\ at = "read"
    /\ IF out[Now].whole
       THEN /\ env' = Restored(Now) /\ todo' = Tail(todo) /\ at' = "phase"
            /\ path' = IF Now = "baseline" THEN out[Now].got # {} ELSE path
       ELSE at' = "stop" /\ UNCHANGED <<env, todo, path>>
    /\ sniffer' = NoSniffer
    /\ UNCHANGED <<session, sw, polls, switches, sending, out, strays>>

PhasesDone ==
    /\ at = "phase" /\ todo = <<>>
    /\ at' = "stop"
    /\ UNCHANGED <<session, sw, polls, switches, todo, env, capture>>

\* Mutant: the loop ends before the last switch.
StopButLast ==
    /\ at = "stop"
    /\ proc' = [proc EXCEPT ![sw] = IF sw < NumSwitches THEN "none" ELSE @]
    /\ NextSwitch("stop", "idle")
    /\ UNCHANGED <<session, polls, stray, tables, aborted, todo, env, capture>>
\* net.stop: terminate, and wait for the process.
StopSwitch ==
    /\ at = "stop"
    /\ proc' = [proc EXCEPT ![sw] = "none"] /\ tables' = [tables EXCEPT ![sw] = "none"]
    /\ NextSwitch("stop", "idle")
    /\ UNCHANGED <<session, polls, stray, aborted, todo, env, capture>>

-----------------------------------------------------------------------------
(* The collector of a label *)

\* A frame has crossed every switch of its route, with INT from populated ones.
Carried == sending /\ \A s \in Sw : proc[s] = "serving" /\ tables[s] = "own"

Sniff ==
    /\ sniffer.st = "sniffing" /\ Carried
    /\ sniffer' = [sniffer EXCEPT !.got = @ \cup {env}]
    /\ UNCHANGED <<session, at, sw, polls, switches, todo, env, sending, out, path, strays>>

\* sniff returns; the summary is written, and may be cut short by a kill.
WriteSummary ==
    /\ sniffer.st = "sniffing"
    /\ sniffer' = [sniffer EXCEPT !.st = "writing"]
    /\ out' = [out EXCEPT ![Now] = [by |-> sess, whole |-> FALSE, got |-> sniffer.got]]
    /\ UNCHANGED <<session, at, sw, polls, switches, todo, env, sending, path, strays>>
SummaryWritten ==
    /\ sniffer.st = "writing"
    /\ sniffer' = [sniffer EXCEPT !.st = "ended"]
    /\ out' = [out EXCEPT ![Now].whole = TRUE]
    /\ UNCHANGED <<session, at, sw, polls, switches, todo, env, sending, path, strays>>

\* It ends without a summary.
SnifferDies ==
    /\ sniffer.st = "sniffing"
    /\ sniffer' = [sniffer EXCEPT !.st = "ended"]
    /\ UNCHANGED <<session, at, sw, polls, switches, todo, env, sending, out, path, strays>>

\* An orphan sniffs while its own session's interface lasts, and writes its label's file.
OrphanSniffs(o) ==
    /\ o.by = sess /\ Carried
    /\ orphans' = (orphans \ {o}) \cup {[o EXCEPT !.got = @ \cup {env}]}
    /\ UNCHANGED <<session, at, sw, polls, switches, todo, env, sending, sniffer, out, path,
                   survived>>
OrphanWrites(o) ==
    /\ orphans' = orphans \ {o}
    /\ out' = [out EXCEPT ![o.label] = [by |-> o.by, whole |-> TRUE, got |-> o.got]]
    /\ UNCHANGED <<session, at, sw, polls, switches, todo, env, sending, sniffer, path, survived>>

-----------------------------------------------------------------------------
Runner ==
    \/ Begin \/ StartSwitch \/ PollReady \/ PollAgain \/ StartFails \/ Populate
    \/ Prepare \/ SkipDelay \/ WaitEnds \/ Read \/ PhasesDone \/ StopSwitch
Next ==
    \/ Runner \/ SendEnds
    \/ \E s \in Sw : ProcessServes(s) \/ ProcessDies(s)
    \/ Sniff \/ WriteSummary \/ SummaryWritten \/ SnifferDies
    \/ \E o \in orphans : OrphanSniffs(o) \/ OrphanWrites(o)

Spec == Init /\ [][Next]_vars

\* The runner keeps running, a sender stops after its count or its seconds, and
\* a terminated switch exits; nothing is assumed of collectors and start-up.
LiveSpec == Spec /\ WF_vars(Runner) /\ WF_vars(SendEnds)
-----------------------------------------------------------------------------
(* Properties *)

(* A summary's reports were all sent through one network: with the delay in *)
(* delay_after, the throttle in queue_after, neither in the baseline they   *)
(* are compared with - whatever sessions and scenarios came before, and     *)
(* although phases are skipped, summaries cut short and switches die.  And  *)
(* main never reads another session's summary (net_runner.py:229-261) -     *)
(* all this unless a collector survives its kill.                           *)
SummaryOfPhase ==
    ~ survived =>
        /\ \A l \in Label : out[l].whole =>
              /\ Cardinality(out[l].got) <= 1
              /\ \A e \in out[l].got : /\ e.delayed = (l = "delay_after")
                                      /\ e.throttled = (l = "queue_after")
        /\ at = "read" => out[Now].by \in {0, sess}

(* A session that gets past its bring-up leaves no switch running, whatever *)
(* ended its phases: a process that outlives its session is one of a        *)
(* bring-up that failed (net_runner.py:218-224, 262-263).                   *)
NothingLeft ==
    /\ at = "idle" => \A s \in Sw : proc[s] = "none"
    /\ stray # {} => aborted

(* Where no stray holds a port, "thrift ready" says that the switch's own   *)
(* process has served it, and populate writes no other process's tables     *)
(* (p4_switch.py:68-101, net_runner.py:58-68).                              *)
ReadyIsServing ==
    at \in {"populate", "phase", "wait", "read"} =>
        \A s \in Sw \ stray : proc[s] \in {"serving", "dead"} /\ tables[s] # "stray"

(* Every session ends: a switch that never serves its port is given up, and *)
(* no collector holds the runner (p4_switch.py:70, net_runner.py:108-111).  *)
SessionsEnd == <>(sess = MaxSessions /\ at = "idle")
=============================================================================
