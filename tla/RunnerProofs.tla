---------------------------- MODULE RunnerProofs ----------------------------
(***************************************************************************)
(* What sessions of net_runner and of poolint_runner keep to, for every    *)
(* number of switches, polls, sessions and packets, whichever processes    *)
(* fail.                                                                   *)
(***************************************************************************)
EXTENDS MCRunners, FiniteSetTheorems, TLAPS

At      == {"idle", "start", "poll", "populate", "phase", "wait", "read", "stop"}
Env     == [delayed : BOOLEAN, throttled : BOOLEAN, shaped : BOOLEAN]
Summary == [by : Nat, whole : BOOLEAN, got : SUBSET Env]
Orphan  == [label : Label, by : Nat, got : SUBSET Env]
Sniffer == [st : {"none", "sniffing", "writing", "ended", "killed"}, got : SUBSET Env]

Types ==
    /\ at \in At /\ sw \in Sw /\ sess \in Nat
    /\ proc \in [Sw -> Proc] /\ stray \subseteq Sw
    /\ tables \in [Sw -> {"none", "own", "stray"}]
    /\ todo \in Seq(Label) /\ env \in Env
    /\ sniffer \in Sniffer
    /\ out \in [Label -> Summary]
    /\ orphans \subseteq Orphan

\* What has been started has been served, unless a stray answers for it; what
\* has been stopped is gone.
Switches ==
    /\ at \in {"phase", "wait", "read"} => sw = 1
    /\ at = "idle" => \A s \in Sw : proc[s] = "none"
    /\ at = "stop" => \A s \in Sw : s < sw => proc[s] = "none"
    /\ at \in {"start", "poll"} =>
          \A s \in Sw : s < sw /\ s \notin stray => proc[s] \in {"serving", "dead"}
    /\ at \in {"populate", "phase", "wait", "read"} =>
          \A s \in Sw : s \notin stray => proc[s] \in {"serving", "dead"}
    /\ \A s \in Sw : s \notin stray => tables[s] # "stray"
    /\ stray # {} => aborted

\* The network is that of the phase, and the phase's collector has seen no other.
Phase ==
    /\ at \in {"start", "poll", "populate", "phase"} => ~ env.delayed /\ ~ env.throttled
    /\ at \in {"wait", "read"} =>
          /\ todo # <<>>
          /\ env.delayed = (Now = "delay_after") /\ env.throttled = (Now = "queue_after")
          /\ sniffer.got \subseteq {env}
    /\ sniffer.st \in {"sniffing", "writing"} => at = "wait"

Of(l, got) ==
    /\ \E e \in Env : got \subseteq {e}
    /\ \A e \in got : /\ e.delayed = (l = "delay_after")
                      /\ e.throttled = (l = "queue_after")

Files ==
    ~ survived =>
        /\ orphans = {}
        /\ \A l \in Label : Of(l, out[l].got)
        /\ at \in {"wait", "read"} => out[Now].by \in {0, sess}

NInv == Types /\ Switches /\ Phase /\ Files

LEMMA InitNInv == Init => NInv
<1> SUFFICES ASSUME Init PROVE NInv
    OBVIOUS
<1>1. Types
    <2>1. 1 \in Sw
        BY SizesAssumption DEF Sw
    <2>2. Healthy \in Env /\ NoFile \in Summary
        BY DEF Healthy, Env, NoFile, Summary
    <2>3. NoSniffer \in Sniffer
        BY DEF NoSniffer, Sniffer
    <2> QED BY <2>1, <2>2, <2>3 DEF Init, Types, At, Proc
<1>2. Switches
    BY DEF Init, Switches
<1>3. Phase
    BY DEF Init, Phase, NoSniffer
<1>4. Files
    <2>1. Healthy \in Env
        BY DEF Healthy, Env
    <2> QED BY <2>1 DEF Init, Files, Of, NoFile
<1> QED BY <1>1, <1>2, <1>3, <1>4 DEF NInv

-----------------------------------------------------------------------------
(* Types *)

LEMMA StepSwitch ==
    ASSUME sw \in Sw, NEW this, NEW then, NextSwitch(this, then)
    PROVE  /\ sw' \in Sw /\ at' \in {this, then}
           /\ at' = then /\ this # then => sw = NumSwitches /\ sw' = 1
           /\ at' = this /\ this # then => sw < NumSwitches /\ sw' = sw + 1
  BY SizesAssumption DEF Sw, NextSwitch

LEMMA PhasesType ==
    ASSUME NEW s \in Scenario
    PROVE  Phases(s) \in Seq(Label)
<1>1. s \in {"demo", "baseline", "delay", "queue", "cli"}
    BY SizesAssumption
<1>2. /\ <<"baseline", "delay_after", "queue_after">> \in Seq(Label)
      /\ <<"baseline">> \in Seq(Label) /\ <<>> \in Seq(Label)
      /\ <<"baseline", "delay_after">> \in Seq(Label)
      /\ <<"baseline", "queue_after">> \in Seq(Label)
    BY DEF Label
<1> QED BY <1>1, <1>2 DEF Phases

LEMMA NowType ==
    ASSUME todo \in Seq(Label), todo # <<>>
    PROVE  Now \in Label /\ Tail(todo) \in Seq(Label)
  BY DEF Now

LEMMA NextTypes == NInv /\ [Next]_vars => Types'
<1> SUFFICES ASSUME NInv, [Next]_vars PROVE Types'
    OBVIOUS
<1> USE DEF NInv
<1>1. CASE Begin
    <2>1. 1 \in Sw /\ sess + 1 \in Nat
        BY SizesAssumption DEF Sw, Types
    <2>2. Healthy \in Env
        BY DEF Healthy, Env
    <2>3. todo' \in Seq(Label)
        BY <1>1, PhasesType DEF Begin
    <2> QED BY <1>1, <2>1, <2>2, <2>3 DEF Begin, Types, At, strays
<1>2. CASE StartSwitch
    BY <1>2 DEF StartSwitch, Types, At, Proc, session, capture, strays
<1>3. CASE PollReady
    <2>1. sw' \in Sw /\ at' \in {"start", "populate"}
        BY <1>3, StepSwitch DEF PollReady, Types
    <2> QED BY <1>3, <2>1 DEF PollReady, Types, At, session, switches, capture, strays
<1>4. CASE PollAgain
    BY <1>4 DEF PollAgain, Types, session, switches, capture, strays
<1>5. CASE StartFails
    <2>1. stray' \subseteq Sw
        BY <1>5 DEF StartFails, Types
    <2> QED BY <1>5, <2>1 DEF StartFails, Types, At, Proc, session, capture, strays
<1>6. CASE Populate
    <2>1. sw' \in Sw /\ at' \in {"populate", "phase"}
        BY <1>6, StepSwitch DEF Populate, Types
    <2>2. tables' \in [Sw -> {"none", "own", "stray"}]
        BY <1>6 DEF Populate, Types
    <2> QED BY <1>6, <2>1, <2>2 DEF Populate, Types, At, session, capture, strays
<1>7. ASSUME NEW s \in Sw, ProcessServes(s) \/ ProcessDies(s) PROVE Types'
    BY <1>7 DEF ProcessServes, ProcessDies, Types, Proc, session, capture, strays
<1>8. CASE Prepare
    <2>1. Now \in Label
        BY <1>8, NowType DEF Prepare, Types
    <2>2. env' \in Env
        BY <1>8, <2>1 DEF Prepare, Types, Label, Env
    <2>3. out' \in [Label -> Summary]
        BY <1>8, <2>1 DEF Prepare, Types, NoFile, Summary
    <2>4. sniffer' \in Sniffer
        BY <1>8 DEF Prepare, Sniffer
    <2> QED BY <1>8, <2>2, <2>3, <2>4 DEF Prepare, Types, At, session, switches, strays
<1>9. CASE SkipDelay
    <2>1. Tail(todo) \in Seq(Label)
        BY <1>9, NowType DEF SkipDelay, Types
    <2> QED BY <1>9, <2>1 DEF SkipDelay, Types, session, switches, capture, strays
<1>10. CASE SendEnds
    BY <1>10 DEF SendEnds, Types, session, switches, strays
<1>11. CASE WaitEnds
    <2>1. Now \in Label
        BY <1>11, NowType DEF WaitEnds, Types, Phase
    <2>2. sniffer' \in Sniffer
        BY <1>11 DEF WaitEnds, Types, Sniffer
    <2>3. orphans' \subseteq Orphan
        <3>1. [label |-> Now, by |-> sess, got |-> sniffer.got] \in Orphan
            BY <2>1 DEF Types, Orphan, Sniffer
        <3> QED BY <1>11, <3>1 DEF WaitEnds, Types, strays
    <2> QED BY <1>11, <2>2, <2>3 DEF WaitEnds, Types, At, session, switches
<1>12. CASE Read
    <2>1. Now \in Label /\ Tail(todo) \in Seq(Label)
        BY <1>12, NowType DEF Read, Types, Phase
    <2>2. Restored(Now) \in Env
        BY <2>1 DEF Restored, Types, Label, Env
    <2>3. NoSniffer \in Sniffer
        BY DEF NoSniffer, Sniffer
    <2> QED BY <1>12, <2>1, <2>2, <2>3 DEF Read, Types, At, session, switches, strays
<1>13. CASE PhasesDone
    BY <1>13 DEF PhasesDone, Types, At, session, switches, capture, strays
<1>14. CASE StopSwitch
    <2>1. sw' \in Sw /\ at' \in {"stop", "idle"}
        BY <1>14, StepSwitch DEF StopSwitch, Types
    <2> QED BY <1>14, <2>1 DEF StopSwitch, Types, At, Proc, session, capture, strays
<1>15. CASE Sniff \/ WriteSummary \/ SummaryWritten \/ SnifferDies
    <2>1. sniffer' \in Sniffer
        BY <1>15 DEF Sniff, WriteSummary, SummaryWritten, SnifferDies, Types, Sniffer
    <2>2. sniffer.st \in {"sniffing", "writing"} /\ Now \in Label
        BY <1>15, NowType DEF Sniff, WriteSummary, SummaryWritten, SnifferDies, Types, Phase
    <2>3. out' \in [Label -> Summary]
        <3>1. CASE Sniff \/ SnifferDies
            BY <3>1 DEF Sniff, SnifferDies, Types
        <3>2. CASE WriteSummary
            <4>1. [by |-> sess, whole |-> FALSE, got |-> sniffer.got] \in Summary
                BY DEF Types, Sniffer, Summary
            <4> QED BY <2>2, <3>2, <4>1 DEF WriteSummary, Types
        <3>3. CASE SummaryWritten
            <4>1. out[Now] \in Summary
                BY <2>2 DEF Types
            <4>2. [out[Now] EXCEPT !.whole = TRUE] \in Summary
                BY <4>1 DEF Summary
            <4> QED BY <2>2, <3>3, <4>2 DEF SummaryWritten, Types
        <3> QED BY <1>15, <3>1, <3>2, <3>3
    <2> QED BY <1>15, <2>1, <2>3
            DEF Sniff, WriteSummary, SummaryWritten, SnifferDies, Types, session, switches, strays
<1>16. ASSUME NEW o \in orphans, OrphanSniffs(o) PROVE Types'
    <2>1. [o EXCEPT !.got = @ \cup {env}] \in Orphan
        BY DEF Types, Orphan
    <2> QED BY <1>16, <2>1 DEF OrphanSniffs, Types, session, switches
<1>17. ASSUME NEW o \in orphans, OrphanWrites(o) PROVE Types'
    <2>1. o \in Orphan
        BY DEF Types
    <2>2. out' \in [Label -> Summary]
        BY <1>17, <2>1 DEF OrphanWrites, Types, Summary, Orphan
    <2> QED BY <1>17, <2>2 DEF OrphanWrites, Types, session, switches
<1>18. CASE UNCHANGED vars
    BY <1>18 DEF vars, Types
<1> QED BY <1>1, <1>2, <1>3, <1>4, <1>5, <1>6, <1>7, <1>8, <1>9, <1>10, <1>11, <1>12, <1>13,
           <1>14, <1>15, <1>16, <1>17, <1>18 DEF Next, Runner

-----------------------------------------------------------------------------
(* Switches *)

\* A step of a phase or of its collector leaves the switches alone.
LEMMA SwitchesKept ==
    ASSUME Switches, UNCHANGED <<sw, proc, stray, tables, aborted>>,
           \/ at' = at
           \/ at \in {"phase", "wait", "read"} /\ at' \in {"phase", "wait", "read", "stop"},
           sw \in Sw
    PROVE  Switches'
<1>1. at' = "stop" /\ at # "stop" => \A s \in Sw : ~ s < sw
    BY SizesAssumption DEF Switches, Sw
<1> QED BY <1>1 DEF Switches

LEMMA NextSwitches == NInv /\ [Next]_vars => Switches'
<1> SUFFICES ASSUME NInv, [Next]_vars PROVE Switches'
    OBVIOUS
<1>0. Types /\ Switches /\ sw \in Sw /\ \A s \in Sw : s \in 1..NumSwitches /\ s \in Nat
    BY SizesAssumption DEF NInv, Types, Sw
<1>1. CASE Begin
    <2>1. \A s \in Sw : ~ s < 1
        BY <1>0
    <2> QED BY <1>0, <1>1, <2>1 DEF Begin, Switches, strays
<1>2. CASE StartSwitch
    <2>1. \A s \in Sw : s < sw => proc'[s] = proc[s]
        BY <1>0, <1>2 DEF StartSwitch, Types
    <2> QED BY <1>0, <1>2, <2>1 DEF StartSwitch, Switches
<1>3. CASE PollReady
    <2>1. NextSwitch("start", "populate") /\ UNCHANGED switches /\ at = "poll" /\ Listening(sw)
        BY <1>3 DEF PollReady
    <2>2. \A s \in Sw : (s < sw \/ s = sw) /\ s \notin stray => proc[s] \in {"serving", "dead"}
        BY <1>0, <2>1 DEF Switches, Listening
    <2>3. CASE sw = NumSwitches
        <3>1. at' = "populate" /\ sw' = 1 /\ \A s \in Sw : s < sw \/ s = sw
            BY <1>0, <2>1, <2>3 DEF NextSwitch
        <3> QED BY <1>0, <2>1, <2>2, <3>1 DEF Switches, switches
    <2>4. CASE sw # NumSwitches
        <3>1. at' = "start" /\ sw' = sw + 1 /\ \A s \in Sw : s < sw + 1 => s < sw \/ s = sw
            BY <1>0, <2>1, <2>4 DEF NextSwitch
        <3> QED BY <1>0, <2>1, <2>2, <3>1 DEF Switches, switches
    <2> QED BY <2>3, <2>4
<1>4. CASE PollAgain \/ SendEnds \/ Sniff \/ WriteSummary \/ SummaryWritten \/ SnifferDies
    <2>1. UNCHANGED <<at, sw, proc, stray, tables, aborted>>
        BY <1>4 DEF PollAgain, SendEnds, Sniff, WriteSummary, SummaryWritten, SnifferDies, switches
    <2> QED BY <1>0, <2>1, SwitchesKept
<1>5. CASE StartFails
    <2>1. /\ at' = "idle" /\ aborted' = TRUE /\ tables' = tables /\ stray \subseteq stray'
          /\ \A s \in Sw : proc'[s] = "none"
        BY <1>5 DEF StartFails
    <2> QED BY <1>0, <2>1 DEF Switches
<1>6. CASE Populate
    <2>1. /\ NextSwitch("populate", "phase") /\ at = "populate"
          /\ UNCHANGED <<proc, stray, aborted>>
        BY <1>6 DEF Populate
    <2>2. \A s \in Sw : s \notin stray => tables'[s] # "stray"
        <3>1. ASSUME NEW s \in Sw, s \notin stray PROVE tables'[s] # "stray"
            BY <1>0, <1>6, <3>1 DEF Populate, Types, Switches
        <3> QED BY <3>1
    <2>3. \/ at' = "phase" /\ sw' = 1
          \/ at' = "populate"
        BY <2>1 DEF NextSwitch
    <2> QED BY <1>0, <2>1, <2>2, <2>3 DEF Switches
<1>7. ASSUME NEW s \in Sw, ProcessServes(s) PROVE Switches'
    <2>1. /\ proc[s] = "starting" /\ proc' = [proc EXCEPT ![s] = "serving"]
          /\ UNCHANGED <<at, sw, stray, tables, aborted>>
        BY <1>7 DEF ProcessServes
    <2>2. \A r \in Sw : proc'[r] = IF r = s THEN "serving" ELSE proc[r]
        BY <1>0, <2>1 DEF Types
    <2> QED BY <1>0, <2>1, <2>2 DEF Switches
<1>8. ASSUME NEW s \in Sw, ProcessDies(s) PROVE Switches'
    <2>1. /\ proc[s] \in {"starting", "serving"} /\ proc' = [proc EXCEPT ![s] = "dead"]
          /\ at # "stop" /\ UNCHANGED <<at, sw, stray, tables, aborted>>
        BY <1>8 DEF ProcessDies
    <2>2. \A r \in Sw : proc'[r] = IF r = s THEN "dead" ELSE proc[r]
        BY <1>0, <2>1 DEF Types
    <2> QED BY <1>0, <2>1, <2>2 DEF Switches
<1>9. CASE Prepare \/ SkipDelay \/ WaitEnds \/ Read \/ PhasesDone
    <2>1. /\ UNCHANGED <<sw, proc, stray, tables, aborted>>
          /\ at \in {"phase", "wait", "read"} /\ at' \in {"phase", "wait", "read", "stop"}
        BY <1>9 DEF Prepare, SkipDelay, WaitEnds, Read, PhasesDone, switches
    <2> QED BY <1>0, <2>1, SwitchesKept
<1>10. CASE StopSwitch
    <2>1. /\ NextSwitch("stop", "idle") /\ at = "stop" /\ UNCHANGED <<stray, aborted>>
          /\ proc' = [proc EXCEPT ![sw] = "none"] /\ tables' = [tables EXCEPT ![sw] = "none"]
        BY <1>10 DEF StopSwitch
    <2>2. \A s \in Sw : s < sw \/ s = sw => proc'[s] = "none"
        BY <1>0, <2>1 DEF Types, Switches
    <2>3. \A s \in Sw : s \notin stray => tables'[s] # "stray"
        BY <1>0, <2>1 DEF Types, Switches
    <2>4. CASE sw = NumSwitches
        <3>1. at' = "idle" /\ \A s \in Sw : s < sw \/ s = sw
            BY <1>0, <2>1, <2>4 DEF NextSwitch
        <3> QED BY <1>0, <2>1, <2>2, <2>3, <3>1 DEF Switches
    <2>5. CASE sw # NumSwitches
        <3>1. at' = "stop" /\ sw' = sw + 1 /\ \A s \in Sw : s < sw + 1 => s < sw \/ s = sw
            BY <1>0, <2>1, <2>5 DEF NextSwitch
        <3> QED BY <1>0, <2>1, <2>2, <2>3, <3>1 DEF Switches
    <2> QED BY <2>4, <2>5
<1>11. ASSUME NEW o \in orphans, OrphanSniffs(o) \/ OrphanWrites(o) PROVE Switches'
    <2>1. UNCHANGED <<at, sw, proc, stray, tables, aborted>>
        BY <1>11 DEF OrphanSniffs, OrphanWrites, switches
    <2> QED BY <1>0, <2>1, SwitchesKept
<1>12. CASE UNCHANGED vars
    BY <1>0, <1>12, SwitchesKept DEF vars
<1> QED BY <1>1, <1>2, <1>3, <1>4, <1>5, <1>6, <1>7, <1>8, <1>9, <1>10, <1>11, <1>12
        DEF Next, Runner
-----------------------------------------------------------------------------
(* The phases *)

LEMMA NextPhase == NInv /\ [Next]_vars => Phase'
<1> SUFFICES ASSUME NInv, [Next]_vars PROVE Phase'
    OBVIOUS
<1>0. Types /\ Phase
    BY DEF NInv
<1>1. CASE Begin
    <2>1. env' = Healthy /\ at = "idle" /\ at' = "start" /\ sniffer' = sniffer
        BY <1>1 DEF Begin
    <2> QED BY <1>0, <2>1 DEF Phase, Healthy
<1>2. CASE StartSwitch \/ PollReady \/ PollAgain \/ StartFails \/ Populate
    <2>1. /\ at \in {"start", "poll", "populate"} /\ UNCHANGED <<env, sniffer>>
          /\ at' \in {"start", "poll", "populate", "phase", "idle"}
        BY <1>2 DEF StartSwitch, PollReady, PollAgain, StartFails, Populate, NextSwitch, capture
    <2> QED BY <1>0, <2>1 DEF Phase
<1>3. ASSUME NEW s \in Sw, ProcessServes(s) \/ ProcessDies(s) PROVE Phase'
    BY <1>0, <1>3 DEF ProcessServes, ProcessDies, Phase, Now, capture
<1>4. CASE Prepare
    <2>1. Now \in Label
        BY <1>0, <1>4, NowType DEF Prepare, Types
    <2>2. /\ at = "phase" /\ at' = "wait" /\ UNCHANGED todo /\ todo # <<>>
          /\ sniffer'.got = {} /\ sniffer'.st = "sniffing"
        BY <1>4 DEF Prepare
    <2>3. env'.delayed = (Now = "delay_after") /\ env'.throttled = (Now = "queue_after")
        BY <1>0, <1>4, <2>1 DEF Prepare, Phase, Types, Env, Label
    <2> QED BY <2>2, <2>3 DEF Phase, Now
<1>5. CASE SkipDelay
    BY <1>0, <1>5 DEF SkipDelay, Phase, capture
<1>6. CASE SendEnds
    BY <1>0, <1>6 DEF SendEnds, Phase, Now
<1>7. CASE WaitEnds
    <2>1. /\ at = "wait" /\ at' = "read" /\ UNCHANGED <<todo, env>>
          /\ sniffer'.got = sniffer.got /\ sniffer'.st \in {"ended", "killed"}
        BY <1>0, <1>7 DEF WaitEnds, Types, Sniffer
    <2> QED BY <1>0, <2>1 DEF Phase, Now
<1>8. CASE Read
    <2>1. Now \in Label /\ at = "read" /\ sniffer' = NoSniffer
        BY <1>0, <1>8, NowType DEF Read, Types, Phase
    <2>2. CASE at' = "stop"
        BY <2>1, <2>2 DEF Phase, NoSniffer
    <2>3. CASE at' = "phase"
        <3>1. env' = Restored(Now)
            BY <1>8, <2>3 DEF Read
        <3>2. ~ env'.delayed /\ ~ env'.throttled
            BY <1>0, <2>1, <3>1 DEF Restored, Phase, Types, Env, Label
        <3> QED BY <2>1, <2>3, <3>2 DEF Phase, NoSniffer
    <2> QED BY <1>8, <2>2, <2>3 DEF Read
<1>9. CASE PhasesDone \/ StopSwitch
    <2>1. at' \in {"stop", "idle"} /\ UNCHANGED sniffer /\ at # "wait"
        BY <1>9 DEF PhasesDone, StopSwitch, NextSwitch, capture
    <2> QED BY <1>0, <2>1 DEF Phase
<1>10. CASE Sniff \/ WriteSummary \/ SummaryWritten \/ SnifferDies
    <2>1. /\ sniffer.st \in {"sniffing", "writing"} /\ UNCHANGED <<at, env, todo>>
          /\ sniffer'.got \subseteq sniffer.got \cup {env}
        BY <1>0, <1>10 DEF Sniff, WriteSummary, SummaryWritten, SnifferDies, Types, Sniffer
    <2> QED BY <1>0, <2>1 DEF Phase, Now
<1>11. ASSUME NEW o \in orphans, OrphanSniffs(o) \/ OrphanWrites(o) PROVE Phase'
    BY <1>0, <1>11 DEF OrphanSniffs, OrphanWrites, Phase, Now
<1>12. CASE UNCHANGED vars
    BY <1>0, <1>12 DEF vars, Phase, Now
<1> QED BY <1>1, <1>2, <1>3, <1>4, <1>5, <1>6, <1>7, <1>8, <1>9, <1>10, <1>11, <1>12
        DEF Next, Runner

-----------------------------------------------------------------------------
(* The files *)

\* A step that touches no file, and stays where main's reading is concerned.
LEMMA FilesKept ==
    ASSUME Files, UNCHANGED <<orphans, survived, out, todo, sess>>,
           at' \in {"wait", "read"} => at \in {"wait", "read"}
    PROVE  Files'
  BY DEF Files, Of, Now

LEMMA NextFiles == NInv /\ [Next]_vars => Files'
<1> SUFFICES ASSUME NInv, [Next]_vars, ~ survived' PROVE Files'
    BY DEF Files
<1>0. Types /\ Phase /\ Files
    BY DEF NInv
<1>1. CASE Begin
    BY <1>0, <1>1 DEF Begin, Files, Of, strays
<1>2. CASE StartSwitch \/ PollReady \/ PollAgain \/ StartFails \/ Populate \/ PhasesDone \/ StopSwitch
    <2>1. /\ UNCHANGED <<orphans, survived, out, todo, sess>>
          /\ at' \notin {"wait", "read"}
        BY <1>2 DEF StartSwitch, PollReady, PollAgain, StartFails, Populate, PhasesDone,
                    StopSwitch, NextSwitch, session, capture, strays
    <2> QED BY <1>0, <2>1, FilesKept
<1>3. ASSUME NEW s \in Sw, ProcessServes(s) \/ ProcessDies(s) PROVE Files'
    <2>1. UNCHANGED <<orphans, survived, out, todo, sess, at>>
        BY <1>3 DEF ProcessServes, ProcessDies, session, capture, strays
    <2> QED BY <1>0, <2>1, FilesKept
<1>4. CASE Prepare
    <2>1. Now \in Label /\ UNCHANGED <<todo, sess, orphans, survived>>
        BY <1>0, <1>4, NowType DEF Prepare, Types, session, strays
    <2>2. \A l \in Label : out'[l] = IF l = Now THEN NoFile ELSE out[l]
        BY <1>0, <1>4, <2>1 DEF Prepare, Types
    <2>3. \A l \in Label : Of(l, out[l].got) /\ orphans = {}
        BY <1>0, <2>1 DEF Files
    <2>4. \A l \in Label : Of(l, {})
        BY <1>0 DEF Of, Types
    <2>5. \A l \in Label : Of(l, out'[l].got)
        <3>1. NoFile.got = {}
            BY DEF NoFile
        <3>2. ASSUME NEW l \in Label PROVE Of(l, out'[l].got)
            <4>1. CASE l = Now
                BY <2>2, <2>4, <3>1, <4>1
            <4>2. CASE l # Now
                BY <2>2, <2>3, <4>2
            <4> QED BY <4>1, <4>2
        <3> QED BY <3>2
    <2> QED BY <2>1, <2>2, <2>3, <2>5 DEF Files, Now, NoFile, Of
<1>5. CASE SkipDelay
    BY <1>0, <1>5 DEF SkipDelay, Files, Of, capture, strays, session
<1>6. CASE SendEnds \/ Sniff \/ SnifferDies
    <2>1. UNCHANGED <<orphans, survived, out, todo, sess, at>>
        BY <1>6 DEF SendEnds, Sniff, SnifferDies, session, strays
    <2> QED BY <1>0, <2>1, FilesKept
<1>7. CASE WaitEnds
    <2>1. UNCHANGED <<orphans, survived, out, todo, sess>> /\ at = "wait"
        BY <1>7 DEF WaitEnds, session, strays
    <2> QED BY <1>0, <2>1, FilesKept
<1>8. CASE Read
    BY <1>0, <1>8 DEF Read, Files, Of, session, strays
<1>9. CASE WriteSummary
    <2>1. /\ Now \in Label /\ at = "wait" /\ sniffer.got \subseteq {env} /\ env \in Env
          /\ env.delayed = (Now = "delay_after") /\ env.throttled = (Now = "queue_after")
          /\ UNCHANGED <<todo, sess, orphans, survived, at>>
        BY <1>0, <1>9, NowType DEF WriteSummary, Types, Phase, session, strays
    <2>2. \A l \in Label : out'[l] = IF l = Now THEN [by |-> sess, whole |-> FALSE, got |-> sniffer.got]
                                     ELSE out[l]
        BY <1>0, <1>9, <2>1 DEF WriteSummary, Types
    <2>3. Of(Now, sniffer.got)
        BY <2>1 DEF Of
    <2>4. \A l \in Label : Of(l, out[l].got) /\ orphans = {}
        BY <1>0, <2>1 DEF Files
    <2>5. \A l \in Label : Of(l, out'[l].got)
        BY <2>2, <2>3, <2>4
    <2> QED BY <2>1, <2>2, <2>4, <2>5 DEF Files, Now, Of
<1>10. CASE SummaryWritten
    <2>1. Now \in Label /\ at = "wait" /\ UNCHANGED <<todo, sess, orphans, survived, at>>
        BY <1>0, <1>10, NowType DEF SummaryWritten, Types, Phase, session, strays
    <2>2. \A l \in Label : out[l] \in Summary
        BY <1>0 DEF Types
    <2>3. \A l \in Label : out'[l].got = out[l].got /\ out'[l].by = out[l].by
        BY <1>0, <1>10, <2>1, <2>2 DEF SummaryWritten, Types, Summary
    <2> QED BY <1>0, <2>1, <2>3 DEF Files, Now, Of
<1>11. ASSUME NEW o \in orphans, OrphanSniffs(o) \/ OrphanWrites(o) PROVE Files'
    <2>1. survived' = survived
        BY <1>11 DEF OrphanSniffs, OrphanWrites
    <2> QED BY <1>0, <1>11, <2>1 DEF Files
<1>12. CASE UNCHANGED vars
    <2>1. UNCHANGED <<orphans, survived, out, todo, sess, at>>
        BY <1>12 DEF vars
    <2> QED BY <1>0, <2>1, FilesKept
<1> QED BY <1>1, <1>2, <1>3, <1>4, <1>5, <1>6, <1>7, <1>8, <1>9, <1>10, <1>11, <1>12
        DEF Next, Runner

-----------------------------------------------------------------------------

LEMMA AlwaysNInv == Spec => []NInv
<1>1. Init => NInv
    BY InitNInv
<1>2. NInv /\ [Next]_vars => NInv'
    BY NextTypes, NextSwitches, NextPhase, NextFiles DEF NInv
<1> QED BY <1>1, <1>2, PTL DEF Spec

(* A session that gets past its bring-up leaves no switch running           *)
(* (net_runner.py:218-224, 262-263), for every number of switches, of polls *)
(* and of sessions, whichever processes die or come up late.                *)
THEOREM NothingIsLeft == Spec => []NothingLeft
<1>1. NInv => NothingLeft
    BY DEF NInv, Switches, NothingLeft
<1> QED BY <1>1, AlwaysNInv, PTL

(* "thrift ready" is the switch's own process, and populate writes to it,   *)
(* wherever no stray holds the port (p4_switch.py:68-101,                   *)
(* net_runner.py:58-68).                                                    *)
THEOREM ReadyHasServed == Spec => []ReadyIsServing
<1>1. NInv => ReadyIsServing
    BY DEF NInv, Switches, ReadyIsServing
<1> QED BY <1>1, AlwaysNInv, PTL

LEMMA OneNetwork ==
    ASSUME NEW l, NEW got, Of(l, got)
    PROVE  Cardinality(got) <= 1
<1>1. PICK e \in Env : got \subseteq {e}
    BY DEF Of
<1>2. got = {} \/ got = {e}
    BY <1>1
<1>3. Cardinality({}) = 0 /\ Cardinality({e}) = 1
    BY FS_EmptySet, FS_Singleton
<1> QED BY <1>2, <1>3

(* The reports of a summary were all taken in the network of its phase, and *)
(* main reads no other session's summary, unless a collector outlives its   *)
(* kill (net_runner.py:229-261): whatever scenarios came before, however    *)
(* they ended, for any number of switches and sessions.                     *)
THEOREM SummaryIsOfPhase == Spec => []SummaryOfPhase
<1>1. NInv => SummaryOfPhase
    <2> SUFFICES ASSUME NInv, ~ survived PROVE SummaryOfPhase
        BY DEF SummaryOfPhase
    <2>1. \A l \in Label : Of(l, out[l].got)
        BY DEF NInv, Files
    <2>2. \A l \in Label : Cardinality(out[l].got) <= 1
        BY <2>1, OneNetwork
    <2> QED BY <2>1, <2>2 DEF NInv, Files, SummaryOfPhase, Of
<1> QED BY <1>1, AlwaysNInv, PTL
-----------------------------------------------------------------------------
(* Sessions of poolint_runner.  A session's collector sniffs and writes     *)
(* only between its start and the end of the wait, which is when the        *)
(* targets are faulty and the old summary is gone; all of it as long as     *)
(* every kill has reached its collector.                                    *)

SessionPc == {"idle", "remove", "start", "flows", "wait", "read", "clear", "stop"}
Collector ==
    [st : {"none", "sniffing", "writing"} \cup Pool!Finished, pkts : Seq(BOOLEAN), orphan : BOOLEAN]
SessionSummary == [by : Nat, packets : Nat, whole : BOOLEAN]

SessionTypes ==
    /\ session_no \in 0..NumSessions /\ pc \in SessionPc
    /\ coll \in [Pool!Session -> Collector]
    /\ fault \in BOOLEAN
    /\ json \in SessionSummary /\ returned \in SessionSummary

\* The collectors: past sessions' are over, the current one's runs while the
\* runner launches flows and waits, later ones' have not begun.
OneAtATime ==
    \A s \in Pool!Session :
        /\ coll[s].st \in {"sniffing", "writing"} => s = session_no /\ pc \in {"flows", "wait"}
        /\ s > session_no => coll[s].st = "none"
        /\ s = session_no /\ pc \in {"remove", "start"} => coll[s].st = "none"

Faulty ==
    /\ pc \in {"remove", "start", "flows", "wait"} => fault
    /\ \A s \in Pool!Session : \A k \in DOMAIN coll[s].pkts : coll[s].pkts[k]

OwnSummary ==
    /\ pc # "remove" => json.by \in {0, session_no}
    /\ returned.by \in {0, session_no}

SessionInv ==
    /\ SessionTypes
    /\ returned.whole
    /\ Pool!NoOrphan => OneAtATime /\ Faulty /\ OwnSummary

LEMMA InitSession == Pool!Init => SessionInv
<1> SUFFICES ASSUME Pool!Init PROVE SessionInv
    OBVIOUS
<1>1. NumSessions \in Nat
    BY RunnersAssumption DEF Pool!SessionAssumption
<1>2. \A s \in Pool!Session : coll[s].st = "none" /\ coll[s].pkts = <<>>
    BY DEF Pool!Init
<1>3. coll \in [Pool!Session -> Collector]
    BY DEF Pool!Init, Collector
<1>4. SessionTypes /\ returned.whole
    <2>1. Pool!NoJson \in SessionSummary /\ Pool!NoJson.whole
        BY DEF SessionSummary, Pool!NoJson
    <2>2. session_no \in 0..NumSessions /\ pc \in SessionPc
        BY <1>1 DEF Pool!Init, SessionPc
    <2> QED BY <1>3, <2>1, <2>2 DEF Pool!Init, SessionTypes
<1>5. OneAtATime
    BY <1>2 DEF OneAtATime
<1>6. Faulty
    <2>1. pc = "idle"
        BY DEF Pool!Init
    <2>2. DOMAIN <<>> = {}
        OBVIOUS
    <2> QED BY <1>2, <2>1, <2>2 DEF Faulty
<1>7. OwnSummary
    BY DEF Pool!Init, Pool!NoJson, OwnSummary
<1> QED BY <1>4, <1>5, <1>6, <1>7 DEF SessionInv

\* A step that leaves the collectors alone.
LEMMA CollectorsKept ==
    ASSUME SessionInv, UNCHANGED coll, SessionTypes', returned'.whole,
           OneAtATime => OneAtATime', OneAtATime /\ Faulty => Faulty',
           OneAtATime /\ OwnSummary => OwnSummary'
    PROVE  SessionInv'
  BY DEF SessionInv, Pool!NoOrphan

LEMMA NextSession == SessionInv /\ [Pool!Next]_pool_vars => SessionInv'
<1> SUFFICES ASSUME SessionInv, [Pool!Next]_pool_vars PROVE SessionInv'
    OBVIOUS
<1>0. /\ SessionTypes /\ returned.whole
      /\ NumSessions \in Nat /\ session_no \in 0..NumSessions
      /\ \A s \in Pool!Session : s \in 1..NumSessions
    BY RunnersAssumption DEF SessionInv, SessionTypes, Pool!SessionAssumption, Pool!Session
<1>1. CASE Pool!Begin
    <2>1. SessionTypes' /\ returned'.whole
        BY <1>0, <1>1 DEF Pool!Begin, SessionTypes, SessionPc, SessionSummary, Pool!NoJson, Pool!Session
    <2>2. OneAtATime => OneAtATime'
        BY <1>0, <1>1 DEF Pool!Begin, OneAtATime
    <2>3. Faulty => Faulty'
        BY <1>1 DEF Pool!Begin, Faulty
    <2>4. OwnSummary'
        BY <1>1 DEF Pool!Begin, OwnSummary, Pool!NoJson
    <2> QED BY <1>1, <2>1, <2>2, <2>3, <2>4, CollectorsKept DEF Pool!Begin
<1>2. CASE Pool!RemoveStale
    <2>1. SessionTypes' /\ returned'.whole
        BY <1>0, <1>2 DEF Pool!RemoveStale, SessionTypes, SessionPc, SessionSummary, Pool!NoJson
    <2>2. OneAtATime => OneAtATime'
        BY <1>0, <1>2 DEF Pool!RemoveStale, OneAtATime
    <2>3. Faulty => Faulty'
        BY <1>2 DEF Pool!RemoveStale, Faulty
    <2>4. OwnSummary => OwnSummary'
        BY <1>2 DEF Pool!RemoveStale, OwnSummary, Pool!NoJson
    <2> QED BY <1>2, <2>1, <2>2, <2>3, <2>4, CollectorsKept DEF Pool!RemoveStale
<1>3. CASE Pool!LaunchFlows \/ Pool!WaitReturns \/ Pool!FlowsEnd
    <2>1. /\ UNCHANGED <<session_no, fault, coll, json, returned>>
          /\ \/ pc = "flows" /\ pc' = "wait"
             \/ pc = "wait" /\ pc' = "read" /\ coll[session_no].st \in Pool!Finished
             \/ pc' = pc
        BY <1>3 DEF Pool!LaunchFlows, Pool!WaitReturns, Pool!FlowsEnd
    <2>2. SessionTypes' /\ returned'.whole
        BY <1>0, <2>1 DEF SessionTypes, SessionPc
    <2>3. OneAtATime => OneAtATime'
        BY <1>0, <2>1 DEF OneAtATime, Pool!Finished
    <2>4. Faulty => Faulty'
        BY <2>1 DEF Faulty
    <2>5. OwnSummary => OwnSummary'
        BY <2>1 DEF OwnSummary
    <2> QED BY <2>1, <2>2, <2>3, <2>4, <2>5, CollectorsKept
<1>4. CASE Pool!Read \/ Pool!Clear \/ Pool!NetStop
    <2>1. /\ UNCHANGED <<session_no, coll, json>> /\ fault' \in BOOLEAN
          /\ pc \in {"read", "clear", "stop"} /\ pc' \in {"clear", "stop", "idle"}
          /\ returned' = returned \/ (returned' = json /\ json.whole)
        <3>1. CASE Pool!Read
            BY <1>0, <3>1 DEF Pool!Read, SessionTypes
        <3>2. CASE Pool!Clear \/ Pool!NetStop
            BY <3>2 DEF Pool!Clear, Pool!NetStop
        <3> QED BY <1>4, <3>1, <3>2
    <2>2. SessionTypes' /\ returned'.whole
        BY <1>0, <2>1 DEF SessionTypes, SessionPc
    <2>3. OneAtATime => OneAtATime'
        BY <2>1 DEF OneAtATime
    <2>4. Faulty => Faulty'
        BY <2>1 DEF Faulty
    <2>5. OwnSummary => OwnSummary'
        BY <2>1 DEF OwnSummary
    <2> QED BY <2>1, <2>2, <2>3, <2>4, <2>5, CollectorsKept
<1>5. CASE Pool!StartCollector
    <2>1. /\ coll' = [coll EXCEPT ![session_no].st = "sniffing"]
          /\ pc = "start" /\ pc' = "flows" /\ UNCHANGED <<session_no, fault, json, returned>>
        BY <1>5 DEF Pool!StartCollector
    <2>2. SessionTypes' /\ returned'.whole
        BY <1>0, <2>1 DEF SessionTypes, SessionPc, Collector
    <2>3. \A s \in Pool!Session : coll'[s].pkts = coll[s].pkts /\ coll'[s].orphan = coll[s].orphan
        BY <1>0, <2>1 DEF SessionTypes, Collector
    <2>4. \A s \in Pool!Session : coll'[s].st = IF s = session_no THEN "sniffing" ELSE coll[s].st
        BY <1>0, <2>1 DEF SessionTypes, Collector
    <2>5. Pool!NoOrphan' => Pool!NoOrphan
        BY <2>3 DEF Pool!NoOrphan
    <2>6. OneAtATime => OneAtATime'
        BY <1>0, <2>1, <2>4 DEF OneAtATime
    <2>7. Faulty => Faulty'
        BY <2>1, <2>3 DEF Faulty
    <2>8. OwnSummary => OwnSummary'
        BY <2>1 DEF OwnSummary
    <2> QED BY <2>2, <2>5, <2>6, <2>7, <2>8 DEF SessionInv
<1>6. CASE Pool!WaitTimeout
    <2>1. /\ pc = "wait" /\ pc' = "read" /\ UNCHANGED <<session_no, fault, json, returned>>
          /\ \/ coll' = [coll EXCEPT ![session_no].st = "killed"]
             \/ coll' = [coll EXCEPT ![session_no].orphan = TRUE]
        BY <1>6 DEF Pool!WaitTimeout
    <2>2. SessionTypes' /\ returned'.whole
        BY <1>0, <2>1 DEF SessionTypes, SessionPc, Collector, Pool!Finished
    <2>3. \A s \in Pool!Session :
              /\ coll'[s].pkts = coll[s].pkts
              /\ coll'[s].orphan = coll[s].orphan \/ coll'[s].orphan
        <3>1. CASE coll' = [coll EXCEPT ![session_no].st = "killed"]
            BY <1>0, <3>1 DEF SessionTypes, Collector
        <3>2. CASE coll' = [coll EXCEPT ![session_no].orphan = TRUE]
            BY <1>0, <3>2 DEF SessionTypes, Collector
        <3> QED BY <2>1, <3>1, <3>2
    <2>4. Pool!NoOrphan' => Pool!NoOrphan
        BY <2>3 DEF Pool!NoOrphan
    <2>5. ASSUME OneAtATime, Pool!NoOrphan' PROVE OneAtATime'
        <3>1. CASE session_no \notin Pool!Session
            <4>1. coll' = coll
                BY <1>0, <2>1, <3>1 DEF SessionTypes
            <4> QED BY <1>0, <2>1, <2>5, <3>1, <4>1 DEF OneAtATime
        <3>2. CASE session_no \in Pool!Session
            <4>1. coll' = [coll EXCEPT ![session_no].st = "killed"]
                BY <1>0, <2>1, <2>5, <3>2 DEF SessionTypes, Collector, Pool!NoOrphan
            <4>2. \A s \in Pool!Session :
                      coll'[s].st = IF s = session_no THEN "killed" ELSE coll[s].st
                BY <1>0, <4>1 DEF SessionTypes, Collector
            <4> QED BY <1>0, <2>1, <2>5, <4>2 DEF OneAtATime
        <3> QED BY <3>1, <3>2
    <2>6. Faulty => Faulty'
        BY <2>1, <2>3 DEF Faulty
    <2>7. OwnSummary => OwnSummary'
        BY <2>1 DEF OwnSummary
    <2> QED BY <2>2, <2>4, <2>5, <2>6, <2>7 DEF SessionInv
<1>7. ASSUME NEW s \in Pool!Session, Pool!Sniff(s) PROVE SessionInv'
    <2>1. /\ coll[s].st = "sniffing" /\ coll' = [coll EXCEPT ![s].pkts = Append(@, fault)]
          /\ UNCHANGED <<session_no, pc, fault, json, returned>>
        BY <1>7 DEF Pool!Sniff
    <2>2. coll[s].pkts \in Seq(BOOLEAN) /\ fault \in BOOLEAN
        BY <1>0, <1>7 DEF SessionTypes, Collector
    <2>3. \A r \in Pool!Session : coll'[r] = IF r = s THEN [coll[s] EXCEPT !.pkts = Append(@, fault)]
                                             ELSE coll[r]
        BY <1>0, <2>1 DEF SessionTypes
    <2>4. SessionTypes' /\ returned'.whole
        <3>1. Append(coll[s].pkts, fault) \in Seq(BOOLEAN)
            BY <2>2
        <3> QED BY <1>0, <2>1, <3>1 DEF SessionTypes, Collector
    <2>5. \A r \in Pool!Session : coll'[r].st = coll[r].st /\ coll'[r].orphan = coll[r].orphan
        BY <1>0, <2>3 DEF SessionTypes, Collector
    <2>6. Pool!NoOrphan' => Pool!NoOrphan
        BY <2>5 DEF Pool!NoOrphan
    <2>7. OneAtATime => OneAtATime'
        BY <2>1, <2>5 DEF OneAtATime
    <2>8. ASSUME OneAtATime, Faulty PROVE Faulty'
        <3>1. fault
            BY <1>7, <2>1, <2>8 DEF OneAtATime, Faulty
        <3>2. coll'[s].pkts = Append(coll[s].pkts, fault)
            BY <1>0, <1>7, <2>3 DEF SessionTypes, Collector
        <3>3. \A k \in DOMAIN coll[s].pkts : coll[s].pkts[k]
            BY <1>7, <2>8 DEF Faulty
        <3>4. \A k \in DOMAIN coll'[s].pkts : coll'[s].pkts[k]
            BY <2>2, <3>1, <3>2, <3>3
        <3>5. \A r \in Pool!Session : r # s => coll'[r] = coll[r]
            BY <2>3
        <3>6. \A r \in Pool!Session : \A k \in DOMAIN coll'[r].pkts : coll'[r].pkts[k]
            BY <2>8, <3>4, <3>5 DEF Faulty
        <3> QED BY <2>1, <2>8, <3>6 DEF Faulty
    <2>9. OwnSummary => OwnSummary'
        BY <2>1 DEF OwnSummary
    <2> QED BY <2>4, <2>6, <2>7, <2>8, <2>9 DEF SessionInv
<1>8. ASSUME NEW s \in Pool!Session, Pool!SniffEnds(s) \/ Pool!Written(s) PROVE SessionInv'
    <2>1. PICK st \in {"writing", "crashed", "ended"}, whole \in BOOLEAN :
              /\ coll[s].st \in {"sniffing", "writing"}
              /\ coll' = [coll EXCEPT ![s].st = st]
              /\ \/ json' = json
                 \/ json' = [by |-> s, packets |-> Len(coll[s].pkts), whole |-> whole]
              /\ UNCHANGED <<session_no, pc, fault, returned>>
        BY <1>8 DEF Pool!SniffEnds, Pool!Written
    <2>2. coll[s].pkts \in Seq(BOOLEAN) /\ s \in Nat
        BY <1>0, <1>8 DEF SessionTypes, Collector
    <2>3. SessionTypes' /\ returned'.whole
        <3>1. Len(coll[s].pkts) \in Nat
            BY <2>2
        <3>2. json' \in SessionSummary
            BY <1>0, <2>1, <2>2, <3>1 DEF SessionTypes, SessionSummary
        <3>3. coll' \in [Pool!Session -> Collector]
            BY <1>0, <2>1 DEF SessionTypes, Collector, Pool!Finished
        <3> QED BY <1>0, <2>1, <3>2, <3>3 DEF SessionTypes
    <2>4. \A r \in Pool!Session :
              /\ coll'[r].pkts = coll[r].pkts /\ coll'[r].orphan = coll[r].orphan
              /\ coll'[r].st = IF r = s THEN st ELSE coll[r].st
        BY <1>0, <2>1 DEF SessionTypes, Collector
    <2>5. Pool!NoOrphan' => Pool!NoOrphan
        BY <2>4 DEF Pool!NoOrphan
    <2>6. OneAtATime => OneAtATime'
        <3> SUFFICES ASSUME OneAtATime PROVE OneAtATime'
            OBVIOUS
        <3>1. s = session_no /\ pc \in {"flows", "wait"}
            BY <1>8, <2>1 DEF OneAtATime
        <3> QED BY <1>0, <2>1, <2>4, <3>1 DEF OneAtATime
    <2>7. Faulty => Faulty'
        BY <2>1, <2>4 DEF Faulty
    <2>8. OneAtATime /\ OwnSummary => OwnSummary'
        BY <1>8, <2>1 DEF OneAtATime, OwnSummary
    <2> QED BY <2>3, <2>5, <2>6, <2>7, <2>8 DEF SessionInv
<1>9. CASE UNCHANGED pool_vars
    BY <1>9 DEF pool_vars, SessionInv, SessionTypes, OneAtATime, Faulty, OwnSummary, Pool!NoOrphan
<1> QED BY <1>1, <1>2, <1>3, <1>4, <1>5, <1>6, <1>7, <1>8, <1>9 DEF Pool!Next, Pool!Runner

LEMMA AlwaysSession == RunnersSpec => []SessionInv
<1>1. RunnersInit => SessionInv
    BY InitSession DEF RunnersInit
<1>2. [RunnersNext]_<<script, vars, pool_vars>> => [Pool!Next]_pool_vars
    BY DEF RunnersNext
<1>3. SessionInv /\ [Pool!Next]_pool_vars => SessionInv'
    BY NextSession
<1> QED BY <1>1, <1>2, <1>3, PTL DEF RunnersSpec

(* The summary a session of poolint_runner returns was whole when read, and *)
(* is its own or none as long as every kill reached its collector           *)
(* (poolint_runner.py:144-180): for any number of sessions, of packets, and *)
(* however their waits end.                                                 *)
THEOREM SummaryIsOwn == RunnersSpec => []ReturnedIsOwn
<1>1. SessionInv => ReturnedIsOwn
    BY DEF SessionInv, OwnSummary, ReturnedIsOwn, Pool!ReturnedIsOwn
<1> QED BY <1>1, AlwaysSession, PTL

(* Every report was taken while the targets were faulty                     *)
(* (poolint_runner.py:198-204), under the same condition: the clear never   *)
(* overtakes a capture of its own session.                                  *)
THEOREM ReportsAreUnderFault == RunnersSpec => []TakenUnderFault
<1>1. SessionInv => TakenUnderFault
    BY DEF SessionInv, Faulty, TakenUnderFault, Pool!TakenUnderFault
<1> QED BY <1>1, AlwaysSession, PTL
=============================================================================
