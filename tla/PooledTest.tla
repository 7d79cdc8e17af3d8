----------------------------- MODULE PooledTest -----------------------------
(***************************************************************************)
(* What PoolINT promises: "each packet is ONE pooled test" (headers.p4:6). *)
(* A set of defective ports is fixed before anything is observed; from     *)
(* then on every test the collector gets is a pooled test of that set, at  *)
(* once and exactly, however the packets interleave.  Tests may be lost.   *)
(***************************************************************************)
EXTENDS GroupTest

CONSTANT Port

VARIABLES
    truth,  \* the defective ports
    tests,  \* the tests the collector holds, each with its epoch
    stage   \* "choose", "observe", "closed"

vars == <<truth, tests, stage>>

Init == truth = {} /\ tests = {} /\ stage = "choose"

Choose ==
    /\ stage = "choose"
    /\ truth' \in {truth \cup {p} : p \in Port}
    /\ UNCHANGED <<tests, stage>>

Start == stage = "choose" /\ stage' = "observe" /\ UNCHANGED <<truth, tests>>

Observe ==
    /\ stage = "observe"
    /\ tests \subseteq tests'
    /\ \A t \in tests' \ tests : t.mem \subseteq Port /\ t.y = Pooled(t.mem, truth)
    /\ UNCHANGED <<truth, stage>>

Close == stage = "observe" /\ stage' = "closed" /\ UNCHANGED <<truth, tests>>

Discard ==
    /\ stage = "closed"
    /\ tests' \subseteq tests
    /\ UNCHANGED <<truth, stage>>

Next == Choose \/ Start \/ Observe \/ Close \/ Discard

Spec == Init /\ [][Next]_vars
=============================================================================
