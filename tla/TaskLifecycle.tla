---------------------------- MODULE TaskLifecycle ----------------------------
(***************************************************************************)
(* What a Cosync or a SerialCosync promises about its tasks, whoever       *)
(* queues them and however the two queues are organised: one task is       *)
(* polled at a time, each at most once per run, only after it has been     *)
(* queued, and never again once it has completed, panicked, or been taken  *)
(* back or cleared; nobody ends the task that is under poll but itself.    *)
(***************************************************************************)
CONSTANTS Task, NoTask

VARIABLES
    phase,             \* of each task: new, queued, running (polled before), done
    polled,            \* tasks polled in the current or last run
    active             \* the task under poll

vars == <<phase, polled, active>>

Alive(t) == phase[t] \in {"queued", "running"}

Init ==
    /\ phase = [t \in Task |-> "new"]
    /\ polled = {} /\ active = NoTask

Queue(t) ==
    /\ phase[t] = "new"
    /\ phase' = [phase EXCEPT ![t] = "queued"]
    /\ UNCHANGED <<polled, active>>

StartRun ==
    /\ active = NoTask
    /\ polled' = {}
    /\ UNCHANGED <<phase, active>>

Poll(t) ==
    /\ active = NoTask
    /\ Alive(t) /\ t \notin polled
    /\ phase' = [phase EXCEPT ![t] = "running"]
    /\ polled' = polled \union {t}
    /\ active' = t

Pending ==
    /\ active # NoTask
    /\ active' = NoTask
    /\ UNCHANGED <<phase, polled>>

Finish ==
    /\ active # NoTask
    /\ phase' = [phase EXCEPT ![active] = "done"]
    /\ active' = NoTask
    /\ UNCHANGED polled

\* Tasks are taken back, or cleared.
End(ended) ==
    /\ active \notin ended
    /\ \A t \in ended : Alive(t)
    /\ phase' = [t \in Task |-> IF t \in ended THEN "done" ELSE phase[t]]
    /\ UNCHANGED <<polled, active>>

Next ==
    \/ \E t \in Task : Queue(t) \/ Poll(t)
    \/ StartRun \/ Pending \/ Finish
    \/ \E ended \in SUBSET Task : End(ended)

Spec == Init /\ [][Next]_vars
=============================================================================
