--------------------------- MODULE RecoveryDrill ---------------------------
(***************************************************************************)
(* The recovery verification of src/recovery_verifier.py: a baseline of the  *)
(* expected nodes, a wait for the outage of a target, a wait for its return,*)
(* and a report that passes if the three phases have.                       *)
(***************************************************************************)
EXTENDS RayCluster

CONSTANT Target     \* RECOVERY_TARGET_IP

ASSUME TargetAssumption == Target \in Workers

VARIABLES
    drill,      \* the phase under way, or how the drill ended; "idle" if not started
    passed,     \* the phases that have passed
    blind,      \* history: the phase "outage" has passed on a read that failed
    out         \* history: the target was out at the baseline or in the phase "outage"

drilling == <<drill, passed, blind, out>>

PhaseNames == {"baseline", "outage", "rejoin"}
DrillEnds == {"idle", "reported", "crashed"}

DrillInit ==
    /\ drill \in {"idle", "baseline"}
    /\ passed = {}
    /\ blind = FALSE
    /\ out = FALSE

After(phase) ==
    CASE phase = "baseline" -> "outage"
      [] phase = "outage" -> "rejoin"
      [] phase = "rejoin" -> "reported"

EndPhase(ok) ==
    /\ passed' = IF ok THEN passed \cup {drill} ELSE passed
    /\ drill' = After(drill)

\* verify_node_visibility: a failed baseline does not end the drill, a read that
\* raises does.  The reboot is then asked for, or left to the operator.
Baseline ==
    /\ drill = "baseline"
    /\ \/ EndPhase(alive = Workers) /\ out' = (Target \notin alive)
       \/ drill' = "crashed" /\ UNCHANGED <<passed, out>>
    /\ UNCHANGED <<cluster, blind>>

\* Mutant of EndsWait: the state waited for is not looked at.
EndsWaitAny(isAlive) == TRUE

\* is_alive == want_alive
EndsWait(isAlive) == isAlive <=> drill = "rejoin"

\* One poll of _wait_for_state.  A read that raises counts as a state that is not ALIVE.
PollTarget ==
    /\ drill \in {"outage", "rejoin"}
    /\ \E read \in BOOLEAN :
          /\ read => Target \in alive
          /\ EndsWait(read)
          /\ EndPhase(TRUE)
          /\ blind' = (blind \/ (drill = "outage" /\ read # (Target \in alive)))
    /\ UNCHANGED <<cluster, out>>

\* The deadline of the phase has passed.
PhaseTimesOut ==
    /\ drill \in {"outage", "rejoin"}
    /\ EndPhase(FALSE)
    /\ UNCHANGED <<cluster, blind, out>>

DrillStep == Baseline \/ PollTarget \/ PhaseTimesOut

DrillTypeOK ==
    /\ drill \in PhaseNames \cup DrillEnds
    /\ passed \in SUBSET PhaseNames
    /\ blind \in BOOLEAN
    /\ out \in BOOLEAN

\* A drill that passes was one: the target was out and came back, or the dashboard
\* failed at the very poll that took its silence for the outage.
PassNeedsOutage == drill = "reported" /\ passed = PhaseNames => out \/ blind

=============================================================================
