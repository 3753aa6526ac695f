----------------------------- MODULE FaultTimer ------------------------------
(***************************************************************************)
(* What the Event Timer promises (spec 4.3): each fault specification is  *)
(* initialised once, which fixes its arm and disarm times, and then moves  *)
(* PENDING -> ACTIVE once the clock has reached armAt and ACTIVE ->        *)
(* STOPPED once it has reached disarmAt, never backwards, one fault per    *)
(* step.  The clock only moves forward.  Nothing here says when a step     *)
(* must happen: a run may end with a timer still PENDING or ACTIVE.        *)
(***************************************************************************)
EXTENDS Naturals

CONSTANT Faults

VARIABLES
    phase,      \* phase[k]: "unset" before initialize, then the lifecycle
    armAt,      \* armAt[k], disarmAt[k]: the derived timestamps
    disarmAt,
    clock       \* the wall clock, in the detailed model's units

vars == <<phase, armAt, disarmAt, clock>>

Init ==
    /\ phase = [k \in Faults |-> "unset"]
    /\ armAt \in [Faults -> Nat] /\ disarmAt \in [Faults -> Nat]
    /\ clock = 0

\* initialize(spec, runStartTime): the state becomes PENDING.
Initialize(k) ==
    /\ phase[k] = "unset"
    /\ phase' = [phase EXCEPT ![k] = "pending"]
    /\ UNCHANGED <<armAt, disarmAt, clock>>

\* tick, first rule: PENDING -> ACTIVE when now >= armAt.
Arm(k) ==
    /\ phase[k] = "pending" /\ clock >= armAt[k]
    /\ phase' = [phase EXCEPT ![k] = "active"]
    /\ UNCHANGED <<armAt, disarmAt, clock>>

\* tick, second rule: ACTIVE -> STOPPED when now >= disarmAt.
Disarm(k) ==
    /\ phase[k] = "active" /\ clock >= disarmAt[k]
    /\ phase' = [phase EXCEPT ![k] = "stopped"]
    /\ UNCHANGED <<armAt, disarmAt, clock>>

Advance ==
    /\ clock' = clock + 1
    /\ UNCHANGED <<phase, armAt, disarmAt>>

Next == Advance \/ \E k \in Faults : Initialize(k) \/ Arm(k) \/ Disarm(k)

Spec == Init /\ [][Next]_vars
=============================================================================
