------------------------------- MODULE DemoRun -------------------------------
(***************************************************************************)
(* What demo mode promises of a run: "a bounded phase state machine", one  *)
(* phase after the other (enum DemoPhase, DemoModeService.tick), begun     *)
(* afresh by a person or the auto-loop and ended by disable.  The promise  *)
(* is off from when a tick has overwritten what another handler wrote      *)
(* since it read the row (torn) until the next run begins.                 *)
(***************************************************************************)

VARIABLES enabled, phase, torn

vars == <<enabled, phase, torn>>

Phase == {"IDLE", "BASELINE", "DEGRADING", "INCIDENT",
          "REMEDIATING", "RESOLVED", "RCA_REVIEW", "COOLDOWN"}

Successor ==
    [ BASELINE    |-> "DEGRADING",
      DEGRADING   |-> "INCIDENT",
      INCIDENT    |-> "REMEDIATING",
      REMEDIATING |-> "RESOLVED",
      RESOLVED    |-> "RCA_REVIEW",
      RCA_REVIEW  |-> "COOLDOWN",
      COOLDOWN    |-> "IDLE" ]

Init == ~enabled /\ phase = "IDLE" /\ ~torn

Begin == enabled' /\ phase' = "BASELINE" /\ ~torn'

Advance ==
    /\ enabled /\ ~torn /\ phase # "IDLE"
    /\ phase' = Successor[phase]
    /\ UNCHANGED <<enabled, torn>>

Disable == ~enabled' /\ phase' = "IDLE" /\ UNCHANGED torn

Tear == torn' /\ phase' \in Phase /\ UNCHANGED enabled

Next == Begin \/ Advance \/ Disable \/ Tear

Spec == Init /\ [][Next]_vars
=============================================================================
