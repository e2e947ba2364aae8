------------------------------ MODULE Severity ------------------------------
(***************************************************************************)
(* The severity policy, a static table in the code (SEVERITY_LEVELS).      *)
(* Every duration in it is a multiple of five minutes, and five minutes is *)
(* the unit of time of the modules that extend this one.                   *)
(***************************************************************************)
EXTENDS Naturals

Severity == {"SEV1", "SEV2", "SEV3", "SEV4"}

SeverityLevels ==
    [ SEV1 |-> [ackSla |-> 1,  resolveSla |-> 12,  escalateAfter |-> 2,  chain |-> 3],
      SEV2 |-> [ackSla |-> 3,  resolveSla |-> 48,  escalateAfter |-> 6,  chain |-> 2],
      SEV3 |-> [ackSla |-> 12, resolveSla |-> 288, escalateAfter |-> 24, chain |-> 1],
      SEV4 |-> [ackSla |-> 48, resolveSla |-> 864, escalateAfter |-> 96, chain |-> 1] ]

\* P1 and P2 need an approved RCA report before they are closed.
RequiresRcaToClose(severity) == severity \in {"SEV1", "SEV2"}

=============================================================================
