----------------------------- MODULE MCActuator -----------------------------
(* A small instance of Actuator for TLC.                                    *)
EXTENDS Actuator

\* North, as seen from below: YAW_MAX_DEG.
MCYawAngles == {Circle}

\* A pitch in range and one out of range.
MCPitchAngles == {0, -1}
=============================================================================
