------------------------------ MODULE DegradationMC ------------------------------
(* Small instances of Degradation for TLC. *)
EXTENDS Degradation

CONSTANTS segment, snowflake, uuid_v7, w1, check

AllAlgorithms == {segment, snowflake, uuid_v7}
Built         == {segment, snowflake}
Fallbacks     == <<snowflake>>
OneWorker     == {w1}
================================================================================
