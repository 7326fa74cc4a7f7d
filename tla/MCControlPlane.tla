---------------------------- MODULE MCControlPlane ----------------------------
EXTENDS ControlPlane

\* Two outputs or one: applying the same topology again reconfigures nothing.
MCTopologies == {"wide", "narrow"}
MCOutputs == [t \in MCTopologies |-> IF t = "wide" THEN 2 ELSE 1]
=============================================================================
