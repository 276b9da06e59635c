------------------------- MODULE MCRuntimeSupervisor -------------------------
\* One recovery at a time, two observations to the monitor's threshold, one
\* restart per name before recovery is given up, two faults of any kind.
EXTENDS RuntimeSupervisor
=============================================================================
