--------------------------- MODULE MCFleetConsole ---------------------------
EXTENDS FleetConsole, TLC

CONSTANTS a1, a2
=============================================================================
