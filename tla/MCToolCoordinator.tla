------------------------- MODULE MCToolCoordinator --------------------------
EXTENDS ToolCoordinator

CONSTANTS c1
=============================================================================
