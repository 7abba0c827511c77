------------------------- MODULE MCWorkspaceInstances -------------------------
EXTENDS WorkspaceInstances
===============================================================================
