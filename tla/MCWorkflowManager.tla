--------------------------- MODULE MCWorkflowManager ---------------------------
EXTENDS WorkflowManager
===============================================================================
