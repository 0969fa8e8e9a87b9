---------------------------- MODULE MCPanelNudge ----------------------------
\* Model-checking instance of PanelNudge; bounds are in the .cfg file.
EXTENDS PanelNudge
=============================================================================
