--------------------------- MODULE MCInviteWorker ---------------------------
\* Model-checking instance of InviteWorker; bounds are in the .cfg file.
EXTENDS InviteWorker
=============================================================================
