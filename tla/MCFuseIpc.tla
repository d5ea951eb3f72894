----------------------------- MODULE MCFuseIpc -----------------------------
EXTENDS FuseIpcService
=============================================================================
