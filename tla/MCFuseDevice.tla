---------------------------- MODULE MCFuseDevice ----------------------------
EXTENDS FuseDevice
=============================================================================
