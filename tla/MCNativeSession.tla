-------------------------- MODULE MCNativeSession --------------------------
EXTENDS NativeSession
=============================================================================
