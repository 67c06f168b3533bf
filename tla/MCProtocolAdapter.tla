-------------------------- MODULE MCProtocolAdapter --------------------------
EXTENDS ProtocolAdapter
=============================================================================
