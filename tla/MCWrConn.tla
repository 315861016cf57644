------------------------------ MODULE MCWrConn ------------------------------
EXTENDS WrConn
=============================================================================
