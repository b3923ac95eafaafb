------------------------------ MODULE MCT2000 -------------------------------
EXTENDS T2000
=============================================================================
