------------------------------ MODULE MCServices ------------------------------
EXTENDS BackgroundServices
=============================================================================
