------------------------------- MODULE MCFleet -------------------------------
EXTENDS Fleet
=============================================================================
