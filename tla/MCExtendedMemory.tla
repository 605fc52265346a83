-------------------------- MODULE MCExtendedMemory --------------------------
\* Four pages: two blocks of XMS, and pages of EMS that take two of them each.
EXTENDS ExtendedMemory
=============================================================================
