------------------------------- MODULE MCGCSFS -------------------------------
\* Small instances of GCSFS for TLC.
EXTENDS GCSFS, Workload
=============================================================================
