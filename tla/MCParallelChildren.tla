--------------------------- MODULE MCParallelChildren ---------------------------
\* A counter of two bits, in which two pieces of work leave room for two threads and no more; a
\* third thread that is no worker; and Ctrl-C hit twice.
EXTENDS ParallelChildren

CONSTANT Push

MCThread == Worker \cup {Push}
MCIntMin == -9
================================================================================
