------------------------------ MODULE MCModemApp ------------------------------
EXTENDS ModemApp

\* A version other than 4 and 6.
MCVersions == {4, 6, 5}

\* A SIM file table of one mandatory entry.
MCSimFiles == 1 .. 1
MCSimMandatory == {1}

=============================================================================
