----------------------------- MODULE MCWorkingSave -----------------------------
\* Small instances of WorkingSave for TLC: all constants come from the .cfg files.
EXTENDS WorkingSave
=============================================================================
