----------------------------- MODULE MCStartUp -----------------------------
EXTENDS StartUp

=============================================================================
