---------------------------- MODULE MCRunConsole ----------------------------
EXTENDS RunConsole
=============================================================================
