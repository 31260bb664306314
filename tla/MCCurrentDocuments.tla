------------------------- MODULE MCCurrentDocuments -------------------------
EXTENDS CurrentDocuments
=============================================================================
