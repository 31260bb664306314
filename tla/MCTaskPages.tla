---- MODULE MCTaskPages ----
EXTENDS TaskPages
====
