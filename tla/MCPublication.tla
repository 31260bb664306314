---- MODULE MCPublication ----
EXTENDS Publication
====
