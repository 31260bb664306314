---- MODULE MCSetupEditor ----
EXTENDS SetupEditor
====
