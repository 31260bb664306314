---- MODULE MCAskPanel ----
EXTENDS AskPanel
====
