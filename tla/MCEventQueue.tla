---- MODULE MCEventQueue ----
EXTENDS EventQueue
====
