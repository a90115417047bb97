---- MODULE MCEventSource ----
EXTENDS EventSource
====
