------------------------- MODULE MCAlwaysOnMonitor -------------------------
(* The monitor on small instances: one source, a handful of lines.          *)
EXTENDS AlwaysOnMonitor
=============================================================================
