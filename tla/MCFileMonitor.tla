--------------------------- MODULE MCFileMonitor ---------------------------
(* FileMonitor for TLC: instance.cfg, one dashboard and the log.             *)
EXTENDS FileMonitor

CONSTANTS cfg, view, log
=============================================================================
