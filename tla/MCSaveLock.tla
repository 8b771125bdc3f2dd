----------------------------- MODULE MCSaveLock -----------------------------
(* Two threads of the desktop app and one CLI run.                          *)
EXTENDS SaveLock

CONSTANTS t1, t2, t3, desktop, cli

MCProcessOf == [t \in Threads |-> IF t = t3 THEN cli ELSE desktop]
=============================================================================
