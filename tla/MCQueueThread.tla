---------------------------- MODULE MCQueueThread -----------------------------
(* Small instance of QueueThread: two threads, three events, one of which  *)
(* the handler leaves with the thread.                                     *)
EXTENDS QueueThread

CONSTANTS t1, t2, e1, e2, e3

MCThread == {t1, t2}
MCEvent == {e1, e2, e3}
MCKept == {e3}
=============================================================================
