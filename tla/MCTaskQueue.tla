----------------------------- MODULE MCTaskQueue -----------------------------
(* The TaskQueue model.                                                    *)
EXTENDS TaskQueue, TLC
=============================================================================
