----------------------------- MODULE SpoolLock -----------------------------
(***************************************************************************)
(* What the processor lock of the spool promises: one holder, which takes  *)
(* the lock when it is free and is the only one to give it back.  A holder *)
(* that goes away without that leaves the lock taken, and nothing frees it *)
(* again.                                                                  *)
(***************************************************************************)
CONSTANT Holder

VARIABLES holders, taken

lockVars == <<holders, taken>>

LockInit == holders = {} /\ taken = FALSE

Take(h) == ~taken /\ taken' = TRUE /\ holders' = {h}

Give(h) == holders = {h} /\ taken' = FALSE /\ holders' = {}

Abandon(h) == holders = {h} /\ holders' = {} /\ UNCHANGED taken

LockNext == \E h \in Holder : Take(h) \/ Give(h) \/ Abandon(h)

LockSpec == LockInit /\ [][LockNext]_lockVars
=============================================================================
