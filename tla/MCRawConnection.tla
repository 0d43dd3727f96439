-------------------------- MODULE MCRawConnection --------------------------
(* RawConnection on small instances: one consumer and one unread event, as  *)
(* EventQueue has runs of its own.                                          *)
EXTENDS RawConnection, TLC

Callers == Permutations(Caller)
=============================================================================
