-------------------------- MODULE MCMentionDispatch --------------------------
(* Instances of ThreadKernels for TLC: two events of one thread, the first   *)
(* of which may be delivered twice; the agent of the other uses a kernel.   *)
EXTENDS ThreadKernels, TLC

CONSTANTS a1, a2, b1, a, b, t1, x

MCEventOf  == [d \in Deliveries |-> IF d \in {a1, a2} THEN a ELSE b]
MCThreadOf == [e \in Events |-> t1]
MCRunOf    == [c \in Calls |-> b1]
=============================================================================
