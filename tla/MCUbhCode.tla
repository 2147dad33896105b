----------------------------- MODULE MCUbhCode -----------------------------
(* UbhCode for every function with at most two parameters and two locals of  *)
(* the types given; V128 stands for the types without a register file.       *)
EXTENDS UbhCode

MCTypes == {"I32", "I64", "F64", "V128"}

MCFuncs == [params : BoundedSeq(MCTypes, 2), locals : BoundedSeq(MCTypes, 2)]
=============================================================================
