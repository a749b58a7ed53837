----------------------------- MODULE MCSconfApi -----------------------------
(* A small instance of SconfApi.                                           *)
EXTENDS SconfApi

CONSTANTS n1, b1

MCIndexOf == [b \in Brackets |-> 1]
=============================================================================
