-------------------------- MODULE MCInstanceProtocol --------------------------
(* Instances of InstanceProtocol for TLC.                                    *)
EXTENDS InstanceProtocol

CONSTANTS p1, p2, p3
=============================================================================
