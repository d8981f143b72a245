---------------------------- MODULE MCSessionAuth ----------------------------
(* Instances of SessionAuth for TLC.                                       *)
EXTENDS SessionAuth

CONSTANTS t1, t2, k0, k1, k2, k3

OneThread  == {t1}
TwoThreads == {t1, t2}
TwoKeys   == {k0, k1}
ThreeKeys == {k0, k1, k2}
FourKeys  == {k0, k1, k2, k3}

Requests == {"read", "write"}
Sessions == {"read", "create", "delete", "close"}
ReadClose == {"read", "close"}
AllOps   == {"read", "write", "create", "delete", "close"}
AnyStart == {"basic", "login", "resume"}
=============================================================================
