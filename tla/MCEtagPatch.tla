----------------------------- MODULE MCEtagPatch -----------------------------
(* Instances of EtagPatch for TLC.                                         *)
EXTENDS EtagPatch

CONSTANTS t1, t2

OneThread  == {t1}
TwoThreads == {t1, t2}

Anywhere   == SUBSET Places
HeaderOnly == {{"header"}}
BodyOnly   == {{"body"}}
=============================================================================
