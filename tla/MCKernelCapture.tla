-------------------------- MODULE MCKernelCapture --------------------------
(* Small instances of KernelCapture.                                       *)
EXTENDS KernelCapture, TLC

CONSTANTS t1, t2

OneThread == {t1}
TwoThreads == {t1, t2}
ThreadSymmetry == Permutations(TwoThreads)

MCSpaces == {"Host"}
UserLabels == {"user"}
NoLabels == {}
MCProbeOutcomes == [s \in Spaces |-> {TRUE}]

OneLabel == {"k"}

Label(l) == [option |-> "label", label |-> l]

FirstInvocation == {<<Label("k")>>}
=============================================================================
