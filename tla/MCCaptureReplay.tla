-------------------------- MODULE MCCaptureReplay --------------------------
(* Small instances of CaptureReplay.                                       *)
EXTENDS CaptureReplay

CONSTANT t1

OneThread == {t1}
MCSpaces == {"Host"}
UserLabels == {"user"}
NoLabels == {}
MCProbeOutcomes == [s \in Spaces |-> {TRUE}]
TwoLabels == {"k", "other"}

Label(l) == [option |-> "label", label |-> l]
Invocation(n) == [option |-> "invocation", number |-> n]

(* Repeated, invalid and missing options. *)
AnyArgs == {<<Label("k"), Invocation(2)>>,
            <<Label(EmptyLabel), Invocation(2), Invocation(-1), Label("k")>>, <<Label("k")>>}
=============================================================================
