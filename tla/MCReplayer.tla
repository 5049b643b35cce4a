----------------------------- MODULE MCReplayer -----------------------------
(* Small instances of Replayer.                                            *)
EXTENDS Replayer

Entry(id, space, label, range, size, bytes) ==
    [id |-> id, space |-> space, label |-> label, address |-> id, range |-> range,
     size |-> size, bytes |-> bytes]

(* Two host allocations with one label in one range, an empty one and one  *)
(* on the device.  The kernel writes the first and the last.               *)
First(bytes) == Entry(1, "Host", "v", 1, 1, bytes)
Second(bytes) == Entry(2, "Host", "v", 1, 1, bytes)
Empty == Entry(3, "Host", "e", 1, 0, 0)
OnDevice(bytes) == Entry(4, "CudaHostPinned", "d", 3, 1, bytes)
Hosts == {First(10), Second(20), Empty}
HostOutputs == {First(11), Second(20), Empty}

Dump(in, out, policy, functor) ==
    [in |-> in, out |-> out, metadata |-> [m \in {"key"} |-> policy], policy |-> policy,
     functor |-> functor]

HostDump == Dump(Hosts, HostOutputs, "range", {1})
DeviceDump == Dump(Hosts \cup {OnDevice(40)}, HostOutputs \cup {OnDevice(41)}, "none", {1, 4})

(* The dumps, by the name of their file. *)
DumpList ==
    <<HostDump, DeviceDump,
     \* an input or an output that was skipped, a damaged output, a truncated /out, no /out
     [HostDump EXCEPT !.in = {First(Skipped), Second(20)}],
     [DeviceDump EXCEPT !.in = Hosts \cup {OnDevice(Damaged)}],
     [HostDump EXCEPT !.out = {First(Skipped), Second(20)}],
     [HostDump EXCEPT !.out = {First(11), Second(Damaged)}],
     [HostDump EXCEPT !.out = Missing],
     \* what another thread did during the kernel: a new allocation, and addresses reused
     [HostDump EXCEPT !.out = HostOutputs \cup {Entry(5, "Host", "n", 1, 1, 50)}],
     [HostDump EXCEPT !.out = {First(11), Entry(2, "Host", "n", 1, 1, 50)}],
     [HostDump EXCEPT !.out = {First(11), Entry(2, "Host", "v", 1, 2, 50)}],
     [HostDump EXCEPT !.out = {First(11), Second(50)}],
     \* an allocation twice
     [HostDump EXCEPT !.in = Hosts \cup {Entry(1, "Host", "w", 1, 1, 60)}],
     \* a range that is in use, an incomplete /in, an execution space that is not enabled
     [HostDump EXCEPT !.in = Hosts \cup {Entry(6, "Host", "v", 2, 1, 60)}],
     [HostDump EXCEPT !.metadata = Missing],
     [HostDump EXCEPT !.functor = Missing],
     [HostDump EXCEPT !.policy = "unsupported"]>>

FileNames == <<"host.h5", "device.h5", "c.h5", "d.h5", "e.h5", "f.h5", "g.h5", "h.h5", "i.h5",
               "j.h5", "k.h5", "l.h5", "m.h5", "n.h5", "o.h5", "p.h5">>
Named(n) == [name \in {FileNames[i] : i \in 1 .. n} |->
               DumpList[CHOOSE i \in 1 .. n : FileNames[i] = name]]
MCFiles == Named(Len(DumpList))
TwoFiles == Named(2)

Program0 == <<Word("replay")>>
Assigned(file) == [name |-> DumpOption, value |-> file]
Reset == Word(ResetFlag)
Option == Word(DumpOption)
Other == Word("--other")

(* Every file with and without the flag, as one word or as two. *)
Plain == {Program0 \o <<Assigned(f)>> : f \in DOMAIN Files}
WithReset == {Program0 \o <<Option, Word(f), Reset>> : f \in DOMAIN Files}

(* Options that are repeated, last, interleaved with others or without an  *)
(* argument, and files that do not exist.                                  *)
OddLines ==
    {Program0, Program0 \o <<Option>>, Program0 \o <<Reset, Other, Option>>,
     Program0 \o <<Option, Reset>>, Program0 \o <<Option, Reset, Word("host.h5")>>,
     Program0 \o <<Other, Option, Word("host.h5"), Other, Reset, Word("x"), Reset>>,
     Program0 \o <<Assigned("host.h5"), Assigned("device.h5"), Word("x"), Other>>,
     Program0 \o <<Option, Option, Word("host.h5")>>,
     Program0 \o <<[name |-> ResetFlag, value |-> "1"], Option, Assigned("host.h5")>>,
     Program0 \o <<Other, Assigned("missing.h5"), Word("host.h5")>>}

MCCommandLines == Plain \cup WithReset \cup OddLines
PlainLines == Plain
=============================================================================
