--------------------------- MODULE DumpLifecycle ---------------------------
(***************************************************************************)
(* What the capture tool promises about its dump, without threads, locks   *)
(* or Kokkos: a process writes one dump at most.  Its input part is        *)
(* published once, complete, and is never touched again; the output part   *)
(* is appended at most once, to a published input only.                    *)
(***************************************************************************)
CONSTANT Nothing

VARIABLES
    phase,   \* how far the dump is
    owner,   \* launch it was made for
    input,   \* published input part
    output   \* published output part

lifecycleVars == <<phase, owner, input, output>>

LifecycleInit ==
    /\ phase = "none"
    /\ owner = Nothing /\ input = Nothing /\ output = Nothing

(* The file of the dumped launch is created. *)
Create ==
    /\ phase = "none" /\ phase' = "creating"
    /\ owner' # Nothing
    /\ UNCHANGED <<input, output>>

(* The input part is complete and the file is closed. *)
Publish ==
    /\ phase = "creating" /\ phase' = "published"
    /\ input' # Nothing
    /\ UNCHANGED <<owner, output>>

(* Writing the input failed: the dump is never continued. *)
Abandon ==
    /\ phase = "creating" /\ phase' = "abandoned"
    /\ UNCHANGED <<owner, input, output>>

(* The file is opened again for the output part. *)
Append ==
    /\ phase = "published" /\ phase' = "appending"
    /\ UNCHANGED <<owner, input, output>>

(* The output part is complete. *)
Complete ==
    /\ phase = "appending" /\ phase' = "completed"
    /\ output' # Nothing
    /\ UNCHANGED <<owner, input>>

(* Writing the output failed: the published input remains. *)
Truncate ==
    /\ phase = "appending" /\ phase' = "truncated"
    /\ UNCHANGED <<owner, input, output>>

LifecycleNext == Create \/ Publish \/ Abandon \/ Append \/ Complete \/ Truncate

LifecycleSpec == LifecycleInit /\ [][LifecycleNext]_lifecycleVars

(* A dump is not left open: whatever part is being written is completed or *)
(* given up.                                                               *)
Settles ==
    /\ phase = "creating" ~> phase \in {"published", "abandoned"}
    /\ phase = "appending" ~> phase \in {"completed", "truncated"}

=============================================================================
