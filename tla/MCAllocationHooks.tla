------------------------- MODULE MCAllocationHooks -------------------------
(* Small instances of AllocationHooks.                                     *)
EXTENDS AllocationHooks

MCLabels == {"user", "Kokkos::"}
MCInternalLabels == {"Kokkos::"}
(* malloc_usable_size always answers; a pointer attribute query may fail.  *)
MCProbeOutcomes == [s \in Spaces |-> IF s = "Host" THEN {TRUE} ELSE BOOLEAN]
CudaOnly == {"Cuda"}
=============================================================================
