-------------------------------- MODULE MCVmm --------------------------------
(* Vmm on a machine of a few pages. *)
EXTENDS Vmm, FiniteSets

\* Bound of the runs: how many translations are cached at a time.
CONSTANT MaxCached
CacheBound == Cardinality(tlb) <= MaxCached

\* What is left in pages that are neither a directory nor a table is never
\* read: states that differ in nothing else are taken for one.
Live ==
  <<free, held, dirs, current_directory, tlb,
    [d \in AllDirs |-> pde[d]], {e \in pde_user : e[1] \in AllDirs},
    [t \in Tables |-> pte[t]], {e \in pte_user : e[1] \in Tables}>>
=============================================================================
