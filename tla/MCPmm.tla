-------------------------------- MODULE MCPmm --------------------------------
(* A small machine for Pmm: 8 pages, page 0 below 1 MB, the kernel image on  *)
(* pages 1 and 2, the bitmap on the kernel's last page and on page 3.        *)
EXTENDS Pmm

MCMemoryMaps ==
  LET E(b, l, t) == [base |-> b, length |-> l, type |-> t]
      BiosRom == E(1000, 16, 2)
  IN {<<>>,
      \* low memory, main memory, the BIOS ROM below 4 GB
      <<E(0, 1, 1), E(1, 7, 1), BiosRom>>,
      \* a map whose last entry lies inside memory
      <<E(0, 1, 1), E(5, 1, 2)>>,
      \* every page the kernel leaves starts a region: nothing is free
      <<E(4, 1, 2), E(5, 1, 3), E(6, 1, 2), E(7, 1, 2), BiosRom>>}

\* A map with a two-page ACPI region in the middle of memory.
MCMapWithAcpi ==
  {<<[base |-> 0, length |-> 1, type |-> 1], [base |-> 1, length |-> 4, type |-> 1],
     [base |-> 5, length |-> 2, type |-> 3], [base |-> 7, length |-> 1, type |-> 1],
     [base |-> 1000, length |-> 16, type |-> 2]>>}

MCWords == {Nil, 4}
=============================================================================
