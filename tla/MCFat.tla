--------------------------------- MODULE MCFat ---------------------------------
(* Fat on volumes of a few clusters. *)
EXTENDS Fat

\* What a free cluster contains, and what entries a file's data looks like, is read
\* only where the zeros of a new directory fail, and behind a ruined directory
\* nothing is asserted: states that differ in nothing else are taken for one.
ReadAgain == ("zero" \in Faults /\ faults < MaxFaults) \/ op.pc = "dots"
View ==
  IF ruined THEN <<ruined>>
  ELSE <<fat, root, op, faults, last,
         [c \in Clusters |-> <<IF fat[c] = 0 THEN <<>> ELSE <<data[c].owner, data[c].part>>,
                               IF ReadAgain \/ (fat[c] # 0 /\ data[c].owner = <<>>)
                               THEN data[c].slots ELSE <<>> >>]>>
================================================================================
