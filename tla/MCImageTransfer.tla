--------------------------- MODULE MCImageTransfer ---------------------------
(* One or two images that share a layer, for the runs of ImageTransfer. *)
EXTENDS ImageTransfer, TLC

CONSTANTS base, config1, config2, image1, image2

Layers == [i \in Image |-> {base}]
Configs == [i \in Image |-> IF i = image1 THEN config1 ELSE config2]

Symmetry == Permutations(Worker)

=============================================================================
