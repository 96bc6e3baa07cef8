SPECIFICATION Spec
CONSTANTS
  PathOrder <- MCPathOrder
  Content = {"c1"}
  TarLayers <- MCTarLayers
  Sources <- MCSources
  RemovesCopies = FALSE
  CopiesToLinks = FALSE
  CopiesToHardLinks = FALSE
  Broken = Broken
  MaxTime = 3
INVARIANTS
  MemFSInvariant
  ImageIsDisk
  LayerStandsAlone
CHECK_DEADLOCK FALSE
