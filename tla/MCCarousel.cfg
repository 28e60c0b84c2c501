SPECIFICATION CarouselSpec
CONSTANTS
  Modules <- ThreeModules
  LastVersion = 1
  ModuleSize <- Sizes
  BlockSize = 2
  ObjectCarousel = TRUE
  NoVersion = NoVersion
INVARIANTS
  FsWhole
  LinkRight
PROPERTIES
  Mounted
CHECK_DEADLOCK FALSE
