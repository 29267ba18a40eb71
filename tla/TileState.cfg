CONSTANTS
  Regions = {north, south}
  Renderable = {1}
  MaxVersion = 1
SPECIFICATION Spec
INVARIANTS
  TileShowsTheWorld
  BoundsRespected
