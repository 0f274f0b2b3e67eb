\* Two operations, of every shape and format after every other.
CONSTANTS
  ce_height = 2
  TileWidth = 2
  bandwidth = 4
  queue_depth = 2
  Shapes <- SmallShapes
  Formats = {0, 1, 5}
  X = 1000
  W = 2000
  Y = 3000
  MaxOps = 2
SPECIFICATION Spec
INVARIANT TypeOK
INVARIANT PipelineInStep
PROPERTY ImplementsMatrixEngine
