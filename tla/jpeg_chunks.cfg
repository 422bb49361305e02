SPECIFICATION Spec
CONSTANTS
  Sendings <- CameraSendings
  FieldLen = 4
CHECK_DEADLOCK FALSE
INVARIANTS TypeOK ChunkIndependent PacketsArrive
