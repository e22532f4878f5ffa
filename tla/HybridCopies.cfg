SPECIFICATION Spec
CONSTANTS
  Calls <- AllCalls
  MemorySize = 96
  LineSize = 4
  DmaMin = 6
  FillingMin = 8
  FramingMin = 16
  PadMaxDims = 3
  BusPort = 8
  MaxTensors = 3
INVARIANTS
  ResultInMemory
  NeighboursIntact
  EnginesStayInside
  NoDirtyLineUnderEngines
  EnginesOffBetweenTurns
PROPERTIES
  OperatorEnds
