SPECIFICATION PartsSpec
CONSTANTS
  MaxFrame = 5
  Width = 3
  MinCapacity = 3
  MaxCalls = 11
  c1 = c1
  c2 = c2
  WaterCell = {c1, c2}
  NoLayer = NoLayer
  Malformed = Malformed
  WaterBlobs <- Waters
  PlantBlobs <- Plants
  Axis <- PlacesAsked
  GridSize = 2
  GridLimit = 3
  MaxGridCells = 2
  MaxGeneration = 3
  e1 = e1
  e2 = e2
  path = path
  ScriptEntity = {e1, e2}
  ScriptPath = {path}
  ScriptConfigs <- Scripted
  Released = Released
  MaxScripts = 2
  CookCell = {0, 1}
  SideLength = 12
  NoNumber = 999
  MaxWaves = 2
  MaxCellBodies = 2
  MaxSceneBodies = 3
  MaxCoord = 100
  MaxHeaviness = 20
  MaxAmplitude = 9
  MaxSpecies = 3
  MaxDensity = 6
  MaxCellPlants = 30
  SampleAt <- GroundAt
  WaterTexts <- SceneTexts
  PlantTexts <- FloraTexts
  MaxCooks = 2
INVARIANTS HeldFrameWhole ScriptsSound
PROPERTIES LastFrameArrives RegisterSpec EveryItemArrives FifoSpec StoresExact
CHECK_DEADLOCK FALSE
