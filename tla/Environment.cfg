SPECIFICATION EnvSpec
CONSTANTS
  A = A
  Root = Root
  Port = Port
  d1 = d1
  d2 = d2
  p1 = p1
  p2 = p2
  x = x
  Names <- MCNames
  Texts <- MCTexts
  Dirs <- MCDirs
  Ports <- MCPorts
  DefaultPort = DefaultPort
  Missing = Missing
  Contents <- MCContents
  Configs <- MCConfigs
  Worlds <- MCWorlds
  SetValues <- MCSetValues
  MaxDepth = 3
  MaxLen = 3
  MaxEdits = 1
INVARIANT EnvTypeOK
PROPERTIES LoadedRight ConfigOfProject
