SPECIFICATION Spec
CONSTANTS
  CellMax = 63
  PageCells = 8
  FlashPages = 4
  SigCells = 2
  BootloaderCells = 16
  StartPage = 1
  EndPage = 2
  MaxFw = 16
  Timeout = 1
  Payload = 8
  UpReqByte = 26
  LengthMax = 10
  BootImageCells = 8
  MaxPackets = 3
  MaxResets = 0
  Behind <- MCBehind
  Builds <- FitBuilds
  Packets <- ReplayPackets
  Provisioned <- NewBuild
  FactoryFirmware <- NoBuild
CHECK_DEADLOCK FALSE
INVARIANT ReplayRefused
