SPECIFICATION FairSpec
CONSTANTS
  CellMax = 63
  PageCells = 8
  FlashPages = 4
  SigCells = 2
  BootloaderCells = 16
  StartPage = 1
  EndPage = 2
  MaxFw = 16
  Timeout = 1
  Payload = 8
  UpReqByte = 26
  LengthMax = 10
  BootImageCells = 8
  MaxPackets = 14
  MaxResets = 1
  Behind <- MCBehind
  Builds <- FitBuilds
  Packets <- LivePackets
  Provisioned <- OldBuild
  FactoryFirmware <- OldBuild
CHECK_DEADLOCK FALSE
PROPERTY DecidesUnlessFed
