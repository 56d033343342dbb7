SPECIFICATION SessionSpec
CONSTANTS
  FrameBytes = 24
  SyncBytes = 4
  SyncSeq = SyncSeq
  Spoilt = Spoilt
  MaxFaults = 2
  CellMax = 63
  Payload = 5
  AckByte = 6
  RetByte = 7
  UpReqByte = 26
  LengthMax = 6
  Files <- MCFiles
  WaitLimit = 3
  SyncLimit = 5
  PageCells = 8
  FlashPages = 4
  SigCells = 2
  Behind <- MCBehind
  Builds <- MCBuilds
  BootloaderCells = 16
  StartPage = 1
  EndPage = 2
  MaxFw = 16
  Timeout = 3
  Packets <- MCPackets
  BootImageCells = 8
  Provisioned <- MCOld
  FactoryFirmware <- MCNone
  MaxPackets = 20
  MaxResets = 2
CHECK_DEADLOCK FALSE
INVARIANTS SessionTypeOK SuccessIsTrue TransferIsPrefix FailureIsTrue NoBreakpoint UpdateIsGenuine
PROPERTIES HostEnds BootEnds SuccessIsInstalled CleanUpdateSucceeds
