CONSTANTS
  Images <- TwoImages
  Pages <- TwoLengths
  PAGE = 2
  SECTOR = 1
  FlashFails = TRUE
  FileFails = FALSE
  HostWaits = TRUE
SPECIFICATION FairSpec
INVARIANTS
  
  
  AcknowledgedIsHandled
  CompleteDownloadIsWhole
PROPERTIES
  ResetStartsApplication
