CONSTANTS
  NUM_TX_DESC = 4
  NUM_RX_BUF = 3
  PBUF_POOL = 3
  RAM_BUFS = 2
  WORD = 2
  TCP_SND_QUEUELEN = 2
  Others = 1
  CountMod = 3
SPECIFICATION FairSpec
INVARIANTS
  
  ReceivesAlone
  
  HandedOverInOrder
PROPERTIES
  ReceptionResumes
