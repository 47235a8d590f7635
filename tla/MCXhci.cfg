SPECIFICATION Spec
CONSTANTS
  Ports = 2
  DevCnt = 2
  MaxSlot = 3
  RingTrbs = 12
  Configs <- MCConfigs
  Descs <- MCDescs
  Reports = 1
  Lingering = FALSE
INVARIANTS WaiterReady RingsAgree
PROPERTIES Enumerated
