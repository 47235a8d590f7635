SPECIFICATION ScanSpec
CONSTANTS
  MaxWire = 4
  MaxHeld = 2
  MaxStrokes = 2
INVARIANTS DecodesWhatWasTyped
