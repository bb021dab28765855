SPECIFICATION Spec
CONSTANTS
  Theme <- MCTheme
  MaxChunks = 5
  Reading <- MCReading
  Printing <- MCPrinting
  Accepts <- MCAccepts
INVARIANTS
  PrintedIsSame
  QuotingIsSound
  FinalStays
CHECK_DEADLOCK FALSE
