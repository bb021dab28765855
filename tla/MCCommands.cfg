CONSTANTS
  Root <- MCRoot
  TempNames <- MCTempNames
  MaxWalk = 25
  Home <- MCHome
  Calls <- MCCalls
  Patches <- MCPatches
  Reads <- MCReads
  Listings <- MCListings
  Searches <- MCSearches
  MaxCalls = 2
  Running <- MCRunning
  Working <- MCWorking
SPECIFICATION Spec
PROPERTIES ChangesOnlyWhatItNames FilesKept ArchivesRestore ListingsAreRight LinesShown PatchKeepsTheRest
CHECK_DEADLOCK FALSE
