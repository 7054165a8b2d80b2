\* Six words, three registers.
CONSTANTS
  HeapWords = 6
  RegCount = 3
  MovedMarker = 912082
  Instructions <- MCInstructions

SPECIFICATION Spec

INVARIANTS
  TypeOK
  ReferencesSound
  NothingButLive

PROPERTIES
  ImplementsTermStore
  CollectionEnds
