\* Tuples with references; four words.
CONSTANTS
  HeapWords = 4
  RegCount = 3
  MovedMarker = 912082
  Instructions <- MCNested

SPECIFICATION Spec

PROPERTIES
  ImplementsTermStore
