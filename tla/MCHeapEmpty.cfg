\* Tuples without elements; four words.
CONSTANTS
  HeapWords = 4
  RegCount = 3
  MovedMarker = 912082
  Instructions <- MCEmpty

SPECIFICATION Spec

PROPERTIES
  ImplementsTermStore
