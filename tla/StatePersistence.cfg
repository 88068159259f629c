SPECIFICATION Spec
CONSTANTS
  w1 = w1
  w2 = w2
  w3 = w3
  Writer <- MCWriter
  MaxVersion = 5
INVARIANTS
  ReturnedIsDurable
  NothingForgotten
PROPERTIES
  ImplementsRegister
