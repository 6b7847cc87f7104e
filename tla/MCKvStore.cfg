SPECIFICATION Spec
CONSTANTS
  Keys = {1, 2, 3, 4}
  Values = {7, 8}
  MaxElem = 3
  Garbage <- MCGarbage
INVARIANTS TypeOK Sorted Window LogSearch
PROPERTIES Implements CallReturns
