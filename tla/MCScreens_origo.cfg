CONSTANTS
  Asked <- MCAsked
SPECIFICATION Spec
INVARIANTS OrigoRefusalEnds
