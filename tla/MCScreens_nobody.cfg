CONSTANTS
  Asked <- MCAsked
SPECIFICATION Spec
INVARIANTS NobodySignedIn
