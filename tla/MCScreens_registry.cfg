CONSTANTS
  Asked <- MCAsked
SPECIFICATION Spec
INVARIANTS RegistryRefusalEnds
