CONSTANTS
  Asked <- MCAsked
SPECIFICATION Spec
INVARIANTS NoticeWhenRefused
