SPECIFICATION Spec
CONSTANTS
  Requests = {q1, q2, q3}
  NoRequest = NoRequest
SYMMETRY RequestSymmetry
CONSTRAINT SomeInTime
INVARIANTS
  OneSuggestion
  ReferenceIsPosted
PROPERTIES
  DeletesOnlyOwn
  ImplementsProposalLife
