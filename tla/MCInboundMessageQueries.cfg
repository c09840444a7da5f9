CONSTANTS
  Requests <- MCRequests
  Garbage = Garbage

SPECIFICATION Spec

INVARIANT QueriesAreSurvived
