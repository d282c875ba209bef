SPECIFICATION Spec
CHECK_DEADLOCK FALSE
CONSTANTS
  Sizes <- TwoSizes
  Domains = 1
  Searched = {1}
  Lookups = {1, 2}
  Queries = {1, 2, 3}
INVARIANTS NoDangling OncePerConnection ListsExact Settled
