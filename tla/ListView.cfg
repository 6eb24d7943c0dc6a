SPECIFICATION Spec
CONSTANTS
  None = None
  Absent = Absent
  Items = {a, b}
  MaxLength = 3
  Watching <- MCWatching
  NestedCalls = {"set"}
  Mergeable <- MCMergeable
INVARIANTS Aligned ObserversTold ArrayReplayed
PROPERTY ShowsData
