\* Five pages, so that up to five functions live at a time and addresses are
\* reused; two hash buckets in use, with chains of two.
SPECIFICATION Spec
CONSTANTS
  PageSize = 4
  SizeMax = 15
  NumPages = 5
  Foreign = {}
  HashSize = 8
  Requests = {0, 4, 5}
INVARIANTS EntriesOwnBlocks CodeIsSealed NothingOrphaned
PROPERTIES KeepsPromise
CHECK_DEADLOCK FALSE
