\* A four-byte page, a size_t that wraps at 16, six pages of which the middle one
\* belongs to the rest of the process.  Requests cover zero, exact pages, one byte
\* past a page, and both sides of the overflow test.
SPECIFICATION Spec
CONSTANTS
  PageSize = 4
  SizeMax = 15
  NumPages = 6
  Foreign = {3}
  Requests = {0, 1, 4, 5, 12, 13}
INVARIANTS TableMatchesKernel HeldIsBacked NoLeak
PROPERTIES OnlyAddressedPagesChange
