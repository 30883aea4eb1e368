\* One buffer less than blocks, so that buffers are recycled; descriptors for one
\* request, so that the other process waits for them.
CONSTANTS
  Procs = {p1, p2}
  Bufs = {b1, b2, b3}
  Blocks = {k1, k2, k3, k4}
  Vals = {v0, v1}
  NUM = 4
  MAXPIN = 1
  None = None
SPECIFICATION Spec
INVARIANTS OneBufferPerBlock  DescriptorsAccounted 
SYMMETRY Symmetry
