CONSTANTS
  NPROC = 4
  UPROC_SIZE = 2
  Args <- MCArgs
SPECIFICATION Spec
INVARIANT
  TableWithinBuffer
