CONSTANTS
  NPROC = 5
  UPROC_SIZE = 2
  Args <- MCArgs
SPECIFICATION Spec
INVARIANTS
  TypeOK
  GetprocsIsSnapshot
