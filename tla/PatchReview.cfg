SYMMETRY Alike
SPECIFICATION Spec
CONSTANTS
  d1 = d1
  d2 = d2
  n1 = n1
  None = None
  Doc = {d1, d2, n1}
  NewDoc = {n1}
  Target = {{d1, d2}, {n1}}
  MaxTasks = 2
  MaxUpsets = 1

  
PROPERTIES
  
  WritesKeepTheRest
CHECK_DEADLOCK FALSE
