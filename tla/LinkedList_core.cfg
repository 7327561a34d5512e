SPECIFICATION Spec
CONSTANTS
  Node = {n1, n2, n3, n4}
  Item = {i1, i2}
  NULL = NULL
INVARIANT Linked
PROPERTY ImplementsCursorList
