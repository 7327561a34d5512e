SPECIFICATION FairSpec
CONSTANTS
  Client = {c1, c2}
  Pool = {"h1", "h2"}
  MaxLines = 2
  Acts = {"reply", "printAll", "throw", "stop"}
INVARIANTS BegunInOrder 
PROPERTIES StopsOnceBegun
CHECK_DEADLOCK FALSE
