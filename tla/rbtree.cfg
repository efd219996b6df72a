SPECIFICATION Spec
CONSTANTS
  nil = nil
  Nodes = {1, 2, 3, 4, 5, 6, 7, 8, 9, 10}
  Nil = nil
  Key <- MCKey
INVARIANTS TypeOK LinksExact RedBlack IteratesInOrder
PROPERTIES ImplementsList FixupAdvances
