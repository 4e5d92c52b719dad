SPECIFICATION LiveSpec
CONSTANTS
  h1 = h1  h2 = h2  n1 = n1  n2 = n2  n3 = n3  n4 = n4
  Null = Null
  Heads = {h1, h2}
  Nodes = {n1, n2, n3, n4}
  Key <- Keys
INVARIANTS LinksConsistent
PROPERTIES ImplementsLists InsertByEnds
