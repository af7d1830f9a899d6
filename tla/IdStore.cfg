SPECIFICATION Spec
CONSTANTS
  slash = slash
  a = a
  b = b
  B = B
  EntryA = EntryA
  EntryB = EntryB
  Root = Root
  None = None
  Path <- Paths
  Entry = {Root, EntryA, EntryB}
  Denotes <- Leads
  Careful = {Root, EntryA}
  MaxId = 2
  MaxIter = 1
SYMMETRY Symmetry
INVARIANT TypeOK
INVARIANT OneIdPerName
INVARIANT NamesExist
INVARIANT MapsAgree
INVARIANT OneKindPerId
INVARIANT StatIsOfHandle
PROPERTY OpenGivesHandle
PROPERTY IdsNotReused
PROPERTY StaleOnlyOnError
