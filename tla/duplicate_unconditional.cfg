CONSTANTS
  c1 = c1
  c2 = c2
  f = f
  e1 = e1
  e2 = e2
  s1 = s1
  undef = undef
  yes = yes
  no = no
  five = five
  list = list
  null = null
  nothing = nothing
  Fields = {f}
  Values <- MCValues
  Yes = yes
  No = no
  Missing = {undef}
  Primitives = {undef, yes, no, five}
  Arrays = {list}
  NumberOf <- Numbers
  ElementsOf <- Elements
  Clients = {c1, c2}
  Requests <- MCRequests
  Stores <- MCStores
  Events = {e1, e2}
  Services = {s1}
  NoService = null
  Nothing = nothing
  MaxRequests = 2
  FaultSets <- Bare
SYMMETRY Interchangeable
SPECIFICATION Spec
CHECK_DEADLOCK FALSE
INVARIANT
  DuplicatesRefused
