SPECIFICATION Spec
CONSTANTS
  Spaces = {a, b}
  Handlers = {h1}
  Fields = {name, host, ipv6, forward}
  Identity = name
  Sent = {name, host}
  Dumped = {name, host, forward}
  Patchable = {name, host, ipv6}
  Requested = {{name}}
  Patches = {{host, ipv6, forward}}
  NoConfig = NoConfig
  CutOff = CutOff
  NoSpace = NoSpace
SYMMETRY Symmetry
VIEW View
CONSTRAINT FewAnomalies
INVARIANT
  ListsAllRunning
