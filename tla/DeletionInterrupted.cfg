SPECIFICATION Spec
CONSTANTS
  app = app
  mcp = mcp
  shard = shard
  index = index
  image = image
  Clients = {app, mcp}
  Capturers = {app}
  Paths <- MCPaths
  Projection = index
  NoOwner = NoOwner
  Maintenance = Maintenance
  MaxOperations = 2
  MaxWrites = 2
INVARIANTS
  TypeOK
  GenerationsHold
PROPERTIES
  DeletedAsConfirmed
  ImplementsAtomicDeletion
