\* Three handler objects for three status codes.
SPECIFICATION Spec
CONSTANTS
  Handlers = {h1, h2, h3}
  Codes = {bad_request, not_found, internal_server_error}
  NoCode = NoCode
  NoHandler = NoHandler
INVARIANTS
  EntriesBelongToHandles
PROPERTY ImplementsRegistry
