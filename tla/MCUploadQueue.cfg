SPECIFICATION Spec
CONSTANTS
  Handlers = {h1, h2}
  Workers = {w1}
  Urls <- MCUrls
  Priority <- MCPriority
  Cellular <- MCCellular
  MaxRetryCount = 1
  MaxItems = 2
VIEW MCView
INVARIANTS OneCopyPerItem
PROPERTIES ImplementsUploads EveryItemFinishes EndEventEndsThreads
