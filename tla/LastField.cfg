SPECIFICATION Spec
CONSTANTS
  Components <- LastFieldOnly
  Commands <- NoCommands
  SchemaId = 300
INVARIANT EveryFieldCanBeSent
