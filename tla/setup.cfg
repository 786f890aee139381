SPECIFICATION Spec
CONSTANTS
  Written <- SomeKeys
  Chunks <- TerminalOrPipe
INVARIANTS
  TypeOK
  LaterOverrides
  EnvsRoundTrip
  RestoresWhatWasAsked
  ActsOnConsent
CHECK_DEADLOCK FALSE
