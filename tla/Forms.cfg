SPECIFICATION Spec
CONSTANTS
  Boxes = {"m", "n"}
  Radios <- MCRadios
  Typed = {"", "s"}
  Settings <- MCSettings
  Reaction <- MCReaction
INVARIANT ShowsForm
PROPERTY UserDecides
