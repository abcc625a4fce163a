\* Two texts, two branches.
SPECIFICATION DraftsSpec
CONSTANTS
  Prose = {a, b}
  Heads = {main, topic}
PROPERTY
  SavedUntilOpened
