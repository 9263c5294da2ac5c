\* Two workers, an adapter of each kind, edits, a deletion and aborted syncs.
SPECIFICATION Spec
CONSTANTS
  empty = empty
  short = short
  long = long
  placeholder = placeholder
  Items = {i1}
  Texts = {empty, short, long}
  Size <- MCSize
  Placeholder = placeholder
  Nothing = nothing
  NoItem = noitem
  Workers = {w1, w2}
  Providers <- MCProviders
  MaxDocs = 3
  MaxEdits = 2
  MaxSyncs = 3
  MaxDeletes = 1
INVARIANTS TypeOK OneLiveDocument VersionHistory IndexSound
CHECK_DEADLOCK FALSE
