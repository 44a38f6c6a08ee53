\* Three places, so that a clone of a clone, or two clones of one original,
\* meet; an i64 that counts to 5, thresholds on both sides of it and the
\* "never" of 0; requests of nothing, below, at and above the threshold, up to
\* the longest slice; four seeds, so that each generator may be reseeded.
CONSTANTS
  Gens = {g1, g2, g3}
  MaxI64 = 5
  Thresholds = {0, 2, 7}
  Requests = {0, 1, 5}
  MaxSeeds = 4
SPECIFICATION Spec
INVARIANTS TypeOK ReseedDue DistinctStreams
PROPERTIES RetriesSpaced
