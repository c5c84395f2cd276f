SPECIFICATION RadarFairSpec
CONSTANTS
  Polls = {p1, p2}
  s1 = s1
  Portals = {s1}
  Rpm <- MCRpm
  MinRpm = 1
  Minute = 1
  Identifiers = {"i1", "i2"}
  Aliases <- MCAliases
  Vocabulary <- MCVocabulary
  RawListings <- MCRawListings
  RobotsFiles <- MCRobotsFiles
  Absent = Absent
  PoolSizes = {2, 3}
  MaxBatch <- MCMaxBatch
  MaxFaults = 1
INVARIANTS DataIsSound
PROPERTIES BatchIsAtomic Spaced ExclusionRespected PollEnds
