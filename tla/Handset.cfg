\* Two attempts of one operation with two screen handlers, and with one handler also another operation.
SPECIFICATION MCSpec
CONSTANTS
  j1 = j1  j2 = j2  j3 = j3  o1 = o1  o2 = o2  s1 = s1  h1 = h1  h2 = h2
  NoJob = NoJob
  Jobs = {j1, j2, j3}
  Operations = {o1, o2}
  Sims = {s1}
  Handlers = {h1, h2}
  OpOf <- MCOpOf
  SimOf <- MCSimOf
  Envelopes <- MCEnvelopes
INVARIANTS TypeOK OnePinPerOperation PinAnnounced PinsInFenceOrder AloneAmbiguityIsUnknown
PROPERTY SessionEnds
