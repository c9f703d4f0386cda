CONSTANTS
  CacheSize = 4
  w = w  i1 = i1  i2 = i2  i3 = i3  i4 = i4
  Ids = {w, i1, i2, i3, i4}
  Watched = w
  Commands = {"set_fin_zero", "run_preflight_calibration"}
  Payloads = {"zero"}
  Contexts <- MCContexts
  Failures = {"device_unavailable"}
SYMMETRY Symmetric
SPECIFICATION MCSpec
INVARIANTS CacheIsSound ConflictsAreRefused
PROPERTIES OutcomesAreKept ReplayedWithinWindow
