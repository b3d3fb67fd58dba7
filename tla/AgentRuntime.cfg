SPECIFICATION FairSpec
CONSTANTS
  f = f
  s = s
  a = a
  b = b
  c = c
  trace = trace
  otlp = otlp
  file = file
  Workers = {f, s}
  Kind <- MCKind
  Configs = {a, b, c}
  StartConfig = a
  Signals = {trace}
  Exporters = {otlp, file}
  Built <- MCBuilt
  Route <- MCRoute
  max_items = 2
  MaxRecords = 2
  MaxReloads = 1
  MaxRestarts = 1
INVARIANT BatchStaysNext
INVARIANT ExportersCurrent
INVARIANT AtLeastOnce
PROPERTY AcceptedCommitted
