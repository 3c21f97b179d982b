\* One backend to begin with, one edit, and one change of a cluster or database
\* error; the loops of monitor and refresher go on for ever.
SPECIFICATION ControlSpec
CONSTANTS
  Names = {a, b}
  Urls = {u, v}
  Admins = {x}
  MaxFlaps = 1
  MaxEdits = 1
  None = None
PROPERTIES BecomesReady GaugesSettle ViewsSettle
