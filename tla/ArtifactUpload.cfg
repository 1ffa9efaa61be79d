\* Two processes, one scope; crashes, lost authority, three uploads.
SPECIFICATION LiveSpec
CONSTANTS
  p1 = p1
  p2 = p2
  headshot = headshot
  slides = slides
  Process = {p1, p2}
  Scope = {headshot}
  MaxUpload = 3
  MaxCrash = 1
  MaxDoubt = 1
INVARIANT CommittedIsServable
PROPERTY PreparedIsSettled
