SPECIFICATION Spec
CONSTANTS
  c1 = c1
  c2 = c2
  c3 = c3
  Client = {c1, c2}
  NumWant = 1
  FailFast = FALSE
INVARIANT AnnouncedIsTracked
