CONSTANTS
  n1 = n1
  n2 = n2
  s1 = s1
  s2 = s2
  Names <- MCNames
  Scripts <- MCScripts
  Packages <- MCPackages
  Uploads = {u1, u2}
  Reviewers = {r1, r2}
  Runs = {x1}
  None = None
SPECIFICATION Spec
CHECK_DEADLOCK FALSE
PROPERTY LoadedIsReady
