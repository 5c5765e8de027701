\* Two sites, two configurations, two requests at a time.
SPECIFICATION SitesSpec
CONSTANTS
  s1 = s1
  s2 = s2
  c1 = c1
  c2 = c2
  r1 = r1
  r2 = r2
  Site = {s1, s2}
  Config = {c1, c2}
  Request = {r1, r2}
SYMMETRY SitesSymmetry
INVARIANTS SitesTypeOK RecordsMatchConfs LoadedIsCurrent
