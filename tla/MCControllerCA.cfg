\* One node, one request beside the watcher; a certificate of three hours is renewed when
\* less than two are left, and an authority of two outlives its renewal by no more than
\* that; five keys in use at a time.
SPECIFICATION FairSpec
CONSTANTS
  Node = {n1}
  Request = {r1}
  Keys = 5
  Life = 3
  Threshold = 2
INVARIANTS CATypeOK FilesBelongTogether
PROPERTIES FailuresHaveCauses RenewalHeals
