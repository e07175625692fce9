SPECIFICATION Spec
CONSTANTS
  t1 = t1
  t2 = t2
  r1 = r1
  r2 = r2
  r3 = r3
  c1 = c1
  c2 = c2
  Tenants <- TenantsOne
  Requests <- RequestsTwo
  Contents <- ContentsTwo
  MaxEntries = 4
INVARIANT
  ChainAlwaysValid
