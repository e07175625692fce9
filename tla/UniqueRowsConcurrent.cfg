SPECIFICATION FairSpec
CONSTANTS
  r1 = r1
  r2 = r2
  r3 = r3
  analyst = analyst
  R001 = R001
  acme = acme
  jti = jti
  splunk = splunk
  None = None
  Requests <- RequestsThree
  Users <- UserOne
  Rules <- RuleOne
  Tenants <- TenantOne
  Tokens <- TokenOne
  Credentials <- CredentialsOne
  Seeds <- NoneOrAll
INVARIANTS
  OneRowUnlessRaced
  ErrorsHaveCause
  CreatedStays
PROPERTY
  EveryCallAnswered
