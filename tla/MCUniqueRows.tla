---- MODULE MCUniqueRows ----
(* Values for the constants of UniqueRows. *)
EXTENDS UniqueRows

CONSTANTS r1, r2, r3, analyst, R001, acme, jti, splunk

RequestsThree == {r1, r2, r3}
UserOne == {analyst}
RuleOne == {R001}
TenantOne == {acme}
TokenOne == {jti}
CredentialsOne == {splunk}
\* Bound: every key has a row at the start, or none has.
NoneOrAll == {{}, Keys}
====
