-------------------------- MODULE CredentialLifecycle --------------------------
(***************************************************************************)
(* The life of one provider's credential as an operator may rely on it: a  *)
(* secret is configured, judged, replaced and revoked, a secret that has   *)
(* been replaced or revoked never comes back, and "valid" is only ever     *)
(* said of a secret that the provider accepts.  No versions, no concurrent *)
(* calls, no secret store.  SourceCredentials implements this module.      *)
(***************************************************************************)
CONSTANTS
    Refs,               \* secret references
    Genuine,            \* those whose secret the provider accepts
    None

VARIABLES
    readiness,          \* "missing", "configured", a verdict, or "revoked"
    ref,                \* the secret it is about, None while missing
    used                \* secrets that have been configured

vars == <<readiness, ref, used>>

Verdicts == {"valid", "configured", "validation_failed", "expired"}
InUse == readiness \notin {"missing", "revoked"}

Init == readiness = "missing" /\ ref = None /\ used = {}

Install(r) ==
    /\ r \notin used
    /\ readiness' = "configured"
    /\ ref' = r
    /\ used' = used \cup {r}

Configure(r) == ~InUse /\ Install(r)

Replace(r) == InUse /\ Install(r)

Judge(verdict) ==
    /\ InUse
    /\ verdict = "valid" => ref \in Genuine
    /\ readiness' = verdict
    /\ UNCHANGED <<ref, used>>

Revoke ==
    /\ InUse
    /\ readiness' = "revoked"
    /\ UNCHANGED <<ref, used>>

Next ==
    \/ \E r \in Refs : Configure(r) \/ Replace(r)
    \/ \E v \in Verdicts : Judge(v)
    \/ Revoke

Spec == Init /\ [][Next]_vars

================================================================================
