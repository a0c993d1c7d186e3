----------------------------- MODULE HandleStore -----------------------------
(***************************************************************************)
(* What the registry promises, with every operation in one step.           *)
(*                                                                         *)
(* A handle is owned by at most one DID.  The first claim of a DID mints   *)
(* a credential for it; later claims leave the credential alone.           *)
(* Releasing the last handle of a DID withdraws the credential.            *)
(*                                                                         *)
(* The tables behind it are `dids` and `handles` of                        *)
(* migrations/0001_init.sql, the steps are the writes of src/db.rs.        *)
(* Registry and StoreTx implement this specification, StoreTx but for the  *)
(* commit of an import, which replaces both tables by those of a file and  *)
(* may so bring back a credential that was withdrawn.                      *)
(***************************************************************************)

CONSTANTS DID,    \* DIDs that may claim handles
          Sub,    \* subdomains that may be claimed
          Hash,   \* stored secret hashes
          None    \* no row

ASSUME NoneAssumption == None \notin DID /\ None \notin Hash

VARIABLES cred,   \* the secret hash of a DID's row, or None: no row
          owner,  \* the DID of a handle's row, or None: no row
          spent   \* hashes ever given to a DID

vars == <<cred, owner, spent>>

TypeOK ==
  /\ cred  \in [DID -> Hash \cup {None}]
  /\ owner \in [Sub -> DID \cup {None}]
  /\ spent \subseteq Hash

Init ==
  /\ cred  = [d \in DID |-> None]
  /\ owner = [s \in Sub |-> None]
  /\ spent = {}

Holdings(d) == {s \in Sub : owner[s] = d}

\* Mutant: a hash that was used before may be given out again.
FirstClaimReuses(d, s, h) ==
  /\ cred[d] = None
  /\ owner[s] = None
  /\ cred'  = [cred EXCEPT ![d] = h]
  /\ owner' = [owner EXCEPT ![s] = d]
  /\ spent' = spent \cup {h}

(* The secret is random (generate_secret_key): that it is none of those    *)
(* generated before is assumed here, not something the tables enforce.     *)
FirstClaim(d, s, h) ==
  /\ cred[d] = None
  /\ owner[s] = None
  /\ h \notin spent
  /\ cred'  = [cred EXCEPT ![d] = h]
  /\ owner' = [owner EXCEPT ![s] = d]
  /\ spent' = spent \cup {h}

\* Mutant: a handle that is taken can be claimed.
ClaimTaken(d, s) ==
  /\ cred[d] # None
  /\ owner' = [owner EXCEPT ![s] = d]
  /\ UNCHANGED <<cred, spent>>

Claim(d, s) ==
  /\ cred[d] # None
  /\ owner[s] = None
  /\ owner' = [owner EXCEPT ![s] = d]
  /\ UNCHANGED <<cred, spent>>

\* Mutant: the last handle leaves the DID's row behind.
ReleaseOnly(d, s) ==
  /\ owner[s] = d
  /\ owner' = [owner EXCEPT ![s] = None]
  /\ UNCHANGED <<cred, spent>>

Release(d, s) ==
  /\ owner[s] = d
  /\ owner' = [owner EXCEPT ![s] = None]
  /\ cred'  = IF Holdings(d) = {s} THEN [cred EXCEPT ![d] = None] ELSE cred
  /\ UNCHANGED spent

Drop(d) ==
  /\ cred[d] # None
  /\ cred'  = [cred EXCEPT ![d] = None]
  /\ owner' = [s \in Sub |-> IF owner[s] = d THEN None ELSE owner[s]]
  /\ UNCHANGED spent

Next ==
  \E d \in DID :
    \/ \E s \in Sub, h \in Hash : FirstClaim(d, s, h)
    \/ \E s \in Sub : Claim(d, s)
    \/ \E s \in Sub : Release(d, s)
    \/ Drop(d)

Spec == Init /\ [][Next]_vars

-----------------------------------------------------------------------------
(* A row of `handles` always points at a row of `dids`, and a row of       *)
(* `dids` owns at least one handle: no write of db.rs leaves a dangling    *)
(* or an empty DID behind.                                                 *)
TablesAgree ==
  \A d \in DID : cred[d] # None <=> Holdings(d) # {}

(* No two DIDs answer to the same credential, so the lookup by             *)
(* secret_hash has one answer.                                             *)
OneKeyPerDid ==
  \A d, e \in DID : cred[d] = cred[e] /\ cred[d] # None => d = e

(* A handle goes from one DID to another only through being free, and a    *)
(* DID's credential is never replaced while the DID has a row.             *)
NoTakeover ==
  [][ /\ \A s \in Sub : owner[s] # None => owner'[s] \in {owner[s], None}
      /\ \A d \in DID : cred[d] # None => cred'[d] \in {cred[d], None} ]_vars
=============================================================================
