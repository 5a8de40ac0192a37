------------------------------- MODULE ApiKeys -------------------------------
(***************************************************************************)
(* API keys (application/api_key_service.py and its repository): a key is  *)
(* generated with scopes and perhaps an expiry, and revoked at most once.  *)
(* The secret and its hash are the key itself.  Every operation commits    *)
(* its own transaction.                                                    *)
(***************************************************************************)
EXTENDS Integers

CONSTANTS
    Keys,        \* the keys that can be generated
    ScopeSets,   \* the sets of scopes a client asks for
    MaxTime      \* bound: ticks of the clock

Scopes == {"read", "write", "admin"}
Never == MaxTime + 1     \* expires_at is None

ASSUME KeysAssumption ==
    /\ MaxTime \in Nat
    /\ ScopeSets \subseteq (SUBSET Scopes) \ {{}}

VARIABLES
    now,     \* the clock
    key      \* key[k]: the row of k, or Ungenerated

Ungenerated == [active |-> FALSE, scopes |-> {}, expires |-> 0]

\* A key always has a scope: without one in the request it gets read and write.
KeyRows ==
    {Ungenerated} \cup [active : BOOLEAN, scopes : (SUBSET Scopes) \ {{}}, expires : 0..Never]

Generated(k) == key[k] # Ungenerated

\* repository.create: active from the start.
GenerateKey(k, scopes, expires) ==
    /\ ~Generated(k)
    /\ key' = [key EXCEPT ![k] = [active |-> TRUE, scopes |-> scopes, expires |-> expires]]
    /\ UNCHANGED now

RevokeKey(k) ==
    /\ Generated(k)
    /\ key' = [key EXCEPT ![k].active = FALSE]
    /\ UNCHANGED now

Tick == now < MaxTime /\ now' = now + 1 /\ UNCHANGED key

\* count_active does not look at the expiry.
HasActiveKeys == \E k \in Keys : key[k].active

\* Mutant: the lookup forgets is_active.
GetByHashRevoked(k) == Generated(k) /\ key[k].expires >= now

\* An active key that has not expired; at the very instant it still holds.
GetByHash(k) == key[k].active /\ key[k].expires >= now

\* verify_key: admin grants everything, write includes read.
ScopeGrants(scopes, required) ==
    \/ "admin" \in scopes
    \/ required = "read" /\ scopes \cap {"read", "write"} # {}
    \/ required = "write" /\ "write" \in scopes

VerifyKey(k, required) == GetByHash(k) /\ ScopeGrants(key[k].scopes, required)

\* A key opens a door only while this holds.
InForce(k) == key[k].active /\ now <= key[k].expires
==============================================================================
