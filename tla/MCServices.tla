------------------------------ MODULE MCServices ------------------------------
\* Four parts of the system that share nothing, neither tables that these models
\* keep nor memory: a behaviour is one of any of them, and the others stay as
\* they began.  Their product would add interleavings and no behaviour of its
\* own.  Users are alike, and so are slots, tabs and logins, which share their
\* names with two of the callers of the pool.
EXTENDS Community, Wellness, ProviderKeys, ConnectionPool, TLC

VARIABLE service   \* the one this behaviour is of

ServicesInit ==
    /\ service \in {"community", "wellness", "keys", "pool"}
    /\ Init /\ WellnessInit /\ KeysInit /\ PoolInit

ServicesNext ==
    /\ UNCHANGED service
    /\ \/ service = "community" /\ Next /\ UNCHANGED <<wellness, keyVars, poolVars>>
       \/ service = "wellness" /\ WellnessNext /\ UNCHANGED <<vars, keyVars, poolVars>>
       \/ service = "keys" /\ KeysNext /\ UNCHANGED <<vars, wellness, poolVars>>
       \/ service = "pool" /\ PoolNext /\ UNCHANGED <<vars, wellness, keyVars>>

ServicesSpec ==
    ServicesInit /\ [][ServicesNext]_<<service, vars, wellness, keyVars, poolVars>>

Symmetry == Permutations(Users) \cup Permutations(Slots)
=============================================================================
