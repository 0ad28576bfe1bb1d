------------------------- MODULE MCAccountsAndObjects -------------------------
\* Sign-in by outside identities, and the storage package: they share no state, so
\* a behaviour is one of either, and the other stays as it began.  Of the
\* identities two are of one provider and one of another, and one address comes in
\* two spellings.  Users are alike, and so are requests, which are also the workers
\* of the storage.
EXTENDS OAuthAccounts, ObjectStorage, TLC

CONSTANTS g1, g2, a1, google, apple, e1, e2

VARIABLE part   \* the one this behaviour is of

MCProviderOf == (g1 :> google) @@ (g2 :> google) @@ (a1 :> apple)
MCEmailOf == (g1 :> e1) @@ (g2 :> e2) @@ (a1 :> e2)
MCLowerOf == (e1 :> e1) @@ (e2 :> e1)
Symmetry == Permutations(Users) \cup Permutations(Requests)

PartsInit ==
    /\ part \in {"accounts", "objects"} /\ Init /\ StorageInit
    /\ part = "accounts" => adapter = "local"   \* which is idle

\* A bound: two writes can meet, and a third is wanted only for the put that makes
\* a file of the directory whole again.
ThirdWriteHeals == Len(log') = 3 => adapter = "local" /\ log'[3].op = "put"

PartsNext ==
    /\ UNCHANGED part
    /\ \/ part = "accounts" /\ Next /\ UNCHANGED storageVars
       \/ part = "objects" /\ StorageNext /\ UNCHANGED vars /\ ThirdWriteHeals

PartsSpec == PartsInit /\ [][PartsNext]_<<part, vars, storageVars>>
=============================================================================
