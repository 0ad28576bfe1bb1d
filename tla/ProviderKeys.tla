----------------------------- MODULE ProviderKeys -----------------------------
(***************************************************************************)
(* The signing keys of one OAuth provider: the key set it publishes, the   *)
(* copy that the API keeps in memory, and the logins that look for the key *)
(* of their ID token, await by await.                                      *)
(* Source: apps/api/src/modules/oauth/oauth.service.ts, verifyIdToken to   *)
(* getJwksKeys.                                                            *)
(*                                                                         *)
(* A token is the key that signed it: a malformed token, and one that its  *)
(* key does not verify, are refused whatever is cached, and left out.  The *)
(* caches of the providers have nothing in common.                         *)
(***************************************************************************)
EXTENDS Naturals

CONSTANTS Logins, Keys,
          FirstKey,     \* the key the provider begins with
          TTL,          \* JWKS_TTL_MS
          Timeout,      \* of a fetch
          MaxTime,      \* bound of the clock
          MaxLogins     \* bound of the logins

ASSUME ProviderKeysAssumption ==
    /\ {MaxTime, MaxLogins} \subseteq Nat /\ {TTL, Timeout} \subseteq Nat \ {0}
    /\ FirstKey \in Keys

VARIABLES
    published,  \* the keys the provider signs with and publishes
    cached,     \* jwksCache: the keys and when they expire, or keys {} and 0
    login,      \* login[l]: what login l is waiting for
    clock,
    logins,     \* how many logins have begun
    withdrawn,  \* history: withdrawn[k]: when k was withdrawn
    steady      \* history: logins whose key has been published since they began

keyVars == <<published, cached, login, clock, logins, withdrawn, steady>>

Nothing == [keys |-> {}, until |-> 0]
NoLogin == [at |-> "idle", key |-> FirstKey, got |-> {}, last |-> FALSE, since |-> 0]

KeysInit ==
    /\ published = {FirstKey} /\ login = [l \in Logins |-> NoLogin]
    /\ cached = Nothing /\ clock = 0 /\ logins = 0
    /\ withdrawn = [k \in {} |-> 0] /\ steady = {}

----------------------------------------------------------------------------
(* The provider                                                            *)

Publish(k) ==
    /\ k \notin published \cup DOMAIN withdrawn
    /\ published' = published \cup {k}
    /\ UNCHANGED <<cached, login, clock, logins, withdrawn, steady>>

\* A key that is withdrawn does not come back, and one is always left.
Withdraw(k) ==
    /\ k \in published /\ published # {k}
    /\ published' = published \ {k}
    /\ withdrawn' = [j \in DOMAIN withdrawn \cup {k} |-> IF j = k THEN clock ELSE withdrawn[j]]
    /\ steady' = {l \in steady : login[l].key # k}
    /\ UNCHANGED <<cached, login, clock, logins>>

----------------------------------------------------------------------------
(* A login                                                                 *)

\* Mutant: what is cached is cached for good.
FreshForGood(entry) == entry # Nothing
Fresh(entry) == entry.until > clock

\* getJwksKeys up to its first await: the cached keys, or a fetch.
Asked(k, entry, last) ==
    [at |-> IF Fresh(entry) THEN "got" ELSE "sent", key |-> k, last |-> last, since |-> clock,
     got |-> IF Fresh(entry) THEN entry.keys ELSE {}]

Over(l) == login[l].at \in {"idle", "accepted", "refused", "failed"}

\* The token of a key that is published, or was.
Begin(l) ==
    /\ Over(l) /\ logins < MaxLogins /\ logins' = logins + 1
    /\ \E k \in published \cup DOMAIN withdrawn :
          /\ login' = [login EXCEPT ![l] = Asked(k, cached, FALSE)]
          /\ steady' = IF k \in published THEN steady \cup {l} ELSE steady \ {l}
    /\ UNCHANGED <<published, cached, clock, withdrawn>>

Serve(l) ==
    /\ login[l].at = "sent"
    /\ login' = [login EXCEPT ![l].at = "served", ![l].got = published]
    /\ UNCHANGED <<published, cached, clock, logins, withdrawn, steady>>

\* The answer is cached, whoever has cached a later one meanwhile.
Arrive(l) ==
    /\ login[l].at = "served"
    /\ cached' = [keys |-> login[l].got, until |-> clock + TTL]
    /\ login' = [login EXCEPT ![l].at = "got"]
    /\ UNCHANGED <<published, clock, logins, withdrawn, steady>>

\* The fetch fails or is aborted by its timeout; nothing is cached.
FetchFails(l) ==
    /\ login[l].at \in {"sent", "served"}
    /\ login' = [login EXCEPT ![l].at = "failed"]
    /\ UNCHANGED <<published, cached, clock, logins, withdrawn, steady>>

\* Mutant: the second look finds what the first has found.
KeptAfterMiss == cached
AfterMiss == Nothing

\* The key is there, or the cache is dropped and asked again, once.
CheckKey(l) ==
    LET r == login[l] IN
    /\ r.at = "got"
    /\ IF r.key \in r.got
       THEN login' = [login EXCEPT ![l].at = "accepted", ![l].since = clock] /\ UNCHANGED cached
       ELSE IF r.last THEN login' = [login EXCEPT ![l].at = "refused"] /\ UNCHANGED cached
       ELSE /\ cached' = AfterMiss
            /\ login' = [login EXCEPT ![l] = Asked(r.key, AfterMiss, TRUE)]
    /\ UNCHANGED <<published, clock, logins, withdrawn, steady>>

\* Time passes while nothing but fetches, and those not for longer than their
\* timeout, is waited for.
PassTime ==
    /\ clock < MaxTime /\ clock' = clock + 1
    /\ \A l \in Logins : \/ Over(l)
                         \/ login[l].at \in {"sent", "served"} /\ clock < login[l].since + Timeout
    /\ UNCHANGED <<published, cached, login, logins, withdrawn, steady>>

KeysNext ==
    \/ \E k \in Keys : Publish(k) \/ Withdraw(k)
    \/ \E l \in Logins : \/ Begin(l) \/ Serve(l) \/ Arrive(l)
                         \/ FetchFails(l) \/ CheckKey(l)
    \/ PassTime

KeysSpec == KeysInit /\ [][KeysNext]_keyVars

----------------------------------------------------------------------------
(* Properties                                                              *)

\* Calls and keys have the values the code gives them.
KeysTypeOK ==
    /\ published \subseteq Keys /\ published # {} /\ published \cap DOMAIN withdrawn = {}
    /\ cached.keys \subseteq Keys /\ cached.until \in 0 .. MaxTime + TTL
    /\ \A l \in Logins : login[l].key \in Keys /\ login[l].got \subseteq Keys
    /\ steady \subseteq Logins

\* A login whose key has been published since it began is not refused for want
\* of the key, however old the cached set is and whatever answers other logins
\* have cached in between.
GoodTokensPass == \A l \in steady : login[l].at # "refused"

\* A key that was withdrawn is trusted for no longer than the life of a cached
\* set and of the fetch that brought it: answers that come late, and logins that
\* drop and refill the cache, do not lengthen its time.
WithdrawnKeysExpire ==
    \A l \in Logins :
        (login[l].at = "accepted" /\ login[l].key \in DOMAIN withdrawn)
        => login[l].since < withdrawn[login[l].key] + TTL + Timeout

\* What holds of the keys and the logins in every state.
KeysInv == KeysTypeOK /\ GoodTokensPass /\ WithdrawnKeysExpire
=============================================================================
