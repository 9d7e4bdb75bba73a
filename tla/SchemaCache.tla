---------------------------- MODULE SchemaCache ----------------------------
(***************************************************************************)
(* One product's schema in ProductSchemaCache (core/schema_cache.py), read   *)
(* by refreshes of the coordinator that may overlap: polls, and manual ones  *)
(* that force the schemas to be fetched again.  A schema is its version on   *)
(* the server; 0 is none.                                                    *)
(***************************************************************************)
EXTENDS Naturals

CONSTANTS
    Refreshes,     \* refreshes under way at the same time
    MaxVersion     \* bounds the server's versions

ASSUME VersionsAssumption == MaxVersion \in Nat \ {0}

VARIABLES
    version,       \* of the server's schema
    stored,        \* in the store's file, which all entries share
    cached,        \* in _schemas
    storeRead,     \* _loaded
    forceFlag,     \* _force_product_schema_refresh
    step,          \* of each refresh
    manual,        \* the refreshes by the service
    forcing,       \* the refreshes that were told to fetch again
    answer,        \* what the server answers each of them
    base,          \* history: the server's version when a refresh began
    alone,         \* history: refreshes that nothing overlapped or went wrong in
    promised       \* history: the version a manual refresh has shown the user

refreshes == <<step, manual, forcing, answer, base, alone>>
cacheVars == <<version, stored, cached, storeRead, forceFlag, refreshes, promised>>

Versions == 0 .. MaxVersion
Steps    == {"idle", "listing", "loading", "asking", "answered", "building"}

CacheTypeOK ==
    /\ version \in Versions /\ stored \in Versions /\ cached \in Versions
    /\ storeRead \in BOOLEAN /\ forceFlag \in BOOLEAN
    /\ step \in [Refreshes -> Steps]
    /\ manual \subseteq Refreshes /\ forcing \subseteq Refreshes /\ alone \subseteq Refreshes
    /\ answer \in [Refreshes -> Versions] /\ base \in [Refreshes -> Versions]
    /\ promised \in Versions

InitCache ==
    /\ version = 1 /\ stored \in {0, 1} /\ cached = 0
    /\ storeRead = FALSE /\ forceFlag = FALSE
    /\ step = [t \in Refreshes |-> "idle"]
    /\ manual = {} /\ forcing = {} /\ alone = {}
    /\ answer = [t \in Refreshes |-> 0] /\ base = [t \in Refreshes |-> 0]
    /\ promised = 0

Idle == \A t \in Refreshes : step[t] = "idle"
Goto(t, s) == step' = [step EXCEPT ![t] = s]

-----------------------------------------------------------------------------
(* The product changes on the server. *)
ServerChanges ==
    /\ version < MaxVersion
    /\ version' = version + 1
    /\ UNCHANGED <<stored, cached, storeRead, forceFlag, refreshes, promised>>

(* A poll, or async_request_product_schema_refresh: neither waits for the other.  *)
Begin(t, byHand) ==
    /\ step[t] = "idle"
    /\ Goto(t, "listing")
    /\ manual' = IF byHand THEN manual \cup {t} ELSE manual
    /\ forceFlag' = (forceFlag \/ byHand)
    /\ base' = [base EXCEPT ![t] = version]
    /\ alone' = IF Idle THEN {t} ELSE {}
    /\ UNCHANGED <<version, stored, cached, storeRead, forcing, answer, promised>>

(* Mutant: what is in the cache is never asked for again. *)
MutWanted(force, have) == IF have = 0 THEN "asking" ELSE "building"

(* async_get: what is asked for is fetched if it is missing, or if told so. *)
Wanted(force, have) == IF force \/ have = 0 THEN "asking" ELSE "building"

(* The devices are listed, then the schemas are needed.  The first refresh to come *)
(* here reads the store; one that comes meanwhile goes on with an empty cache. *)
Listed(t) ==
    /\ step[t] = "listing"
    /\ forcing' = IF forceFlag THEN forcing \cup {t} ELSE forcing
    /\ storeRead' = TRUE
    /\ Goto(t, IF storeRead THEN Wanted(forceFlag, cached) ELSE "loading")
    /\ UNCHANGED <<version, stored, cached, forceFlag, manual, answer, base, alone, promised>>

(* The store's schemas go over what is in the cache by then; a store that cannot  *)
(* be read counts for an empty one.                                          *)
Load(t) ==
    /\ step[t] = "loading"
    /\ \E found \in {0, stored} : cached' = IF found = 0 THEN cached ELSE found
    /\ Goto(t, Wanted(t \in forcing, cached'))
    /\ UNCHANGED <<version, stored, storeRead, forceFlag, manual, forcing, answer, base,
                   alone, promised>>

ServerAnswers(t) ==
    /\ step[t] = "asking"
    /\ Goto(t, "answered")
    /\ answer' = [answer EXCEPT ![t] = version]
    /\ UNCHANGED <<version, stored, cached, storeRead, forceFlag, manual, forcing, base,
                   alone, promised>>

Fetched(t) ==
    /\ step[t] = "answered"
    /\ cached' = answer[t]
    /\ Goto(t, "building")
    /\ UNCHANGED <<version, stored, storeRead, forceFlag, manual, forcing, answer, base,
                   alone, promised>>

(* async_get_with_fallback: any error, be it of authentication, and the refresh     *)
(* goes on with what is cached; as it does if the answer lacks the product.  *)
FetchFails(t) ==
    /\ step[t] \in {"asking", "answered"}
    /\ Goto(t, "building")
    /\ alone' = alone \ {t}
    /\ UNCHANGED <<version, stored, cached, storeRead, forceFlag, manual, forcing, answer,
                   base, promised>>

(* The refresh is over, well or not; a manual one takes the flag back, whoever has  *)
(* set it.                                                                   *)
End(t) ==
    /\ step[t] \in {"listing", "building"}
    /\ Goto(t, "idle")
    /\ forceFlag' = (forceFlag /\ t \notin manual)
    /\ promised' = IF t \in manual \cap alone /\ step[t] = "building"
                   THEN base[t] ELSE promised
    /\ manual' = manual \ {t} /\ forcing' = forcing \ {t} /\ alone' = alone \ {t}
    /\ answer' = [answer EXCEPT ![t] = 0] /\ base' = [base EXCEPT ![t] = 0]
    /\ UNCHANGED <<version, stored, cached, storeRead>>

(* The delayed save, of this entry or of another one, which writes its own schemas   *)
(* over everything that is in the file.                                      *)
Save ==
    /\ stored' \in {cached} \cup 0 .. version
    /\ UNCHANGED <<version, cached, storeRead, forceFlag, refreshes, promised>>

(* Reload or restart: a new cache. *)
NewCache ==
    /\ Idle
    /\ cached' = 0 /\ storeRead' = FALSE /\ promised' = 0
    /\ UNCHANGED <<version, stored, forceFlag, refreshes>>

NextCache ==
    \/ ServerChanges
    \/ \E t \in Refreshes :
        \/ \E byHand \in BOOLEAN : Begin(t, byHand)
        \/ Listed(t) \/ Load(t) \/ ServerAnswers(t) \/ Fetched(t) \/ FetchFails(t) \/ End(t)
    \/ Save \/ NewCache

SpecCache == InitCache /\ [][NextCache]_cacheVars

-----------------------------------------------------------------------------
(* Once the user has refreshed by hand ("手动刷新时强制重新拉取当前产品 schema",        *)
(* core/coordinator.py:276), the cache never again holds an older schema than the *)
(* server had then: not by a store that is read late, nor by an answer that      *)
(* comes late.  Refreshes that overlapped, or could not fetch, promise nothing. *)
SchemaFresh == cached >= promised

-----------------------------------------------------------------------------
(* The inductive invariant behind SchemaFresh. *)

(* A refresh that nothing overlaps is by itself, and one by hand is on its way to   *)
(* a schema that is at least as new as when it began.                        *)
AloneInv ==
    /\ \A t \in Refreshes :
        /\ step[t] = "idle" => t \notin manual
        /\ step[t] \notin {"idle", "listing"} => storeRead
    /\ \A t \in alone :
        /\ step[t] # "idle" /\ \A u \in Refreshes \ {t} : step[u] = "idle"
        /\ t \in manual =>
             /\ forceFlag
             /\ step[t] = "loading" => t \in forcing
             /\ step[t] = "answered" => answer[t] >= base[t]
             /\ step[t] = "building" => cached >= base[t]

(* Nothing older than what was promised is still under way: the store has been read, *)
(* and an answer that has yet to come in was asked for afterwards.           *)
PromiseInv ==
    /\ promised <= version /\ 1 <= version
    /\ \A t \in Refreshes : base[t] <= version
    /\ \A t \in Refreshes : step[t] = "answered" => answer[t] >= promised
    /\ promised > 0 => storeRead /\ \A t \in Refreshes : step[t] # "loading"
    /\ cached >= promised

CacheInv == CacheTypeOK /\ AloneInv /\ PromiseInv
=============================================================================
