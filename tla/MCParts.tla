------------------------------- MODULE MCParts -------------------------------
(***************************************************************************)
(* Eight small parts, one of them running in each behaviour: the owners of   *)
(* the tokens, the registries, the schema cache, the routing of updates and    *)
(* of events, paging, the import filter's forms and the config flow.  None of  *)
(* them calls another; what they have in common are the entry and the          *)
(* topology, of which each models what it uses.                              *)
(***************************************************************************)
EXTENDS TokenRefresh, RegistrySync, SetupFlow, ImportFilter, NodeRouting, SchemaCache,
        EventRouting, Paging, TLC

VARIABLE part

(* A main entity and the helper it has superseded, on one device. *)
MCKeys       == {"main", "helper"}
MCDeviceOf   == [k \in MCKeys |-> "d"]
MCSupersedes == {<<"helper", "main">>}

MCRows == 1 .. 4

(* Two devices, the second with sub-devices in two rooms. *)
MCOrder  == <<"lamp", "panel">>
MCWizard == <<"rooms", "devices">>
MCShown ==
    [lamp  |-> [rooms |-> <<"hall">>, devices |-> <<"lamp">>],
     panel |-> [rooms |-> <<"hall", "attic">>, devices |-> <<"panel">>]]
MCMatch ==
    [lamp  |-> [rooms |-> {"hall"}, devices |-> {"lamp"}, product_ids |-> {"p"}],
     panel |-> [rooms |-> {"hall", "attic"}, devices |-> {"panel"}, product_ids |-> {"q"}]]

(* Numbers shared by a device and a group and by a room and a house; a gateway, and *)
(* nodes with numbers of their own.                                          *)
MCKindOf ==
    [lamp |-> "devices", fan |-> "devices", plug |-> "devices", hub |-> "gateways",
     pair |-> "groups", spots |-> "groups", hall |-> "rooms", home |-> "houses"]
MCIdOf ==
    [lamp |-> 7, fan |-> 1, plug |-> 5, hub |-> 4, pair |-> 7, spots |-> 2, hall |-> 3,
     home |-> 3]
MCNodes == DOMAIN MCIdOf

Update(n, type, id, fields) == [about |-> n, type |-> type, id |-> id, fields |-> fields]

(* With relations, with row numbers (9 is nobody's), and without a type. *)
MCFrames ==
    { Update("lamp", "devices", 7, (7 :> "id") @@ (3 :> "rooms")),
      Update("lamp", "devices", 3, (3 :> "id") @@ (7 :> "id")),
      Update("lamp", "devices", 5, (5 :> "id") @@ (7 :> "id")),
      Update("fan", "devices", 9, (9 :> "id") @@ (1 :> "id") @@ (4 :> "gateway")),
      Update("fan", Untyped, 1, (1 :> "id") @@ (2 :> "groups")),
      Update("hub", "devices", 4, 4 :> "id"),
      Update("pair", "groups", 7, 7 :> "id"),
      Update("spots", "groups", 9, (9 :> "id") @@ (2 :> "groups") @@ (3 :> "rooms")),
      Update("spots", Untyped, 2, 2 :> "id"),
      Update("hall", "rooms", 7, (7 :> "id") @@ (3 :> "rooms")),
      Update("home", Untyped, 3, 3 :> "id") }

(* One house that both accounts see, and one that only the second sees. *)
MCHousesOf == ("a1" :> {"h1"}) @@ ("a2" :> {"h1", "h2"})

tokenVars == vars
restVars  == <<cacheVars, eventVars, pageVars>>
formVars  == <<filterVars, setupVars, routeVars>>
partsVars == <<part, tokenVars, regVars, restVars, formVars>>

(* A part that does not run starts in one state only.  Bound: a private entry      *)
(* starts with a token that lasts long.                                      *)
InitParts ==
    /\ part \in {"token", "registry", "schemas", "routing", "pages", "filter", "setup", "nodes"}
    /\ Init /\ (mode = "private" => entry.life = "long")
    /\ (part # "token" => mode = "cloud" /\ entry.life = "long"
                           /\ current = CHOOSE c \in Clients : TRUE)
    /\ InitRegistry /\ (part # "registry" => excluded = {})
    /\ InitCache /\ (part # "schemas" => stored = 0)
    /\ InitRoute
    /\ InitPage /\ (part # "pages" => reportsTotal)
    /\ InitFilter
    /\ (part # "filter" => listed = {} /\ filter = Disabled)
    /\ InitSetup /\ (part # "setup" => skew = 0 /\ entries = {})
    /\ IF part = "nodes" THEN InitNodes
       ELSE placed = {} /\ says = <<>> /\ kept = <<>> /\ updates = 0 /\ told = <<>>

NextParts ==
    \/ /\ part = "token" /\ Next
       /\ UNCHANGED <<part, regVars, restVars, formVars>>
    \/ /\ part = "registry" /\ NextRegistry
       /\ UNCHANGED <<part, tokenVars, restVars, formVars>>
    \/ /\ part = "schemas" /\ NextCache
       /\ UNCHANGED <<part, tokenVars, regVars, eventVars, pageVars, formVars>>
    \/ /\ part = "routing" /\ NextRoute
       /\ UNCHANGED <<part, tokenVars, regVars, cacheVars, pageVars, formVars>>
    \/ /\ part = "pages" /\ NextPage
       /\ UNCHANGED <<part, tokenVars, regVars, cacheVars, eventVars, formVars>>
    \/ /\ part = "filter" /\ NextFilter
       /\ UNCHANGED <<part, tokenVars, regVars, restVars, setupVars, routeVars>>
    \/ /\ part = "setup" /\ NextSetup
       /\ UNCHANGED <<part, tokenVars, regVars, restVars, filterVars, routeVars>>
    \/ /\ part = "nodes" /\ NextNodes
       /\ UNCHANGED <<part, tokenVars, regVars, restVars, filterVars, setupVars>>

SpecParts == InitParts /\ [][NextParts]_partsVars

MCSymmetry == Permutations(Requests) \cup Permutations(Clients)
=============================================================================
