--------------------------- MODULE MCRegistrySync ---------------------------
(* One device with a main entity and the helper it has superseded, and a row    *)
(* under an old address.                                                     *)
EXTENDS RegistrySync

MCKeys       == {"main", "helper", "legacy"}
MCDevices    == {"d"}
MCDeviceOf   == [k \in MCKeys |-> "d"]
MCLegacy     == {"legacy"}
MCNamed      == {}
MCSupersedes == {<<"helper", "main">>}
=============================================================================
