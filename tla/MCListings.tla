----------------------------- MODULE MCListings -----------------------------
(* Instances of Listings for TLC. *)
EXTENDS Listings

CONSTANTS root, home, own, docker, a, b

\* Two homes share a name, one has two apps.
MCCatalogue == {<<root, a>>, <<root, b>>, <<home, a>>, <<own, a>>, <<docker, b>>}

\* One app of the first name writes no log.
MCLogged == {<<root, a>>, <<root, b>>, <<own, a>>}

MCConfigs == {<<>>, <<root, home>>}

MCUnitStates ==
  {<<"loaded", "active", "running">>, <<"loaded", "failed", "failed">>,
   <<"not-found", "inactive", "dead">>}

MCWidth ==
  [ssh |-> 11, nginx |-> 13, loaded |-> 6, active |-> 6, running |-> 7, failed |-> 6,
   inactive |-> 8, dead |-> 4] @@ ("not-found" :> 9)
=============================================================================
