-------------------------- MODULE MCMigrationSaga --------------------------
(* A disk and one that backs onto it and boots a desktop; one of the two may  *)
(* be at its destination already. States beyond the first overlap of two      *)
(* drivers are cut off: every property but the type excepts them.             *)
EXTENDS MigrationSaga

CONSTANTS r, c

MCDrivers == Permutations(Drivers)
MCTopo == <<r, c>>
MCParent == (r :> NoDisk) @@ (c :> r)
MCPlaces == {{}, {r}, {c}}
MCRootStays == {{r}}
Apart == ~ overlapped
MCDesktops == {c}
=============================================================================
