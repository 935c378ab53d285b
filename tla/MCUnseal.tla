------------------------------ MODULE MCUnseal ------------------------------
EXTENDS Unseal

CONSTANT Other   \* an asset that no running service holds in memory

MCManifests == {{ServerAsset, Other}, {ServerAsset}}

=============================================================================
