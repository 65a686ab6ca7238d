-------------------------- MODULE MCCleanUniverseRange --------------------------
EXTENDS CleanUniverseRange, TLC

CONSTANTS early, late

\* Two runs that overlap in the first date.
OverlappingDates == early :> 1..LastDate @@ late :> {1}
=============================================================================
