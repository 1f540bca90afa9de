------------------------- MODULE MCIndexedDbCityStore -------------------------
\* Instance of IndexedDbCityStore for TLC: the model values are in the .cfg.
EXTENDS IndexedDbCityStore
=============================================================================
