---------------------------- MODULE MCCityFileStore ----------------------------
\* Instance of CityFileStore for TLC: the model values are in the .cfg.
EXTENDS CityFileStore
=============================================================================
