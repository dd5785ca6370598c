------------------------------ MODULE MCAdoption ------------------------------
EXTENDS Adoption
CONSTANTS a, s, y
MCManaged == <<a>>
MCSeeds == <<s>>
MCSynced == <<y>>
=============================================================================
