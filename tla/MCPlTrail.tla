---- MODULE MCPlTrail ----
EXTENDS PlTrail

====
