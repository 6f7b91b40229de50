---- MODULE MCHeapCap ----
EXTENDS HeapCap

====
