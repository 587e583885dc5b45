------------------------------ MODULE MCBandCache ------------------------------
(* Two requests at once, on two replicas, for one band with two sets of       *)
(* figures; the default is one of them.                                       *)
EXTENDS BandCache

CONSTANTS s1, s2, r1, r2, k1, listed, raised

MCSession == {s1, s2}
MCReplica == {r1, r2}
MCCacheKey == {k1}
MCBand == {listed, raised}
MCDefaultBand(k) == listed
==============================================================================
