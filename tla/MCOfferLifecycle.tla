--------------------------- MODULE MCOfferLifecycle ---------------------------
(* Two requests at once on two offers and two numbers.                        *)
EXTENDS OfferLifecycle, TLC

CONSTANTS s1, s2, o1, o2, n1, n2

MCSession == {s1, s2}
MCOffer == {o1, o2}
MCNumber == {n1, n2}

Symmetric == Permutations(Session) \cup Permutations(Offer) \cup Permutations(Number)
==============================================================================
