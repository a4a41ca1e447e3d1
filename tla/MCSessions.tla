----------------------------- MODULE MCSessions -----------------------------
(* Sessions for TLC: tabs are interchangeable, and so are requests.  (Tokens *)
(* are not: NewToken chooses one.)                                           *)
EXTENDS Sessions, TLC

SessionSymmetry == Permutations(Tabs) \cup Permutations(Handlers)
=============================================================================
