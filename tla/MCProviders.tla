---------------------------- MODULE MCProviders ----------------------------
EXTENDS Providers, TLC
CONSTANTS m1, m2, k1, k2, p1

\* m1 wants p1 as one type and nothing as another, m2 wants p1.
MCOffered ==
  LET on(k, outs) == [enabled |-> TRUE, type |-> k, outs |-> outs]
  IN (m1 :> {on(k1, {p1}), on(k2, {})}) @@ (m2 :> {on(k1, {p1})})
=============================================================================
