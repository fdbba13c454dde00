---------------------------- MODULE MCInboundLane ----------------------------
(* Small instances of InboundLane for TLC; see the .cfg files. *)
EXTENDS InboundLane, TLC

CONSTANTS a1, a2, b1, b2, ma, mb, i1, i2, x, y

\* A message with an id, signed twice, and one without, which is its own each time.
MCCarries == (a1 :> ma) @@ (a2 :> ma) @@ (b1 :> mb) @@ (b2 :> mb)
\* The first is about one of two items, the second about one of them.
MCMatches == (ma :> {i1, i2}) @@ (mb :> {i1})
\* Each may be pushed; a poll brings two at a time.
MCBatches == {<<a1>>, <<b1>>, <<a2, b2>>}
\* Which bot is which does not matter.
MCOwner == (i1 :> x) @@ (i2 :> y)
==============================================================================
