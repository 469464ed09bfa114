---------------------------- MODULE MCDiscovery ----------------------------
(* Discovery of two postings: a, which the CLI can apply to, and b.         *)
EXTENDS Discovery

CONSTANTS a, b

Row(p, allowed, already, listed) ==
  [posting |-> p, allowed |-> allowed, already |-> already, listed |-> listed]

\* A repeated posting, oldest first, and a listing without a URL; a list that is
\* shorter, with a posting twice on one date, first from a source that is not
\* allowed; one of applied jobs; an empty one.
MCListings == {
  <<Row(a, TRUE, TRUE, 1), Row(NoUrl, TRUE, FALSE, 2), Row(a, TRUE, FALSE, 3),
    Row(b, TRUE, FALSE, 2)>>,
  <<Row(b, FALSE, FALSE, 1), Row(a, TRUE, FALSE, 1), Row(b, TRUE, FALSE, 1)>>,
  <<Row(b, TRUE, TRUE, 1), Row(a, TRUE, TRUE, 2)>>,
  <<>> }
=============================================================================
