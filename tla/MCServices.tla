---- MODULE MCServices ----
(***************************************************************************)
(* A small instance of Services.                                           *)
(***************************************************************************)
EXTENDS Services, TLC

\* r1, r2: requests; x1, x2: releases, holds, work orders or processes; d1, d2: documents;
\* a1: an adjustment; c1: a count sheet; u1: a user.
CONSTANTS r1, r2, x1, x2, d1, d2, a1, c1, u1

Symmetric ==
  Permutations({r1, r2}) \cup Permutations({x1, x2}) \cup Permutations({d1, d2})

====
