---------------------------- MODULE MCDisclosure ----------------------------
(* Two grants, the second one over a part of the time, and an artifact with a *)
(* first revision, two competing successors and one that may not come first. *)
EXTENDS Disclosure, TLC

CONSTANTS g1, g2, r1, r2, r3, r4, q1, q2

MCScope == g1 :> (0..MaxTime) @@ g2 :> (1..MaxTime)
MCIssuedAt == g1 :> 0 @@ g2 :> 1
MCExpiresAt == g1 :> 2 @@ g2 :> 2
MCAllowance == g1 :> 2 @@ g2 :> 1
MCPriorOf == r1 :> NoRevision @@ r2 :> r1 @@ r3 :> r1 @@ r4 :> NoRevision
MCStatusOf == r1 :> "draft" @@ r2 :> "accepted" @@ r3 :> "rejected" @@ r4 :> "accepted"
MCEvidence == r1 :> {1} @@ r2 :> {1} @@ r3 :> {0} @@ r4 :> {0}
(* A request sent under two grants, and one whose ID is used again for another revision. *)
MCWrites ==
  {[request |-> q1, grant |-> g1, revision |-> r1],
   [request |-> q1, grant |-> g2, revision |-> r1],
   [request |-> q2, grant |-> g2, revision |-> r2],
   [request |-> q2, grant |-> g1, revision |-> r3],
   [request |-> q2, grant |-> g1, revision |-> r4]}
=============================================================================
