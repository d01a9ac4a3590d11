--------------------------- MODULE MCChangeFeed ----------------------------
(* TLC instances of ChangeFeed: two database sessions racing over three      *)
(* mutation identities, groups of one or two records, pages of one or two    *)
(* groups.                                                                   *)
EXTENDS ChangeFeed

CONSTANTS s1, s2, m1, m2, m3, r1

MCSession == {s1, s2}
MCMutation == {m1, m2, m3}
MCReplica == {r1}
=============================================================================
