---------------------------- MODULE MCMongoChain ----------------------------
(* MongoChain for TLC: two collections, interchangeable.                   *)
EXTENDS MongoChain, TLC

CONSTANTS c1, c2

MCColls == {c1, c2}
CollsSymmetry == Permutations(MCColls)
=============================================================================
