------------------------------ MODULE MCCatalog ------------------------------
(* Small instances of Catalog for TLC. *)
EXTENDS Catalog, TLC

Symmetry == Permutations(Request) \cup Permutations(Key) \cup Permutations(BucketId)
              \cup Permutations(ObjectId) \cup Permutations(BlobId)
=============================================================================
