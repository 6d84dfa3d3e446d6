------------------------------- MODULE MCQuota -------------------------------
(* Small instances of Quota for TLC. *)
EXTENDS Quota, TLC

CONSTANTS u, b, bytes, objects

(* A PUT of one byte: it counts bytes and objects. *)
SmallPut == {(bytes :> 1 @@ objects :> 1)}

(* ... and one of two bytes. *)
TwoSizes == SmallPut \cup {(bytes :> 2 @@ objects :> 1)}

(* The user may have three bytes, the bucket one object. *)
Defaults == (u :> (bytes :> 3 @@ objects :> Unlimited))
         @@ (b :> (bytes :> Unlimited @@ objects :> 1))

(* A user without a bucket, who may have one byte. *)
UserDefault == (u :> (bytes :> 1 @@ objects :> Unlimited))

NoLimits == {}
OneLimit == {(bytes :> 1 @@ objects :> 2)}

Symmetry == Permutations(Request)
=============================================================================
