------------------------------ MODULE MCAIJob ------------------------------
(* Three requests on a free plan of one, and a paid plan of two of which   *)
(* one to fahes.                                                           *)
EXTENDS AIJob, TLC

CONSTANTS k1, k2, k3, fahes, sada, free, paid

MCCharacterOf == k1 :> fahes @@ k2 :> fahes @@ k3 :> sada
MCGeneralLimit == free :> 1 @@ paid :> 2
MCCharacterLimit ==
  free :> (fahes :> 1 @@ sada :> 0) @@ paid :> (fahes :> 1 @@ sada :> NoLimit)
MCFeatures == free :> {fahes} @@ paid :> {fahes, sada}
=============================================================================
