--------------------------- MODULE MCUsageLedger ---------------------------
(* A small catalogue for TLC: the free plan allows one request a month and *)
(* no sada, the paid plan two requests, one of them to fahes.              *)
EXTENDS UsageLedger, TLC

CONSTANTS k1, k2, k3, k4, fahes, sada, free, paid

MCCharacterOf == k1 :> fahes @@ k2 :> fahes @@ k3 :> sada @@ k4 :> fahes
MCGeneralLimit == free :> 1 @@ paid :> 2
MCCharacterLimit ==
  free :> (fahes :> 1 @@ sada :> 0) @@ paid :> (fahes :> 1 @@ sada :> NoLimit)
MCFeatures == free :> {fahes} @@ paid :> {fahes, sada}

\* The free plan alone.
MCFreeGeneral == free :> 1
MCFreeCharacter == free :> (fahes :> 1 @@ sada :> 0)
MCFreeFeatures == free :> {fahes}
=============================================================================
