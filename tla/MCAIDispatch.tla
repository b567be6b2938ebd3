---------------------------- MODULE MCAIDispatch ----------------------------
(* One request of a plan that allows it. *)
EXTENDS AIDispatch, TLC

CONSTANTS k1, fahes, free, w1, w2

MCCharacterOf == k1 :> fahes
MCGeneralLimit == free :> 1
MCCharacterLimit == free :> (fahes :> 1)
MCFeatures == free :> {fahes}

Symmetric == Permutations(Workers)
=============================================================================
