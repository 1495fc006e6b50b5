------------------------------ MODULE MCHelpers ------------------------------
(* Helpers on small inputs, for TLC.                                       *)
EXTENDS Helpers, TLC

LowerKeys == ("title" :> "title") @@ ("Title" :> "title") @@ ("ALBUM" :> "album")
             @@ ("album" :> "album") @@ ("long" :> "long")
KeySizes == [k \in DOMAIN LowerKeys |-> IF k = "long" THEN 50 ELSE 5]
=============================================================================
