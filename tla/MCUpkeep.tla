------------------------------ MODULE MCUpkeep ------------------------------
(***************************************************************************)
(* What goes on beside the requests, for TLC: events on the bus            *)
(* (RefDelivery), passes over videos and recordings (MediaPasses) and the  *)
(* commands that move originals (Retyping).  The three share no state: one *)
(* of them moves in a behaviour, so that their state spaces add up.        *)
(***************************************************************************)
EXTENDS TLC, MediaPasses, RefDelivery, Retyping

VARIABLE part

-----------------------------------------------------------------------------
(* Tables of videos and recordings, with what may happen to each; tools and *)
(* what they draw.                                                          *)

MCBounds == (<<"video">>          :> [lost |-> 1, deploys |-> 2, passes |-> 1])
         @@ (<<"audio">>          :> [lost |-> 1, deploys |-> 2, passes |-> 1])
         @@ (<<"audio", "audio">> :> [lost |-> 0, deploys |-> 0, passes |-> 1])

Tools(ffmpeg, libvips, budget) == [ffmpeg |-> ffmpeg, libvips |-> libvips, budget |-> budget]
MCTables == DOMAIN MCBounds

MCDeployments == {Tools(TRUE, TRUE, 2), Tools(TRUE, FALSE, 2), Tools(FALSE, FALSE, 2)}

MCFrames == {[png |-> 2, webp |-> <<3, 2>>], [png |-> 4, webp |-> <<4, 4>>],
           [png |-> 2, webp |-> <<>>]}

-----------------------------------------------------------------------------
(* Images to retype: shared by two owners, claimed by two consumers, stored *)
(* under the new type already, or public although their site has a mark.    *)

MCWatermarked == {<<From, SiteKey>>, <<To, SiteKey>>}

Stored(tree, type, owner, site, refs, name) ==
    [type |-> type, owner |-> owner, site |-> site, refs |-> refs,
     path |-> [tree |-> tree, type |-> type, name |-> name]]

MCImageTables ==
    {<<Stored("public", From, "u", "", Claims, "a"), Stored("public", From, "v", "", {}, "a")>>,
     <<Stored("public", From, "u", SiteKey, Claims \cup OtherKeys, "a"),
       Stored("public", To, "v", SiteKey, {}, "a")>>,
     <<Stored("public", From, "u", SiteKey, Claims, "a"), Stored("public", To, "u", "", Claims, "b"),
       Stored("public", From, "v", "", {}, "a")>>}

-----------------------------------------------------------------------------
UpkeepInit ==
    /\ part \in {"events", "passes", "retypes"}
    /\ DeliveryInit
    /\ Init
    /\ part # "passes" => deploy = Tools(TRUE, TRUE, 2) /\ media = <<"video">> /\ lost = {}
    /\ RetypingInit
    /\ part # "retypes" => Len(images) = 3

UpkeepNext ==
    \/ part = "events"  /\ DeliveryNext  /\ UNCHANGED <<part, vars, retypingVars>>
    \/ part = "passes"  /\ Next         /\ UNCHANGED <<part, deliveryVars, retypingVars>>
    \/ part = "retypes" /\ RetypingNext /\ UNCHANGED <<part, vars, deliveryVars>>

UpkeepSpec ==
    UpkeepInit /\ [][UpkeepNext]_<<part, vars, deliveryVars, retypingVars>> /\ Fairness

UpkeepTypeOK == DeliveryTypeOK /\ TypeOK /\ RetypingTypeOK
=============================================================================
