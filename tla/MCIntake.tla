------------------------------ MODULE MCIntake ------------------------------
(***************************************************************************)
(* The intake for TLC: an upload arriving (SpeedLimiter), an import on the *)
(* network (ImportFetch) and what both store (UploadDoors).  The three     *)
(* share no state: one of them moves in a behaviour, so that their state   *)
(* spaces add up instead of multiplying.                                   *)
(***************************************************************************)
EXTENDS SpeedLimiter, ImportFetch, UploadDoors

VARIABLE part

-----------------------------------------------------------------------------
(* Addresses, bodies, file parts and deployments worth looking at.          *)

MCUrls == {[scheme |-> "https", host |-> TRUE], [scheme |-> "https", host |-> FALSE],
           [scheme |-> "http", host |-> TRUE]}

MCAddresses == {[form |-> "v4", range |-> "global"], [form |-> "v4", range |-> "cgnat"],
                [form |-> "v6", range |-> "loopback"], [form |-> "sixtofour", range |-> "private"],
                [form |-> "mapped", range |-> "private"], [form |-> "nat64", range |-> "link_local"]}

MCBody(form, size, pixels, whole) ==
    [form |-> form, size |-> size, pixels |-> pixels, whole |-> whole]
Jpg  == MCBody(".jpg", 1, 1, TRUE)
Torn == MCBody(".jpg", 1, 1, FALSE)
Bomb == MCBody(".jpg", 1, 3, TRUE)
Heic == MCBody(".heic", 1, 1, TRUE)
Page == MCBody("markup", 1, 0, TRUE)
Clip == MCBody("opaque", 2, 0, TRUE)
Huge == MCBody("opaque", 3, 0, TRUE)

Sent(body, ext, mime, stem) == [body |-> body, ext |-> ext, mime |-> mime, stem |-> stem]

Short == 3
Long == 40
MCParts == {Sent(Jpg, ".jpg", "", Short), Sent(Jpg, ".bin", "", Short), Sent(Torn, ".jpg", "", Long),
          Sent(Bomb, ".jpg", "", Short), Sent(Heic, ".heic", "", Short), Sent(Page, ".jpg", "", Short),
          Sent(Page, ".mp4", "", Short), Sent(Clip, ".mp4", "", Long), Sent(Huge, ".mp4", "", Short),
          Sent(Page, ".txt", "text/plain", Short), Sent(Clip, ".txt", "text/plain", Short),
          Sent(Clip, ".txt", "", Short), Sent(Page, ".ogg", "", Short), Sent(Clip, ".ogg", "", Short)}

MCFetched == {Jpg, Torn, Heic, Page}

Deployed(types, default, decodes, require, scope, objects, bytes) ==
    [types |-> types, default |-> default, decodes |-> decodes, require |-> require,
     scope |-> scope, objects |-> objects, bytes |-> bytes]

MCDeployments ==
    {Deployed({"avatar"}, "", {".jpg"}, TRUE, "owner", <<1>>, <<>>),
     Deployed({"avatar", "product"}, "", {".jpg", ".heic"}, TRUE, "owner", <<>>, <<0>>),
     Deployed({"avatar", "product"}, "product", {}, FALSE, "owner", <<>>, <<3>>),
     Deployed({"avatar", "product"}, "", {".jpg", ".heic"}, TRUE, "global", <<0>>, <<>>),
     Deployed({"product"}, "", {}, TRUE, "owner", <<1>>, <<>>),
     Deployed({"product"}, "", {".jpg"}, TRUE, "owner", <<1>>, <<>>)}

Media == {"image", "video", "audio", "file"}
MCMaxSize == [m \in Media |-> 2]
MCAllowed == [image |-> {".jpg", ".heic"}, video |-> {".mp4"}, audio |-> {".ogg"}, file |-> {".txt"}]
MCPrefixLength == [m \in Media |-> IF m = "image" THEN 20 ELSE 25]

-----------------------------------------------------------------------------
IntakeInit ==
    /\ part \in {"speed", "fetch", "doors"}
    /\ SpeedInit
    /\ Init
    /\ IF part = "doors" THEN DoorsInit
       ELSE /\ conf = CHOOSE d \in Deployments : TRUE
            /\ rows = <<>>
            /\ reply = NoReply

IntakeNext ==
    \/ part = "speed" /\ SpeedNext /\ UNCHANGED <<part, vars, doorsVars>>
    \/ part = "fetch" /\ Next /\ UNCHANGED <<part, speedVars, doorsVars>>
    \/ part = "doors" /\ DoorsNext /\ UNCHANGED <<part, speedVars, vars>>

IntakeSpec == IntakeInit /\ [][IntakeNext]_<<part, speedVars, vars, doorsVars>> /\ Fairness

IntakeTypeOK == SpeedTypeOK /\ TypeOK /\ DoorsTypeOK
=============================================================================
