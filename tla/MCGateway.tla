----------------------------- MODULE MCGateway -----------------------------
(***************************************************************************)
(* Two threads and two agents of different clusters; one version is         *)
(* accepted, the other is below the minimum.                                *)
(***************************************************************************)
EXTENDS Gateway, TLC

CONSTANTS u1, u2, c1, c2, r1, r2

MCUrls == {u1, u2}
MCUses == (r1 :> {"proxy", "login"}) @@ (r2 :> {"clusters"})
MCRank == (u1 :> 1) @@ (u2 :> 2)
MCClusterOf == (u1 :> c1) @@ (u2 :> c2)
MCVersions == {<<6, 0>>, <<5, 10>>}
MCReleases == (u1 :> MCVersions) @@ (u2 :> {<<6, 0>>})
MCMinimum == <<6>>
MCRacksDBVersion == (u1 :> <<>>) @@ (u2 :> <<0, 5, 1>>)
MCRacksDBMinimum == <<0, 5>>
MCGranted == {u1}
=============================================================================
