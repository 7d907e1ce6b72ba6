--------------------------- MODULE MCMeshScopes ----------------------------
(* Two regions; a case with and one without a surface to snap to.           *)
EXTENDS MeshScopes, TLC
CONSTANTS fluid, solid, v1, v2
VersionSymmetry == Permutations({v1, v2})
MCScopeOrder == <<fluid, solid>>
MCRequired == {BlockDict(fluid), PolyMesh(solid), Properties}
MCHints == {Call("renumberMesh", fluid), Call("createBaffles", fluid),
            Call("blockMesh", solid), Call("surfaceFeatures", Absent),
            Call("checkMesh", solid)}
MCBundles == {{BlockDict(fluid), BlockDict(solid), SnapDict(solid), FeatureDict, TriSurface, Properties},
              {BlockDict(fluid), Properties}}
=============================================================================
