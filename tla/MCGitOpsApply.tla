----------------------------- MODULE MCGitOpsApply -----------------------------
(* A small instance of GitOpsApply for TLC. *)
EXTENDS GitOpsApply, TLC

CONSTANTS f, g, r, q, e, x, h, i1, s

MCLayerOf == f :> "files" @@ g :> "files" @@ r :> "registries" @@ q :> "registries" @@ e :> "entities"
             @@ x :> "addons" @@ h :> "hacs" @@ i1 :> "integrations"
             @@ s :> "subentries"
MCManifests == {{f, r, e, s}, {f, g, x, q}, {h}, {h, i1, s}}
=============================================================================
