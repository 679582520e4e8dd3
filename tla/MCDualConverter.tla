--------------------------- MODULE MCDualConverter ---------------------------
(***************************************************************************)
(* Instances of DualConverter for TLC.                                     *)
(***************************************************************************)
EXTENDS DualConverter, TLC

CONSTANTS c1, c2

MCOne == {c1}
MCTwo == {c1, c2}
MCSymmetry == Permutations(MCTwo)

On(arch, features) == [arch |-> arch, features |-> features]
Desc(type, blob, platform) == [type |-> type, blob |-> blob, platform |-> platform]

(* A manifest of tar layers in a registry's format: "oci" or "docker". *)
Image(format, arch, layers) ==
    [kind |-> "manifest", type |-> format \o ".manifest", artifact |-> FALSE,
     config |-> [type |-> format \o ".config",
                 blob |-> [kind |-> "config", arch |-> arch, features |-> <<>>,
                           diffIDs |-> [n \in DOMAIN layers |-> Tar(layers[n])]]],
     layers |-> [n \in DOMAIN layers |->
                    [type |-> format \o ".layer", blob |-> Tar(layers[n]),
                     manifest |-> NoBlob]]]

Arm64 == Image("oci", "arm64", <<"l0">>)
Docker == Image("docker", "amd64", <<"l0", "l1">>)

SBOM ==
    [kind |-> "manifest", type |-> "oci.manifest", artifact |-> TRUE,
     config |-> [type |-> "empty", blob |-> [kind |-> "other", of |-> "{}"]],
     layers |-> <<[type |-> "sbom", blob |-> [kind |-> "other", of |-> "sbom"],
                   manifest |-> NoBlob]>>]

(* An image whose layer is no tar and has no diff ID. *)
Odd ==
    [Arm64 EXCEPT !.layers = <<[type |-> "sbom",
                                blob |-> [kind |-> "other", of |-> "sbom"],
                                manifest |-> NoBlob]>>]

(* An index with an image, one of another platform and an artifact; the    *)
(* first image by itself; two that fail.                                   *)
MCSources ==
    [multi |->
         Desc("docker.index",
              Index(<<Desc("docker.manifest", Docker, On("amd64", <<"sse4">>)),
                      Desc("oci.manifest", Odd, On("arm64", <<>>)),
                      Desc("oci.manifest", SBOM, NoPlatform)>>),
              NoPlatform),
     single |-> Desc("docker.manifest", Docker, NoPlatform),
     odd |-> Desc("oci.manifest", Odd, NoPlatform),
     empty |-> Desc("oci.manifest", Image("oci", "amd64", <<>>), NoPlatform)]

MCRemovable == {"multi", "single"}
MCAmd64 == {On("amd64", <<"sse4">>)}

(* The native form of an image, pulled with all its platforms.             *)
Native ==
    Desc("oci.index", Index(Pair(Desc("oci.manifest", Arm64, On("arm64", <<>>)))),
         NoPlatform)

MCNative == [native |-> Native]
MCAll == {On("arm64", <<>>), On("arm64", <<"erofs">>)}
=============================================================================
