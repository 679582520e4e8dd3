---------------------------- MODULE DockerConfig ----------------------------
(***************************************************************************)
(* The credential lookup of pkg/containerd-erofs-grpc/credentials/         *)
(* dockerconfig.go, as operators: it keeps no state, and reads the config  *)
(* file anew each time.  The host it is asked for is the registry's in an  *)
(* image reference, or the one containerd's resolver talks to.             *)
(*                                                                         *)
(* A key of the config, or a host, is the address it names, with the scheme*)
(* and the path around it, if any.  Text is told by being blank or not.    *)
(* Go iterates over a map in any order, so that a lookup has a set of      *)
(* answers it may give.                                                    *)
(***************************************************************************)
CONSTANTS
    Addresses,          \* host or host:port
    DockerIO, IndexDockerIO, Registry1DockerIO,    \* three addresses of one registry
    Texts, Blank,       \* user names and secrets; the empty string
    Helpers, NoHelper,  \* credential helpers
    HelperAnswers(_, _) \* what a helper may answer about a key

(* The paths of keys; the rest of a longer one never matters. *)
Paths == {"", "/", "/v1", "/v1/"}
Keys == [scheme : BOOLEAN, address : Addresses, path : Paths]
Bare(a) == [scheme |-> FALSE, address |-> a, path |-> ""]
DefaultDockerRegistryAuthHost ==
    [scheme |-> TRUE, address |-> IndexDockerIO, path |-> "/v1/"]

(* dockerAuthConfig, with the auth field decoded; "none": it is empty. *)
Strings == Texts \cup {Blank}
Auths == [username : Strings, password : Strings, identityToken : Strings,
          registryToken : Strings]
NoAuth == [username |-> Blank, password |-> Blank, identityToken |-> Blank,
           registryToken |-> Blank]
Decoded == [state : {"none", "invalid", "valid"}, username : Strings, password : Strings]
Entries == [fields : Auths, auth : Decoded]

(* The file: auths, credHelpers and credsStore of a file that could be     *)
(* read and decoded.                                                       *)
Configs ==
    [state : {"missing", "broken", "read"},
     auths : UNION {[D -> Entries] : D \in SUBSET Keys},
     credHelpers : UNION {[D -> Helpers] : D \in SUBSET Keys},
     credsStore : Helpers \cup {NoHelper}]

Credentials == [username : Strings, secret : Strings]
Failure == "error"

-----------------------------------------------------------------------------
(* normalizeCredentialHost: the names of Docker Hub are one URL; of another*)
(* host one slash at the end is trimmed.                                   *)
HubNames == {Bare(DockerIO), Bare(IndexDockerIO), Bare(Registry1DockerIO),
             DefaultDockerRegistryAuthHost}

TrimSlash(path) == CASE path = "/" -> "" [] path = "/v1/" -> "/v1" [] OTHER -> path

NormalizeCredentialHost(host) ==
    IF host \in HubNames THEN DefaultDockerRegistryAuthHost
    ELSE [host EXCEPT !.path = TrimSlash(@)]

(* convertToHostname: what stands around the address is cut off. *)
ConvertToHostname(key) == Bare(key.address)

(* loadConfig: one entry that cannot be decoded fails the whole file. *)
Loads(cfg) ==
    \/ cfg.state = "missing"
    \/ cfg.state = "read" /\ \A k \in DOMAIN cfg.auths : cfg.auths[k].auth.state # "invalid"

(* ... and the decoded auth field takes the place of the entry's own user. *)
Loaded(e) ==
    IF e.auth.state = "none" THEN e.fields
    ELSE [e.fields EXCEPT !.username = e.auth.username, !.password = e.auth.password]

AuthConfigs(cfg) ==
    [k \in {j \in DOMAIN cfg.auths : cfg.state = "read"} |-> Loaded(cfg.auths[k])]

(* helperForHost: the helper of the host, else the store. *)
HelperForHost(cfg, host) ==
    IF cfg.state = "missing" THEN NoHelper
    ELSE IF host \in DOMAIN cfg.credHelpers THEN cfg.credHelpers[host]
    ELSE cfg.credsStore

(* fileAuth: the entry under the very host, else any entry whose key names *)
(* it.                                                                     *)
Naming(auths, host) == {k \in DOMAIN auths : ConvertToHostname(k) = host}

FileAuth(auths, host) ==
    IF host \in DOMAIN auths THEN {auths[host]}
    ELSE IF Naming(auths, host) # {} THEN {auths[k] : k \in Naming(auths, host)}
    ELSE {NoAuth}

(* lookupHelperAuth: exit status 1 says that there is nothing; a user named*)
(* <token> that the secret is an identity token.                           *)
HelperAuth(answer) ==
    CASE answer.status = "nothing" -> NoAuth
      [] answer.status = "token" -> [NoAuth EXCEPT !.identityToken = answer.secret]
      [] answer.status = "user" -> [NoAuth EXCEPT !.username = answer.username,
                                                  !.password = answer.secret]

(* Lookup: a token goes before the user's password, the identity token     *)
(* first.                                                                  *)
Answer(auth) ==
    IF auth.identityToken # Blank THEN [username |-> Blank, secret |-> auth.identityToken]
    ELSE IF auth.registryToken # Blank THEN [username |-> Blank, secret |-> auth.registryToken]
    ELSE [username |-> auth.username, secret |-> auth.password]

(* The answers Lookup may give. *)
Lookup(cfg, host) ==
    LET key == NormalizeCredentialHost(host)
        helper == HelperForHost(cfg, key)
    IN  IF ~Loads(cfg) THEN {Failure}
        ELSE IF helper # NoHelper
        THEN {IF a.status = "failed" THEN Failure ELSE Answer(HelperAuth(a)) :
                 a \in HelperAnswers(helper, key)}
        ELSE {Answer(auth) : auth \in FileAuth(AuthConfigs(cfg), key)}

-----------------------------------------------------------------------------
(* The registry a key or host stands for: Docker Hub has several addresses.*)
HubAddresses == {DockerIO, IndexDockerIO, Registry1DockerIO}
SameRegistry(j, k) ==
    j.address = k.address \/ (j.address \in HubAddresses /\ k.address \in HubAddresses)

(* No two keys of the file name the same host, however they are written. *)
OneKeyPerHost(cfg) ==
    \A j, k \in DOMAIN cfg.auths :
        ConvertToHostname(j) = ConvertToHostname(k) => j = k

(* The file decides, not a helper. *)
FileDecides(cfg, host) ==
    Loads(cfg) /\ HelperForHost(cfg, NormalizeCredentialHost(host)) = NoHelper
=============================================================================
