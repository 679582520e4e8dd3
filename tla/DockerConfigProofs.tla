------------------------- MODULE DockerConfigProofs -------------------------
(***************************************************************************)
(* What the credential lookup gives, for any config file and any host.     *)
(***************************************************************************)
EXTENDS DockerConfig, TLAPS

(* The hosts callers ask for: an address, or Docker Hub's URL. *)
Hosts == {Bare(a) : a \in Addresses \cup HubAddresses} \cup {DefaultDockerRegistryAuthHost}

(* A bare host stands for its address (dockerconfig.go:219). *)
LEMMA BareAddress == \A a : Bare(a).address = a
  BY DEF Bare

(* A host is looked up under itself, or under Docker Hub's URL. *)
LEMMA NormalizedHost ==
    ASSUME NEW host \in Hosts
    PROVE  \/ host \in HubNames
              /\ NormalizeCredentialHost(host) = DefaultDockerRegistryAuthHost
           \/ host \notin HubNames /\ NormalizeCredentialHost(host) = host
<1>1. CASE host \in HubNames
  BY <1>1 DEF NormalizeCredentialHost
<1>2. CASE host \notin HubNames
  <2>1. PICK a : host = Bare(a)
    BY <1>2 DEF Hosts, HubNames
  <2>2. host.path = "" /\ TrimSlash("") = ""
    BY <2>1 DEF Bare, TrimSlash
  <2> QED
    BY <1>2, <2>1, <2>2 DEF NormalizeCredentialHost, Bare
<1> QED
  BY <1>1, <1>2

(* No bare name is Docker Hub's URL: fileAuth finds the credentials of the *)
(* Hub under that very key alone (dockerconfig.go:165, 237).               *)
LEMMA HubKeyNamesNoHost ==
    ASSUME NEW auths
    PROVE  Naming(auths, DefaultDockerRegistryAuthHost) = {}
  BY DEF Naming, ConvertToHostname, Bare, DefaultDockerRegistryAuthHost

(* Docker Hub gets the credentials of its URL's entry, or none: an entry   *)
(* under docker.io or another of its names is never used for it            *)
(* (dockerconfig.go:165-174, 235-237).                                     *)
THEOREM HubByItsURLAlone ==
    ASSUME NEW cfg, NEW host \in HubNames, FileDecides(cfg, host),
           DefaultDockerRegistryAuthHost \notin DOMAIN AuthConfigs(cfg)
    PROVE  Lookup(cfg, host) = {Answer(NoAuth)}
<1>1. NormalizeCredentialHost(host) = DefaultDockerRegistryAuthHost
  BY DEF NormalizeCredentialHost
<1>2. FileAuth(AuthConfigs(cfg), DefaultDockerRegistryAuthHost) = {NoAuth}
  BY HubKeyNamesNoHost DEF FileAuth
<1> QED
  BY <1>1, <1>2 DEF Lookup, FileDecides

(* All names of Docker Hub get the same answers, from the file as from a   *)
(* helper (dockerconfig.go:60, 235).                                       *)
THEOREM HubNamesAgree ==
    ASSUME NEW cfg, NEW g \in HubNames, NEW h \in HubNames
    PROVE  Lookup(cfg, g) = Lookup(cfg, h)
  BY DEF Lookup, NormalizeCredentialHost

(* Which credentials of the file an answer is made of, if of any. *)
LEMMA FileAuthSource ==
    ASSUME NEW auths, NEW host, NEW auth \in FileAuth(auths, host), auth # NoAuth
    PROVE  \E k \in DOMAIN auths :
              auth = auths[k] /\ (k = host \/ ConvertToHostname(k) = host)
<1>1. CASE host \in DOMAIN auths
  BY <1>1 DEF FileAuth
<1>2. CASE host \notin DOMAIN auths
  BY <1>2 DEF FileAuth, Naming
<1> QED
  BY <1>1, <1>2

(* No registry is ever sent another registry's credentials: what a lookup  *)
(* takes from the file is the entry of the same registry, whichever way    *)
(* its key is written (dockerconfig.go:54-81, 165-174, 219-240).           *)
THEOREM OwnCredentials ==
    ASSUME NEW cfg, NEW host \in Hosts, FileDecides(cfg, host),
           NEW answer \in Lookup(cfg, host), answer # Answer(NoAuth)
    PROVE  \E k \in DOMAIN cfg.auths :
              /\ answer = Answer(Loaded(cfg.auths[k]))
              /\ SameRegistry(k, host)
<1> DEFINE key == NormalizeCredentialHost(host)
           auths == AuthConfigs(cfg)
<1>1. PICK auth \in FileAuth(auths, key) : answer = Answer(auth)
  BY DEF Lookup, FileDecides
<1>2. auth # NoAuth
  BY <1>1
<1>3. PICK k \in DOMAIN auths :
         auth = auths[k] /\ (k = key \/ ConvertToHostname(k) = key)
  <2> HIDE DEF auths, key
  <2> QED
    BY <1>1, <1>2, FileAuthSource
<1>4. k \in DOMAIN cfg.auths /\ auth = Loaded(cfg.auths[k])
  BY <1>3 DEF AuthConfigs
<1>5. k.address = key.address
  BY <1>3, BareAddress DEF ConvertToHostname
<1>6. SameRegistry(key, host)
  <2>1. CASE host \in HubNames
    <3>1. DefaultDockerRegistryAuthHost.address \in HubAddresses
      BY DEF HubAddresses, DefaultDockerRegistryAuthHost
    <3>2. host.address \in HubAddresses
      BY <2>1, <3>1, BareAddress DEF HubNames, HubAddresses
    <3>3. key = DefaultDockerRegistryAuthHost
      BY <2>1, NormalizedHost
    <3> QED
      BY <3>1, <3>2, <3>3 DEF SameRegistry
  <2>2. CASE host \notin HubNames
    BY <2>2, NormalizedHost DEF SameRegistry
  <2> QED
    BY <2>1, <2>2
<1>7. SameRegistry(k, host)
  BY <1>5, <1>6 DEF SameRegistry
<1> QED
  BY <1>1, <1>4, <1>7

(* The order in which Go iterates over the map decides nothing when no two *)
(* keys of the file name one host: the lookup has one answer               *)
(* (dockerconfig.go:169).                                                  *)
THEOREM LookupDetermined ==
    ASSUME NEW cfg, NEW host, FileDecides(cfg, host), OneKeyPerHost(cfg)
    PROVE  \E answer : Lookup(cfg, host) = {answer}
<1> DEFINE key == NormalizeCredentialHost(host)
           auths == AuthConfigs(cfg)
<1>1. ASSUME NEW a \in FileAuth(auths, key), NEW b \in FileAuth(auths, key)
      PROVE  a = b
  <2>1. CASE key \in DOMAIN auths
    BY <1>1, <2>1 DEF FileAuth
  <2>2. CASE key \notin DOMAIN auths /\ Naming(auths, key) # {}
    <3>1. PICK j \in Naming(auths, key) : a = auths[j]
      BY <1>1, <2>2 DEF FileAuth
    <3>2. PICK k \in Naming(auths, key) : b = auths[k]
      BY <1>1, <2>2 DEF FileAuth
    <3>3. j \in DOMAIN cfg.auths /\ k \in DOMAIN cfg.auths
      BY <3>1, <3>2 DEF Naming, AuthConfigs
    <3>4. j = k
      BY <3>1, <3>2, <3>3 DEF Naming, OneKeyPerHost
    <3> QED
      BY <3>1, <3>2, <3>4
  <2>3. CASE key \notin DOMAIN auths /\ Naming(auths, key) = {}
    BY <1>1, <2>3 DEF FileAuth
  <2> QED
    BY <2>1, <2>2, <2>3
<1>2. FileAuth(auths, key) # {}
  BY DEF FileAuth
<1>3. Lookup(cfg, host) = {Answer(auth) : auth \in FileAuth(auths, key)}
  BY DEF Lookup, FileDecides
<1> HIDE DEF key, auths
<1>4. PICK auth : FileAuth(auths, key) = {auth}
  BY <1>1, <1>2
<1> QED
  BY <1>3, <1>4

(* The order does decide otherwise: two keys that name a host which has no *)
(* entry of its own give one lookup two answers (dockerconfig.go:169).     *)
THEOREM OrderDecides ==
    ASSUME NEW cfg, NEW host, FileDecides(cfg, host), cfg.state = "read",
           NEW j \in DOMAIN cfg.auths, NEW k \in DOMAIN cfg.auths,
           NormalizeCredentialHost(host) \notin DOMAIN cfg.auths,
           ConvertToHostname(j) = NormalizeCredentialHost(host),
           ConvertToHostname(k) = NormalizeCredentialHost(host)
    PROVE  {Answer(Loaded(cfg.auths[j])), Answer(Loaded(cfg.auths[k]))}
              \subseteq Lookup(cfg, host)
<1> DEFINE key == NormalizeCredentialHost(host)
           auths == AuthConfigs(cfg)
<1>1. DOMAIN auths = DOMAIN cfg.auths
  BY DEF AuthConfigs
<1>2. auths[j] = Loaded(cfg.auths[j]) /\ auths[k] = Loaded(cfg.auths[k])
  BY DEF AuthConfigs
<1>3. j \in Naming(auths, key) /\ k \in Naming(auths, key)
  BY <1>1 DEF Naming
<1>4. {auths[j], auths[k]} \subseteq FileAuth(auths, key)
  BY <1>1, <1>3 DEF FileAuth
<1> QED
  BY <1>2, <1>4 DEF Lookup, FileDecides

(* One entry that cannot be decoded fails the lookups of every host        *)
(* (dockerconfig.go:107-114).                                              *)
THEOREM OneBadEntryFailsAll ==
    ASSUME NEW cfg, cfg.state = "read", NEW k \in DOMAIN cfg.auths,
           cfg.auths[k].auth.state = "invalid", NEW host
    PROVE  Lookup(cfg, host) = {Failure}
  BY DEF Lookup, Loads
=============================================================================
