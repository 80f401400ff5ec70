----------------------------- MODULE ProviderTLS -----------------------------
(***************************************************************************)
(* How the hop to the provider is secured: the checks on the flags at       *)
(* start-up (cmd/controller, internal/certsource), the places the material  *)
(* is read from, and the credentials made of it (internal/tlsutil).        *)
(*                                                                         *)
(* Flags are [provider, mode, dir, secret, configMap, bundleKey,            *)
(* serverName, endpoint]; an unset flag is "", a reference is the sequence  *)
(* of its parts between slashes, and an endpoint is [host, port], host ""   *)
(* for a bare port, port 0 when it cannot be read.  The world is [files,    *)
(* secret, data, binary]: each a function from names to contents, "" where  *)
(* there is none.  A certificate and a key fit when their contents are      *)
(* equal; "junk" is no PEM.                                                *)
(***************************************************************************)
EXTENDS Naturals, Sequences

Parses(pem) == pem \notin {"", "junk"}

(* LoadKeyPair, LoadKeyPairFromPEM *)
KeyPair(cert, key) == Parses(cert) /\ cert = key

IsNamespacedName(ref) == Len(ref) = 2 /\ ref[1] # "" /\ ref[2] # ""

ValidateCertDir(files) == KeyPair(files["tls.crt"], files["tls.key"])

ValidateIssuer(flags, world) ==
    /\ flags.dir # "" /\ flags.secret = << >> /\ flags.configMap = << >>
    /\ ValidateCertDir(world.files)

ValidateExistingSecret(flags, world) ==
    /\ (flags.dir # "") # (flags.secret # << >>)
    /\ flags.dir # "" => flags.configMap = << >> /\ ValidateCertDir(world.files)
    /\ flags.secret # << >> =>
          /\ IsNamespacedName(flags.secret)
          /\ flags.configMap # << >> => IsNamespacedName(flags.configMap)

Validate(flags, world) ==
    CASE flags.mode = "insecure" ->
            /\ flags.dir = "" /\ flags.secret = << >> /\ flags.configMap = << >>
            /\ flags.serverName = ""
      [] flags.mode = "issuer" -> ValidateIssuer(flags, world)
      [] flags.mode = "existingSecret" -> ValidateExistingSecret(flags, world)
      [] OTHER -> FALSE

(* newProviderCertSource and New, on flags that have been validated: where  *)
(* material is read from, nothing for an insecure hop.                      *)
NewProviderCertSource(flags) ==
    CASE flags.mode = "insecure" -> "none"
      [] flags.mode # "insecure" /\ flags.dir # "" -> "dir"
      [] OTHER -> "secret"

(* caFromConfigMap: text before binary data. *)
CAFromConfigMap(flags, world) ==
    LET name == IF flags.bundleKey = "" THEN "ca.crt" ELSE flags.bundleKey
    IN  IF world.data[name] # "" THEN world.data[name] ELSE world.binary[name]

\* Mutant: the CA of the Secret stands in for a missing ConfigMap.
GetWithFallback(flags, world) ==
    LET from == IF flags.dir # "" THEN world.files ELSE world.secret
        ca == IF flags.dir = "" /\ flags.configMap # << >> /\ CAFromConfigMap(flags, world) # ""
              THEN CAFromConfigMap(flags, world) ELSE from["ca.crt"]
        material == [ca |-> ca, cert |-> from["tls.crt"], key |-> from["tls.key"]]
    IN  {m \in {material} : "" \notin {m.ca, m.cert, m.key}}

(* DirSource.Get and SecretSource.Get: all three, or an error. *)
GetMaterial(flags, world) ==
    LET from == IF flags.dir # "" THEN world.files ELSE world.secret
        ca == IF flags.dir = "" /\ flags.configMap # << >>
              THEN CAFromConfigMap(flags, world) ELSE from["ca.crt"]
        material == [ca |-> ca, cert |-> from["tls.crt"], key |-> from["tls.key"]]
    IN  {m \in {material} : "" \notin {m.ca, m.cert, m.key}}

Hop(status, ca, cert, serverName) ==
    [status |-> status, ca |-> ca, cert |-> cert, serverName |-> serverName]
Refused == Hop("refused", "", "", "")
Failing == Hop("failing", "", "", "")
Plaintext == Hop("plaintext", "", "", "")

(* resolveTLSServerName *)
ServerName(flags) == IF flags.serverName # "" THEN flags.serverName ELSE flags.endpoint.host

(* transportCredentials and dialOptions; a failure is retried. *)
ClientCredentials(flags, world) ==
    LET usable == {m \in GetMaterial(flags, world) : Parses(m.ca) /\ KeyPair(m.cert, m.key)}
    IN  IF usable = {} \/ ServerName(flags) = "" THEN Failing
        ELSE LET m == CHOOSE x \in usable : TRUE IN Hop("tls", m.ca, m.cert, ServerName(flags))

(* ServerCredentials, at start-up and again on every handshake. *)
ServerCredentials(world) ==
    IF ValidateCertDir(world.files) /\ Parses(world.files["ca.crt"])
    THEN Hop("tls", world.files["ca.crt"], world.files["tls.crt"], "")
    ELSE Refused

(* run and setupProviderScraper, then the first connection: what the hop    *)
(* is like, or why there is none.                                          *)
SetupProviderScraper(flags, world) ==
    IF ~Validate(flags, world) THEN Refused
    ELSE CASE flags.provider = "istio" ->
                IF flags.endpoint.host # "" \/ flags.endpoint.port = 0 THEN Refused
                ELSE IF flags.mode # "insecure" /\ flags.dir = "" THEN Refused
                ELSE IF flags.dir = "" THEN Plaintext ELSE ServerCredentials(world)
           [] flags.provider = "cilium" ->
                IF NewProviderCertSource(flags) = "none" THEN Plaintext ELSE ClientCredentials(flags, world)
           [] flags.provider = "calico" ->
                IF flags.mode = "insecure" THEN Refused ELSE ClientCredentials(flags, world)
           [] OTHER -> Refused
==============================================================================
