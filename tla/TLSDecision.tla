----------------------------- MODULE TLSDecision -----------------------------
(***************************************************************************)
(* Questions about the hop to the provider: every combination of flags with *)
(* every state of the places they point to.                                *)
(***************************************************************************)
EXTENDS ProviderTLS, Decision

Endpoints == {[host |-> "relay", port |-> 80], [host |-> "", port |-> 80], [host |-> "", port |-> 0]}
References == {<< >>, <<"ns", "name">>, <<"ns", "">>, <<"ns", "name", "more">>}

Contents(ca, cert, key) ==
    [n \in {"ca.crt", "tls.crt", "tls.key", "bundle"} |->
        CASE n = "ca.crt" -> ca [] n = "tls.crt" -> cert [] n = "tls.key" -> key [] OTHER -> ""]
Bundle(name, ca) == [n \in {"ca.crt", "tls.crt", "tls.key", "bundle"} |-> IF n = name THEN ca ELSE ""]

(* Directories: complete; between two files of a rotation; without a CA;    *)
(* with a CA that is no PEM; empty.                                        *)
Directories == {Contents("dirCA", "dir1", "dir1"), Contents("dirCA", "dir2", "dir1"),
                Contents("", "dir1", "dir1"), Contents("junk", "dir1", "dir1"), Contents("", "", "")}
Secrets == {Contents("secretCA", "sec1", "sec1"), Contents("", "sec1", "sec1"),
            Contents("secretCA", "sec1", ""), Contents("secretCA", "junk", "junk")}
Worlds ==
    {[files |-> f, secret |-> Contents("secretCA", "sec1", "sec1"), data |-> Bundle("ca.crt", "mapCA"),
      binary |-> Bundle("ca.crt", "")] : f \in Directories}
    \cup
    {[files |-> Contents("dirCA", "dir1", "dir1"), secret |-> s, data |-> d, binary |-> b] :
        s \in Secrets,
        d \in {Bundle("ca.crt", "mapCA"), Bundle("bundle", "bundleCA"), Bundle("ca.crt", "")},
        b \in {Bundle("ca.crt", "binaryCA"), Bundle("ca.crt", "")}}

TLSQuestions ==
    [about : {"tls"},
     flags : [provider : {"istio", "cilium", "calico", "other"},
              mode : {"issuer", "existingSecret", "insecure", "other"},
              dir : {"", "dir"}, secret : References, configMap : {<< >>, <<"ns", "name">>, <<"name">>},
              bundleKey : {"", "bundle"}, serverName : {"", "given"}, endpoint : Endpoints],
     world : Worlds]

Connect == Decide("tls", {SetupProviderScraper(question.flags, question.world)})

-----------------------------------------------------------------------------
(* The three places material may come from, and the CA that is asked for.  *)
Wanted(flags, world) ==
    LET bundle == IF flags.bundleKey = "" THEN "ca.crt" ELSE flags.bundleKey
        map == IF world.data[bundle] # "" THEN world.data[bundle] ELSE world.binary[bundle]
    IN  IF flags.secret = << >> THEN world.files
        ELSE IF flags.configMap = << >> THEN world.secret
        ELSE [world.secret EXCEPT !["ca.crt"] = map]

Complete(contents) ==
    /\ contents["ca.crt"] \notin {"", "junk"}
    /\ contents["tls.crt"] \notin {"", "junk"} /\ contents["tls.crt"] = contents["tls.key"]

(* Flags that ask for one thing: one place for the material, references of  *)
(* two parts, an endpoint the provider can use.                            *)
Consistent(flags) ==
    LET valid(ref) == Len(ref) = 2 /\ "" \notin {ref[1], ref[2]}
    IN  /\ (flags.dir = "") # (flags.secret = << >>)
        /\ flags.mode = "issuer" => flags.dir # "" /\ flags.configMap = << >>
        /\ flags.mode = "existingSecret" /\ flags.configMap # << >> =>
              flags.secret # << >> /\ valid(flags.configMap)
        /\ flags.secret # << >> => valid(flags.secret) /\ flags.provider # "istio"
        /\ IF flags.provider = "istio" THEN flags.endpoint.host = "" /\ flags.endpoint.port # 0
           ELSE flags.serverName # "" \/ flags.endpoint.host # ""

PlainAsAsked(flags, hop) ==
    hop.status = "plaintext" =>
        /\ flags.mode = "insecure" /\ flags.provider \in {"istio", "cilium"}
        /\ flags.dir = "" /\ flags.secret = << >> /\ flags.configMap = << >> /\ flags.serverName = ""

SecuredAsAsked(flags, wanted, hop) ==
    /\ hop.status = "tls" <=>
          /\ flags.mode \in {"issuer", "existingSecret"}
          /\ flags.provider \in {"istio", "cilium", "calico"}
          /\ Consistent(flags) /\ Complete(wanted)
    /\ hop.status = "tls" =>
          /\ hop.ca = wanted["ca.crt"] /\ hop.cert = wanted["tls.crt"]
          /\ flags.provider # "istio" =>
                hop.serverName = IF flags.serverName # "" THEN flags.serverName ELSE flags.endpoint.host

(* The hop is in plain text only when that was asked for, of a provider     *)
(* that allows it, and with no flag that suggests otherwise.  A secured hop *)
(* presents a certificate with its own key, from the one place the flags    *)
(* name, and trusts exactly the CA they name: a missing ConfigMap or key is *)
(* never made up for by another CA.  And with consistent flags and complete *)
(* material there is a secured hop (Validate, New, SecretSource.Get,        *)
(* setupProviderScraper, ServerCredentials).                               *)
TLSAsAsked ==
    About("tls") =>
        \A hop \in answer :
            /\ PlainAsAsked(question.flags, hop)
            /\ SecuredAsAsked(question.flags, Wanted(question.flags, question.world), hop)
==============================================================================
