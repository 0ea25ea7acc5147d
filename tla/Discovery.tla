----------------------------- MODULE Discovery -----------------------------
(***************************************************************************)
(* What the tools of one scan hand to each other: subfinder's hostnames,   *)
(* dnsx's addresses, naabu's open ports, httpx's URLs, nuclei's targets    *)
(* (the loop of Pipeline.Run and detection/subfinder.go, dnsx.go, naabu.go,*)
(* httpx.go, nuclei.go).  A hostname or an address is a model value, an    *)
(* input of a tool says where to dial and on whose behalf.                 *)
(***************************************************************************)
EXTENDS Naturals, Sequences, FiniteSets, SequencesExt, FiniteSetsExt

CONSTANTS Hosts, Root,     \* hostnames of the target; its own
          Addresses, Addr, \* Addr[h]: the addresses that DNS has for h
          Elsewhere,       \* a host that is none of the target's
          NoHost,
          MaxUrls          \* bound on the URLs that httpx records

ASSUME DiscoveryAssumption ==
  /\ Root \in Hosts /\ Addr \in [Hosts -> SUBSET Addresses]
  /\ MaxUrls \in Nat /\ IsFiniteSet(Hosts)
  /\ Hosts \cap Addresses = {} /\ {Elsewhere, NoHost} \cap (Hosts \cup Addresses) = {}

VARIABLES kind,      \* scan type
          stage,     \* the tool that runs
          hostnames,
          looked,    \* hosts whose lookups are over
          results,   \* dnsx's results, in the order in which lookups ended
          inputs,    \* of the next tool
          ported,    \* naabu has run and has not failed
          urls,      \* what httpx has recorded
          assessed   \* the URLs handed to nuclei

nameVars == <<kind, stage, hostnames, looked, results, inputs, ported, urls, assessed>>

Names == Hosts \cup Addresses
Input == [behalf : Hosts \cup {NoHost}, dial : Names]
Url == [host : Names \cup {Elsewhere}, from : Names \cup {Elsewhere}, cert : BOOLEAN]
Stages == {"discovery", "resolution", "port_scan", "http_probe", "assessment", "completed", "failed"}

NamesTypeOK ==
  /\ kind \in {"full", "quick", "discovery"} /\ stage \in Stages
  /\ hostnames \subseteq Hosts /\ looked \subseteq Hosts
  /\ results \in Seq(Hosts) /\ Len(results) <= Cardinality(Hosts)
  /\ inputs \subseteq Input /\ ported \in BOOLEAN
  /\ urls \subseteq Url /\ assessed \subseteq urls

Plain(names) == [behalf : {NoHost}, dial : names]

NamesInit ==
  /\ kind \in {"full", "quick", "discovery"} /\ stage = "discovery"
  /\ hostnames = {Root} /\ looked = {} /\ results = <<>>
  /\ inputs = Plain({Root}) /\ ported = FALSE /\ urls = {} /\ assessed = {}

-----------------------------------------------------------------------------
(* discovery and resolution *)

\* subfinder: whatever its sources know, an error of one of them included, and always the root.
Enumerate ==
  /\ stage = "discovery" /\ stage' = "resolution"
  /\ \E found \in SUBSET Hosts : hostnames' = found \cup {Root}
  /\ inputs' = Plain(hostnames')
  /\ UNCHANGED <<kind, looked, results, ported, urls, assessed>>

\* It could not be set up: the one tool whose failure fails the scan.
EnumerateFails ==
  /\ stage = "discovery" /\ stage' = "failed"
  /\ UNCHANGED <<kind, hostnames, looked, results, inputs, ported, urls, assessed>>

\* dnsx: the lookup of a host yields its addresses, or an error after the last retry.
Lookup(h) ==
  /\ stage = "resolution" /\ h \in hostnames \ looked
  /\ looked' = looked \cup {h}
  /\ \/ Addr[h] # {} /\ results' = Append(results, h)
     \/ UNCHANGED results
  /\ UNCHANGED <<kind, stage, hostnames, inputs, ported, urls, assessed>>

ResolvedIps == UNION {Addr[h] : h \in ToSet(results)}

\* resolved_from: an address belongs to the first result that has it.
OwnerOfIp(ip) == results[Min({k \in 1..Len(results) : ip \in Addr[results[k]]})]

\* narrowHostnamesByResolution: those that own an address; if there is none, all.
Narrowed == IF results = <<>> THEN hostnames ELSE hostnames \cap {OwnerOfIp(ip) : ip \in ResolvedIps}

\* The stage that follows, by what shouldSkip says of the scan type.
AfterResolution == CASE kind = "full" -> "port_scan" [] kind = "quick" -> "http_probe"
                     [] kind = "discovery" -> "completed"

\* extractInputsForNextPhase, mergeHostnames: the addresses, and the hostnames that are left.
ResolutionDone ==
  /\ stage = "resolution" /\ looked = hostnames
  /\ hostnames' = Narrowed
  /\ inputs' = Plain(ResolvedIps \cup Narrowed)
  /\ stage' = AfterResolution
  /\ UNCHANGED <<kind, looked, results, ported, urls, assessed>>

-----------------------------------------------------------------------------
(* port_scan *)

\* (Mutant: the owner is not attached.)
EnrichNone(n) == [behalf |-> NoHost, dial |-> n]

\* enrichHostports: an address is dialled on behalf of its owner.
Enrich(n) == [behalf |-> IF n \in ResolvedIps THEN OwnerOfIp(n) ELSE NoHost, dial |-> n]

\* naabu finds open ports, not filtered ones, at some of its inputs.
ScanPorts ==
  /\ stage = "port_scan" /\ stage' = "http_probe" /\ ported' = TRUE
  /\ \E open \in SUBSET {x.dial : x \in inputs} : inputs' = {Enrich(n) : n \in open} \cup Plain(hostnames)
  /\ UNCHANGED <<kind, hostnames, looked, results, urls, assessed>>

\* A list of ports that does not parse: a failed tool leaves the inputs to the next one.
ScanPortsFails ==
  /\ stage = "port_scan" /\ stage' = "http_probe"
  /\ UNCHANGED <<kind, hostnames, looked, results, inputs, ported, urls, assessed>>

-----------------------------------------------------------------------------
(* http_probe *)

\* buildProbeURLs: the host that is expected to answer; for a bare address anyone may.
ExpectedHost(x) == IF x.behalf # NoHost THEN x.behalf ELSE IF x.dial \in Hosts THEN x.dial ELSE NoHost

\* What comes back after redirects: from which host, with which certificate (none: plaintext).
Answers ==
  LET From == Names \cup {Elsewhere}
  IN [final : From, tls : {TRUE}, covers : {{}} \cup {{h} : h \in Hosts}] \cup [final : From, tls : {FALSE}, covers : {{}}]

ScopeMatches(expected, r, dialed) ==
  \/ r.final = expected
  \/ r.tls /\ expected \in r.covers
  \/ ~r.tls /\ dialed \in Addresses /\ r.final = dialed

InScopeOf(x, r) == ExpectedHost(x) = NoHost \/ ScopeMatches(ExpectedHost(x), r, x.dial)

\* recordedURL, with who answered and what its certificate said.
Recorded(x, r) ==
  [host |-> IF ExpectedHost(x) = NoHost THEN r.final ELSE ExpectedHost(x), from |-> r.final,
   cert |-> r.tls /\ ExpectedHost(x) \in r.covers]

\* httpx: an answer to one of the probes of an input; those without one, or out of scope, leave nothing.
ProbeURL(x) ==
  /\ stage = "http_probe" /\ x \in inputs /\ Cardinality(urls) < MaxUrls
  /\ \E r \in Answers : InScopeOf(x, r) /\ urls' = urls \cup {Recorded(x, r)}
  /\ UNCHANGED <<kind, stage, hostnames, looked, results, inputs, ported, assessed>>

\* isIPBasedURL decides what nuclei gets: the URLs of hostnames, or else those of addresses.
ForNuclei == IF \E u \in urls : u.host \notin Addresses THEN {u \in urls : u.host \notin Addresses} ELSE urls

\* Without any URL the rest is skipped.
ProbesDone ==
  /\ stage = "http_probe"
  /\ stage' = IF urls = {} THEN "completed" ELSE "assessment"
  /\ assessed' = ForNuclei
  /\ UNCHANGED <<kind, hostnames, looked, results, inputs, ported, urls>>

\* nuclei's findings, or its failure, end the loop.
Assess ==
  /\ stage = "assessment" /\ stage' = "completed"
  /\ UNCHANGED <<kind, hostnames, looked, results, inputs, ported, urls, assessed>>

NamesNext ==
  \/ Enumerate \/ EnumerateFails \/ ResolutionDone \/ ScanPorts \/ ScanPortsFails \/ ProbesDone \/ Assess
  \/ \E h \in Hosts : Lookup(h)
  \/ \E x \in inputs : ProbeURL(x)

NamesSpec == NamesInit /\ [][NamesNext]_nameVars

-----------------------------------------------------------------------------
(* Properties *)

\* A URL stands under a hostname only if that name itself answered, or an address that DNS has for it, or
\* someone whose certificate covers it, in whatever order lookups that share addresses ended; and when the
\* port scan has run, nuclei is never sent to a host that is not the target's, wherever probes were
\* redirected (httpx.go:98-107, pipeline.go:440-441).
InScope ==
  /\ \A u \in urls : u.host \in Hosts => u.from = u.host \/ u.cert \/ u.from \in Addr[u.host]
  /\ ported => \A u \in assessed : u.host \in Hosts

\* A host that dnsx has resolved stays: "narrowHostnamesByResolution returns the subset of `hostnames` that
\* produced at least one resolved IP during the resolution phase" (pipeline.go:793-794).
ResolvedAreKept == stage \in {"port_scan", "http_probe"} => ToSet(results) \subseteq hostnames
=============================================================================
