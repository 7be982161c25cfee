------------------------------ MODULE AcornDNS ------------------------------
(***************************************************************************)
(* The domain of a cluster at the AcornDNS service, its record and its      *)
(* wildcard certificate.  Six activities work on the DNS secret, the DNS    *)
(* ingress and the TLS secret: the handler of the configuration             *)
(* (controller/config/dns.go), of the DNS secret (controller/secrets/dns.go),*)
(* of the ingress (controller/ingress/dns.go) and of the TLS secret         *)
(* (controller/tls), the renewal daemon (pkg/dns) and the goroutines that   *)
(* order certificates.                                                      *)
(*                                                                          *)
(* A domain is the number of its reservation, a token is good for the       *)
(* domain it came with, and the settings of Let's Encrypt are a number.     *)
(* acorn-dns "auto" comes to enabled or disabled with the domains of the    *)
(* configuration and is not a mode of its own.                              *)
(*                                                                          *)
(* The handlers and the daemon read the DNS secret from the controller's    *)
(* cache, which may lag behind their own writes too; only the second read of *)
(* the config handler and the goroutines go past it.                        *)
(***************************************************************************)
EXTENDS Naturals

CONSTANTS
    None,        \* no object, no record, no hash
    MaxDomains,  \* bound: domains reserved
    MaxTrouble   \* bound: acorn-dns enabled or disabled, requests that fail, domains and records
                 \* lost, certificates that expire, other settings, another address, and config
                 \* handlers that work with a secret from before it was changed

NoDomain == 0
Domains == 1..MaxDomains
AllDomains == {NoDomain} \cup Domains
Addresses == 1..(MaxTrouble + 1)
Modes == {"enabled", "disabled"}

ASSUME AcornDNSAssumption ==
    /\ {MaxDomains, MaxTrouble} \subseteq Nat
    /\ None \notin Nat

VARIABLES
    mode,      \* acorn-dns in the configuration
    settings,  \* of Let's Encrypt in the configuration
    sec,       \* the DNS secret: domain, token, and the state it was written in
    seen,      \* what the controller's cache shows of it
    ing,       \* the DNS ingress: the domain of its host, and its hash annotation
    lb,        \* address of the load balancer
    tls,       \* the TLS secret: domain, and the settings the certificate was ordered under
    known,     \* the service: domains it knows
    last,      \* the service: the last domain it gave out
    record,    \* the service: the wildcard record of each domain
    ch, ih, dm,   \* config handler, ingress handler, daemon: what they are doing, with what they read
    order,     \* the order under way for each domain (CertificateRequests)
    trouble

cluster == <<sec, ing, tls>>
service == <<known, last, record>>
config == <<mode, settings, lb>>
vars == <<config, cluster, seen, service, ch, ih, dm, order, trouble>>

Idle == [at |-> "idle"]

Trouble == trouble < MaxTrouble /\ trouble' = trouble + 1

-----------------------------------------------------------------------------
(* ClearDNSToken *)

\* The service does not know the domain.  The update is refused if the secret is
\* not the one that was read.  While the config handler is at work with the token
\* it may write it back; that race is bounded.
ClearDNSToken(read) ==
    /\ sec' = IF sec = read THEN [sec EXCEPT !.token = FALSE] ELSE sec
    /\ IF sec = read /\ ch.at \notin {"idle", "cert"} /\ ch.token THEN Trouble ELSE UNCHANGED trouble

-----------------------------------------------------------------------------
(* The handler of the configuration *)

HasToken(s) == s # None /\ s.token
DomainOf(s) == IF s = None THEN NoDomain ELSE s.domain

\* Records are purged if the state written on the secret is not disabled yet.
MustPurge(m, s) == m = "disabled" /\ HasToken(s) /\ s.state # "disabled"

\* Mutant: a token that is there is not looked at.
MustReserveAlways(m, s) == m # "disabled"

MustReserve(m, s) == m # "disabled" /\ ~HasToken(s)

\* What the cache shows may be older than the last write of this very handler; such
\* passes are bounded.
StartConfig ==
    /\ ch.at = "idle"
    /\ ch' = [at |-> CASE MustPurge(mode, seen) -> "purge"
                       [] MustReserve(mode, seen) -> "reserve"
                       [] OTHER -> "write",
              read |-> seen, state |-> mode, domain |-> DomainOf(seen), token |-> HasToken(seen)]
    /\ IF seen = sec THEN UNCHANGED trouble ELSE Trouble
    /\ UNCHANGED <<config, cluster, seen, service, ih, dm, order>>

PurgeRecords ==
    /\ ch.at = "purge"
    /\ IF ch.domain \in known
       THEN /\ record' = [record EXCEPT ![ch.domain] = None]
            /\ ch' = [ch EXCEPT !.at = "write"]
            /\ UNCHANGED sec
       ELSE /\ sec' = IF sec = ch.read THEN [sec EXCEPT !.token = FALSE] ELSE sec
            /\ ch' = Idle
            /\ UNCHANGED record
    /\ UNCHANGED <<config, ing, tls, seen, known, last, ih, dm, order, trouble>>

ReserveDomain ==
    /\ ch.at = "reserve"
    /\ last < MaxDomains
    /\ last' = last + 1
    /\ known' = known \cup {last'}
    /\ ch' = [ch EXCEPT !.at = "write", !.domain = last', !.token = TRUE]
    /\ UNCHANGED <<config, cluster, seen, record, ih, dm, order, trouble>>

\* A secret that was not there is created, and nothing else is done; one that was
\* there is read again, past the cache, and overwritten if it differs.
WriteDNSSecret ==
    LET new == [domain |-> ch.domain, token |-> ch.token, state |-> ch.state]
    IN  /\ ch.at = "write"
        /\ sec' = IF ch.read # None \/ sec = None THEN new ELSE sec
        /\ ch' = IF ch.read = None THEN Idle ELSE [at |-> "cert", domain |-> ch.domain]
        /\ UNCHANGED <<config, ing, tls, seen, service, ih, dm, order, trouble>>

ConfigFails ==
    /\ ch.at # "idle" /\ Trouble
    /\ ch' = Idle
    /\ UNCHANGED <<config, cluster, seen, service, ih, dm, order>>

-----------------------------------------------------------------------------
(* Certificates *)

\* The account a certificate is ordered with: the stored one if it fits the
\* settings, otherwise one that is registered anew.
EnsureLEUser == settings

\* The goroutine that finds an order for the domain under way does nothing.
Order(d, must) ==
    order' = IF order[d] # None THEN order
             ELSE [order EXCEPT ![d] = [settings |-> EnsureLEUser, must |-> must, got |-> FALSE]]

\* ProvisionWildcardCert and provisionCertIfNotExists.
Provision ==
    /\ ch.at = "cert"
    /\ IF tls = None THEN Order(ch.domain, FALSE)
       ELSE IF tls.domain # ch.domain THEN Order(ch.domain, TRUE)
       ELSE UNCHANGED order
    /\ ch' = Idle
    /\ UNCHANGED <<config, sec, ing, tls, seen, service, ih, dm, trouble>>

\* Mutant: only a certificate that expires is renewed.
MustRenewExpired == tls.settings = None

\* Ordered under other settings, or about to expire (None).
MustRenew == tls.settings # EnsureLEUser

RenewCert ==
    /\ tls # None /\ MustRenew
    /\ Order(tls.domain, TRUE)
    /\ order' # order
    /\ UNCHANGED <<config, sec, ing, tls, seen, service, ch, ih, dm, trouble>>

\* Mutant: the service is not asked.
CanObtainUnasked(d) == DomainOf(sec) = d

\* dnsChallenge sets a record with the token that is stored now, under the domain
\* of the order; without a domain, or with the token of another, it fails.
CanObtain(d) == sec # None /\ sec.token /\ sec.domain = d /\ d \in known

ObtainCert(d) ==
    /\ order[d] # None /\ ~order[d].got
    /\ order' = [order EXCEPT ![d] = IF CanObtain(d) THEN [@ EXCEPT !.got = TRUE] ELSE None]
    /\ UNCHANGED <<config, cluster, seen, service, ch, ih, dm, trouble>>

\* Update wants the secret to be there, create wants it not to be.
Stores(d) == (tls # None) = order[d].must

StoreCert(d) ==
    /\ order[d] # None /\ order[d].got
    /\ tls' = IF Stores(d) THEN [domain |-> d, settings |-> order[d].settings] ELSE tls
    /\ order' = [order EXCEPT ![d] = None]
    /\ UNCHANGED <<config, sec, ing, seen, service, ch, ih, dm, trouble>>

\* The error is only logged.
OrderFails(d) ==
    /\ order[d] # None /\ Trouble
    /\ order' = [order EXCEPT ![d] = None]
    /\ UNCHANGED <<config, cluster, seen, service, ch, ih, dm>>

-----------------------------------------------------------------------------
(* The handlers of the DNS secret and of the ingress *)

\* HandleDNSSecret renders the ingress, or none; the annotations that are on it stay.
HandleDNSSecret ==
    /\ seen # None /\ seen.domain # NoDomain
    /\ ing' = IF mode = "disabled" THEN None
              ELSE [domain |-> seen.domain, hash |-> IF ing = None THEN None ELSE ing.hash]
    /\ ing' # ing
    /\ UNCHANGED <<config, sec, tls, seen, service, ch, ih, dm, order, trouble>>

\* ToRecordRequestsAndHash: the hash is over the domain and the addresses.
Hash(d) == <<d, lb>>

StartIngress ==
    /\ ih.at = "idle"
    /\ ing # None /\ HasToken(seen)
    /\ IF mode = "enabled"
       THEN /\ ing.domain = seen.domain /\ ing.hash # Hash(seen.domain)
            /\ ih' = [at |-> "create", ing |-> ing, sec |-> seen, hash |-> Hash(seen.domain)]
       ELSE /\ ing.hash # None
            /\ ih' = [at |-> "hash", ing |-> ing, hash |-> None]
    /\ UNCHANGED <<config, cluster, seen, service, ch, dm, order, trouble>>

CreateRecords ==
    /\ ih.at = "create"
    /\ IF ih.sec.domain \in known
       THEN /\ record' = [record EXCEPT ![ih.sec.domain] = ih.hash[2]]
            /\ ih' = [at |-> "hash", ing |-> ih.ing, hash |-> ih.hash]
            /\ UNCHANGED <<sec, trouble>>
       ELSE /\ ClearDNSToken(ih.sec)
            /\ ih' = Idle
            /\ UNCHANGED record
    /\ UNCHANGED <<config, ing, tls, seen, known, last, ch, dm, order>>

\* The update is refused if the ingress is not the one that was read.
SaveHash ==
    /\ ih.at = "hash"
    /\ ing' = IF ing = ih.ing THEN [ing EXCEPT !.hash = ih.hash] ELSE ing
    /\ ih' = Idle
    /\ UNCHANGED <<config, sec, tls, seen, service, ch, dm, order, trouble>>

IngressFails ==
    /\ ih.at # "idle" /\ Trouble
    /\ ih' = Idle
    /\ UNCHANGED <<config, cluster, seen, service, ch, dm, order>>

-----------------------------------------------------------------------------
(* The daemon *)

\* renewAndSync gives up when acorn-dns is disabled or the token is missing.
StartRenew ==
    /\ dm.at = "idle"
    /\ mode # "disabled" /\ HasToken(seen) /\ ing # None
    /\ dm' = [at |-> "renew", sec |-> seen, ing |-> ing, lb |-> lb]
    /\ UNCHANGED <<config, cluster, seen, service, ch, ih, order, trouble>>

\* Mutant: a record the service does not have is not out of sync.
OutOfSyncValue == dm.ing.domain = dm.sec.domain /\ record[dm.sec.domain] \notin {None, dm.lb}

\* The service does not have the record, or with another address.
OutOfSync == dm.ing.domain = dm.sec.domain /\ record[dm.sec.domain] # dm.lb

Renew ==
    /\ dm.at = "renew"
    /\ IF dm.sec.domain \in known
       THEN /\ dm' = IF OutOfSync THEN [at |-> "hash", ing |-> dm.ing] ELSE Idle
            /\ UNCHANGED <<sec, trouble>>
       ELSE /\ ClearDNSToken(dm.sec)
            /\ dm' = Idle
    /\ UNCHANGED <<config, ing, tls, seen, service, ch, ih, order>>

RemoveHash ==
    /\ dm.at = "hash"
    /\ ing' = IF ing = dm.ing THEN [ing EXCEPT !.hash = None] ELSE ing
    /\ dm' = Idle
    /\ UNCHANGED <<config, sec, tls, seen, service, ch, ih, order, trouble>>

-----------------------------------------------------------------------------
(* The cache, the administrator, the cluster and the service *)

SyncSecret ==
    /\ seen # sec
    /\ seen' = sec
    /\ UNCHANGED <<config, cluster, service, ch, ih, dm, order, trouble>>

Toggle ==
    /\ Trouble
    /\ mode' \in Modes \ {mode}
    /\ UNCHANGED <<settings, lb, cluster, seen, service, ch, ih, dm, order>>

ChangeSettings ==
    /\ Trouble
    /\ settings' = settings + 1
    /\ UNCHANGED <<mode, lb, cluster, seen, service, ch, ih, dm, order>>

ChangeAddress ==
    /\ Trouble
    /\ lb' = lb + 1
    /\ UNCHANGED <<mode, settings, cluster, seen, service, ch, ih, dm, order>>

LoseDomain(d) ==
    /\ d \in known /\ last < MaxDomains /\ Trouble
    /\ known' = known \ {d}
    /\ record' = [record EXCEPT ![d] = None]
    /\ UNCHANGED <<config, cluster, seen, last, ch, ih, dm, order>>

LoseRecord(d) ==
    /\ record[d] # None /\ Trouble
    /\ record' = [record EXCEPT ![d] = None]
    /\ UNCHANGED <<config, cluster, seen, known, last, ch, ih, dm, order>>

CertExpires ==
    /\ tls # None /\ tls.settings # None /\ Trouble
    /\ tls' = [tls EXCEPT !.settings = None]
    /\ UNCHANGED <<config, sec, ing, seen, service, ch, ih, dm, order>>

-----------------------------------------------------------------------------
Init ==
    /\ mode = "enabled" /\ settings = 1 /\ lb = 1
    /\ sec = None /\ seen = None /\ ing = None /\ tls = None
    /\ known = {} /\ last = NoDomain
    /\ record = [d \in Domains |-> None]
    /\ ch = Idle /\ ih = Idle /\ dm = Idle
    /\ order = [d \in AllDomains |-> None]
    /\ trouble = 0

ConfigHandler == StartConfig \/ PurgeRecords \/ ReserveDomain \/ WriteDNSSecret \/ Provision
IngressHandler == StartIngress \/ CreateRecords \/ SaveHash
Daemon == StartRenew \/ Renew \/ RemoveHash
OrderStep(d) == ObtainCert(d) \/ StoreCert(d)

Next ==
    \/ ConfigHandler \/ ConfigFails
    \/ HandleDNSSecret \/ IngressHandler \/ IngressFails
    \/ RenewCert \/ Daemon
    \/ \E d \in AllDomains : OrderStep(d) \/ OrderFails(d)
    \/ SyncSecret
    \/ Toggle \/ ChangeSettings \/ ChangeAddress
    \/ \E d \in Domains : LoseDomain(d) \/ LoseRecord(d)
    \/ CertExpires

Spec == Init /\ [][Next]_vars

\* Handlers come back when what they have read changes and when the informers
\* resync, the daemon every day, and an order ends.  Strong fairness is for the two
\* requests that the bound of ClearDNSToken holds back while the config handler is
\* at work.
FairSpec ==
    /\ Spec
    /\ WF_vars(ConfigHandler) /\ WF_vars(HandleDNSSecret) /\ WF_vars(IngressHandler)
    /\ WF_vars(SyncSecret) /\ WF_vars(RenewCert) /\ WF_vars(Daemon)
    /\ SF_vars(CreateRecords) /\ SF_vars(Renew)
    /\ \A d \in Domains : WF_vars(OrderStep(d))

-----------------------------------------------------------------------------
(* Properties *)

SecretRecords == [domain : AllDomains, token : BOOLEAN, state : Modes]
Hashes == Domains \X Addresses
IngressRecords == [domain : Domains, hash : Hashes \cup {None}]
TLSRecords == [domain : Domains, settings : Nat \cup {None}]
OrderRecords == [settings : Nat, must : BOOLEAN, got : BOOLEAN]

ASSUME NoneAssumption ==
    None \notin SecretRecords \cup IngressRecords \cup TLSRecords \cup OrderRecords

ConfigStates ==
    {Idle} \cup [at : {"cert"}, domain : AllDomains]
    \cup [at : {"purge", "reserve", "write"}, read : SecretRecords \cup {None}, state : Modes,
          domain : AllDomains, token : BOOLEAN]
IngressStates ==
    {Idle}
    \cup [at : {"create"}, ing : IngressRecords, sec : SecretRecords, hash : Hashes]
    \cup [at : {"hash"}, ing : IngressRecords, hash : Hashes \cup {None}]
DaemonStates ==
    {Idle}
    \cup [at : {"renew"}, sec : SecretRecords, ing : IngressRecords, lb : Addresses]
    \cup [at : {"hash"}, ing : IngressRecords]

\* The config handler has read the secret and is to write it.
Working == ch.at \in {"purge", "reserve", "write"}

\* Types; a certificate is never stored for no domain, and a token always belongs
\* to a domain.
TypeOK ==
    /\ mode \in Modes /\ settings \in Nat \ {0} /\ lb \in 1..(trouble + 1)
    /\ trouble \in 0..MaxTrouble
    /\ sec \in SecretRecords \cup {None} /\ seen \in SecretRecords \cup {None}
    /\ HasToken(sec) => sec.domain \in Domains
    /\ HasToken(seen) => seen.domain \in Domains
    /\ ing \in IngressRecords \cup {None}
    /\ tls \in TLSRecords \cup {None}
    /\ last \in AllDomains /\ known \subseteq 1..last
    /\ record \in [Domains -> Addresses \cup {None}]
    /\ \A d \in Domains : record[d] # None => d \in known
    /\ ch \in ConfigStates /\ ih \in IngressStates /\ dm \in DaemonStates
    /\ Working /\ ch.token => ch.domain \in Domains
    /\ order \in [AllDomains -> OrderRecords \cup {None}]
    /\ \A d \in AllDomains : order[d] # None /\ order[d].got => d \in Domains

\* A domain that a copy of the secret has without a token is one the service has lost.
CopyOK(s) == s # None => s.domain <= last /\ (~s.token => s.domain \notin known)

\* So are the secret and the cache; the config handler reserves only without a token,
\* and keeps the domain it has read as long as the service knows that.
DomainInv ==
    /\ CopyOK(sec) /\ CopyOK(seen)
    /\ seen # None => sec # None
    /\ Working =>
         /\ ch.domain <= last /\ (~ch.token => ch.domain \notin known)
         /\ ch.read # None =>
              /\ sec # None /\ ch.read.domain <= last
              /\ ch.read.domain \in known => ch.domain = ch.read.domain
    /\ ch.at = "reserve" => ~ch.token
    /\ ch.at = "purge" => ch.read # None

\* A domain the service knows is replaced only by a pass of the config handler that
\* read the secret from before that domain was in it: whoever clears the token and
\* whoever writes it back, no pass that has seen the domain puts another in its place.
DomainKept ==
    [][sec # None /\ sec.domain \in known /\ sec'.domain # sec.domain
         => Working /\ DomainOf(ch.read) # sec.domain]_vars

\* The domain changes only after the service has lost it.
KnownDomainStays ==
    [][sec # None /\ sec.domain \in known => sec'.domain = sec.domain]_vars

\* The cache shows the domain the config handler wrote last; nobody else writes one.
ShowsOwnWrites == (seen = None) = (sec = None) /\ DomainOf(seen) = DomainOf(sec)

\* Every pass finds in the cache what the ones before it wrote.
OwnWritesShown == [][StartConfig => ShowsOwnWrites]_vars

\* If acorn-dns stays enabled, in the end the cluster has a domain the service
\* knows, with a record of its address.
RecordSettles ==
    <>[](mode = "enabled" => /\ HasToken(sec) /\ sec.domain \in known
                             /\ record[sec.domain] = lb)

\* And a certificate for it, ordered under the settings and not about to expire.
CertificateSettles ==
    <>[](mode = "enabled" => /\ tls # None
                             /\ tls.domain = sec.domain /\ tls.settings = settings)

\* When acorn-dns is disabled and the secret says so, no record is left.
PurgedWhenDisabled ==
    mode = "disabled" /\ sec # None /\ sec.state = "disabled" /\ sec.domain \in known
        => record[sec.domain] = None
=============================================================================
