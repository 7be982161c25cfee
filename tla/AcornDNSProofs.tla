--------------------------- MODULE AcornDNSProofs ---------------------------
(***************************************************************************)
(* Proofs about AcornDNS, for any bounds: types, that a pass which has seen *)
(* a domain keeps it until the service has lost it, and that the domain stays *)
(* until then if passes see what earlier ones wrote.                        *)
(***************************************************************************)
EXTENDS AcornDNS, TLAPS

\* What the handlers hold in each of their states.
LEMMA ConfigShapes ==
    ASSUME ch \in ConfigStates
    PROVE  /\ Working => ch \in [at : {"purge", "reserve", "write"}, read : SecretRecords \cup {None},
                                 state : Modes, domain : AllDomains, token : BOOLEAN]
           /\ ch.at = "cert" => ch.domain \in AllDomains
           /\ ch.at \in {"idle", "cert", "purge", "reserve", "write"}
  BY DEF ConfigStates, Working, Idle

LEMMA IngressShapes ==
    ASSUME ih \in IngressStates
    PROVE  /\ ih.at = "create" => ih.ing \in IngressRecords /\ ih.sec \in SecretRecords /\ ih.hash \in Hashes
           /\ ih.at = "hash" => ih.ing \in IngressRecords /\ ih.hash \in Hashes \cup {None}
  BY DEF IngressStates, Idle

LEMMA DaemonShapes ==
    ASSUME dm \in DaemonStates
    PROVE  /\ dm.at = "renew" => dm.sec \in SecretRecords /\ dm.ing \in IngressRecords
           /\ dm.at = "hash" => dm.ing \in IngressRecords
  BY DEF DaemonStates, Idle

LEMMA IdleShapes ==
    Idle \in ConfigStates /\ Idle \in IngressStates /\ Idle \in DaemonStates /\ Idle.at = "idle"
  BY DEF ConfigStates, IngressStates, DaemonStates, Idle

\* A secret whose token is cleared.
LEMMA ClearedShape ==
    ASSUME NEW s \in SecretRecords
    PROVE  LET t == [s EXCEPT !.token = FALSE]
           IN  /\ t \in SecretRecords /\ t # None
               /\ t.domain = s.domain /\ t.token = FALSE
  BY NoneAssumption DEF SecretRecords

LEMMA Numbers ==
    /\ MaxDomains \in Nat /\ MaxTrouble \in Nat
    /\ Domains \subseteq Nat /\ AllDomains = 0..MaxDomains
  BY AcornDNSAssumption DEF Domains, AllDomains, NoDomain

-----------------------------------------------------------------------------
(* Types: the handler of the configuration *)

LEMMA TroubleTyped ==
    ASSUME TypeOK, Trouble, lb' \in {lb, lb + 1}
    PROVE  trouble' \in 0..MaxTrouble /\ lb' \in 1..(trouble' + 1)
  BY Numbers DEF TypeOK, Trouble

LEMMA StartConfigTyped == ASSUME TypeOK, StartConfig PROVE TypeOK'
<1> DEFINE at == CASE MustPurge(mode, seen) -> "purge"
                   [] MustReserve(mode, seen) -> "reserve"
                   [] OTHER -> "write"
<1>1. at \in {"purge", "reserve", "write"}
  BY Zenon
<1>2. ch' = [at |-> at, read |-> seen, state |-> mode, domain |-> DomainOf(seen), token |-> HasToken(seen)]
  BY DEF StartConfig
<1> HIDE DEF at
<1>3. HasToken(seen) \in BOOLEAN /\ DomainOf(seen) \in AllDomains
  BY DEF TypeOK, HasToken, DomainOf, SecretRecords, AllDomains
<1>4. HasToken(seen) => DomainOf(seen) \in Domains
  BY DEF TypeOK, HasToken, DomainOf
<1>5. ch' \in [at : {"purge", "reserve", "write"}, read : SecretRecords \cup {None}, state : Modes,
               domain : AllDomains, token : BOOLEAN]
  BY <1>1, <1>2, <1>3 DEF TypeOK
<1>6. ch' \in ConfigStates BY <1>5 DEF ConfigStates
<1>7. ch'.token => ch'.domain \in Domains BY <1>2, <1>4
<1>8. lb' = lb /\ (Trouble \/ UNCHANGED trouble) BY DEF StartConfig, config
<1>9. trouble' \in 0..MaxTrouble /\ lb' \in 1..(trouble' + 1) BY <1>8, TroubleTyped DEF TypeOK
<1> QED BY <1>6, <1>7, <1>8, <1>9 DEF TypeOK, StartConfig, config, cluster, service

LEMMA PurgeTyped == ASSUME TypeOK, PurgeRecords, DomainInv PROVE TypeOK'
<1>0. Working BY DEF PurgeRecords, Working
<1>1. ch.domain \in AllDomains /\ ch.read \in SecretRecords
  BY <1>0, ConfigShapes DEF TypeOK, PurgeRecords, DomainInv
<1>2. CASE ch.domain \in known
  <2>1. record' = [record EXCEPT ![ch.domain] = None] /\ ch' = [ch EXCEPT !.at = "write"]
        /\ UNCHANGED <<sec, trouble>>
    BY <1>2 DEF PurgeRecords
  <2>2. ch' \in [at : {"purge", "reserve", "write"}, read : SecretRecords \cup {None}, state : Modes,
               domain : AllDomains, token : BOOLEAN] /\ ch'.token = ch.token /\ ch'.domain = ch.domain
    BY <1>0, <2>1, ConfigShapes DEF TypeOK
  <2>3. ch' \in ConfigStates BY <2>2 DEF ConfigStates
  <2> QED BY <1>0, <2>1, <2>2, <2>3 DEF TypeOK, PurgeRecords, config, cluster
<1>3. CASE ch.domain \notin known
  <2>1. ch' = Idle /\ UNCHANGED <<record, trouble>>
        /\ (sec' = sec \/ (sec = ch.read /\ sec' = [ch.read EXCEPT !.token = FALSE]))
    BY <1>3 DEF PurgeRecords
  <2>2. sec' \in SecretRecords \cup {None} /\ (HasToken(sec') => sec'.domain \in Domains)
    BY <1>1, <2>1, ClearedShape DEF TypeOK, HasToken
  <2>3. ~Working' /\ ch' \in ConfigStates BY <2>1, IdleShapes DEF Working
  <2> QED BY <2>1, <2>2, <2>3 DEF TypeOK, PurgeRecords, config, cluster
<1> QED BY <1>2, <1>3

LEMMA ReserveTyped == ASSUME TypeOK, ReserveDomain PROVE TypeOK'
<1>0. Working BY DEF ReserveDomain, Working
<1>1. last' \in Domains /\ last' \in AllDomains /\ 1..last \subseteq 1..last'
  BY Numbers DEF TypeOK, ReserveDomain, Domains, AllDomains
<1>2. known' \subseteq 1..last' BY <1>1, Numbers DEF TypeOK, ReserveDomain, Domains
<1>3. ch' \in [at : {"purge", "reserve", "write"}, read : SecretRecords \cup {None}, state : Modes,
               domain : AllDomains, token : BOOLEAN] /\ ch'.domain = last'
  BY <1>0, <1>1, ConfigShapes DEF TypeOK, ReserveDomain
<1>4. ch' \in ConfigStates BY <1>3 DEF ConfigStates
<1>5. \A d \in Domains : record'[d] # None => d \in known' BY DEF TypeOK, ReserveDomain
<1> QED BY <1>1, <1>2, <1>3, <1>4, <1>5 DEF TypeOK, ReserveDomain, config, cluster

LEMMA WriteTyped == ASSUME TypeOK, WriteDNSSecret PROVE TypeOK'
<1> DEFINE new == [domain |-> ch.domain, token |-> ch.token, state |-> ch.state]
<1>0. Working BY DEF WriteDNSSecret, Working
<1>1. new \in SecretRecords
  BY <1>0, ConfigShapes DEF TypeOK, SecretRecords
<1>2. new.token => new.domain \in Domains BY <1>0 DEF TypeOK
<1>3. sec' = new \/ sec' = sec BY DEF WriteDNSSecret
<1> HIDE DEF new
<1>4. sec' \in SecretRecords \cup {None} /\ (HasToken(sec') => sec'.domain \in Domains)
  BY <1>1, <1>2, <1>3 DEF TypeOK, HasToken
<1>5. ch' = Idle \/ ch' = [at |-> "cert", domain |-> ch.domain] BY DEF WriteDNSSecret
<1>6. ch' \in ConfigStates /\ ~Working'
  <2>1. CASE ch' = Idle BY <2>1, IdleShapes DEF Working
  <2>2. CASE ch' = [at |-> "cert", domain |-> ch.domain]
    BY <1>0, <2>2, ConfigShapes DEF TypeOK, ConfigStates, Working
  <2> QED BY <1>5, <2>1, <2>2
<1> QED BY <1>4, <1>6 DEF TypeOK, WriteDNSSecret, config, service

LEMMA ConfigFailsTyped == ASSUME TypeOK, ConfigFails PROVE TypeOK'
<1>1. ch' \in ConfigStates /\ ~Working' BY IdleShapes DEF ConfigFails, Working
<1>2. lb' = lb BY DEF ConfigFails, config
<1> QED BY <1>1, <1>2, TroubleTyped DEF TypeOK, ConfigFails, config, cluster, service

-----------------------------------------------------------------------------
(* Types: certificates *)

LEMMA OrderTyped ==
    ASSUME TypeOK, NEW d \in AllDomains, NEW must \in BOOLEAN, Order(d, must)
    PROVE  /\ order' \in [AllDomains -> OrderRecords \cup {None}]
           /\ \A e \in AllDomains : order'[e] # None /\ order'[e].got => e \in Domains
<1> DEFINE o == [settings |-> EnsureLEUser, must |-> must, got |-> FALSE]
<1>1. o \in OrderRecords /\ ~o.got BY DEF TypeOK, EnsureLEUser, OrderRecords
<1>2. order' = order \/ order' = [order EXCEPT ![d] = o] BY DEF Order
<1> HIDE DEF o
<1> QED BY <1>1, <1>2 DEF TypeOK

LEMMA ProvisionTyped == ASSUME TypeOK, Provision PROVE TypeOK'
<1>1. ch.domain \in AllDomains BY ConfigShapes DEF TypeOK, Provision
<1>2. /\ order' \in [AllDomains -> OrderRecords \cup {None}]
      /\ \A e \in AllDomains : order'[e] # None /\ order'[e].got => e \in Domains
  BY <1>1, OrderTyped DEF Provision, TypeOK
<1>3. ch' \in ConfigStates /\ ~Working' BY IdleShapes DEF Provision, Working
<1> QED BY <1>2, <1>3 DEF TypeOK, Provision, config, service

LEMMA RenewCertTyped == ASSUME TypeOK, RenewCert PROVE TypeOK'
<1>1. tls.domain \in AllDomains BY DEF TypeOK, RenewCert, TLSRecords, AllDomains
<1>2. /\ order' \in [AllDomains -> OrderRecords \cup {None}]
      /\ \A e \in AllDomains : order'[e] # None /\ order'[e].got => e \in Domains
  BY <1>1, OrderTyped DEF RenewCert
<1> QED BY <1>2 DEF TypeOK, RenewCert, config, service, Working

LEMMA ObtainTyped == ASSUME TypeOK, NEW d \in AllDomains, ObtainCert(d) PROVE TypeOK'
<1>1. CanObtain(d) => d \in Domains
  BY Numbers DEF CanObtain, TypeOK, HasToken
<1>2. [order[d] EXCEPT !.got = TRUE] \in OrderRecords
  BY DEF TypeOK, ObtainCert, OrderRecords
<1>3. \/ CanObtain(d) /\ order' = [order EXCEPT ![d] = [order[d] EXCEPT !.got = TRUE]]
      \/ order' = [order EXCEPT ![d] = None]
  BY DEF ObtainCert, TypeOK
<1>4. /\ order' \in [AllDomains -> OrderRecords \cup {None}]
      /\ \A e \in AllDomains : order'[e] # None /\ order'[e].got => e \in Domains
  BY <1>1, <1>2, <1>3 DEF TypeOK
<1> QED BY <1>4 DEF TypeOK, ObtainCert, config, cluster, service, Working

LEMMA StoreTyped == ASSUME TypeOK, NEW d \in AllDomains, StoreCert(d) PROVE TypeOK'
<1>1. d \in Domains /\ order[d].settings \in Nat
  BY DEF TypeOK, StoreCert, OrderRecords
<1>2. [domain |-> d, settings |-> order[d].settings] \in TLSRecords
  BY <1>1 DEF TLSRecords
<1>3. tls' \in TLSRecords \cup {None}
  BY <1>2 DEF StoreCert, TypeOK
<1>4. /\ order' \in [AllDomains -> OrderRecords \cup {None}]
      /\ \A e \in AllDomains : order'[e] # None /\ order'[e].got => e \in Domains
  BY DEF TypeOK, StoreCert
<1> QED BY <1>3, <1>4 DEF TypeOK, StoreCert, config, service, Working

LEMMA OrderFailsTyped == ASSUME TypeOK, NEW d \in AllDomains, OrderFails(d) PROVE TypeOK'
<1>1. lb' = lb BY DEF OrderFails, config
<1>2. /\ order' \in [AllDomains -> OrderRecords \cup {None}]
      /\ \A e \in AllDomains : order'[e] # None /\ order'[e].got => e \in Domains
  BY DEF TypeOK, OrderFails
<1> QED BY <1>1, <1>2, TroubleTyped DEF TypeOK, OrderFails, config, cluster, service, Working

-----------------------------------------------------------------------------
(* Types: the ingress and the daemon *)

LEMMA HandleTyped == ASSUME TypeOK, HandleDNSSecret PROVE TypeOK'
<1> DEFINE i == [domain |-> seen.domain, hash |-> IF ing = None THEN None ELSE ing.hash]
<1>1. seen.domain \in Domains
  BY DEF TypeOK, HandleDNSSecret, SecretRecords, AllDomains
<1>2. i \in IngressRecords BY <1>1 DEF TypeOK, IngressRecords
<1>3. ing' = None \/ ing' = i BY DEF HandleDNSSecret
<1> HIDE DEF i
<1> QED BY <1>2, <1>3 DEF TypeOK, HandleDNSSecret, config, service, Working

LEMMA StartIngressTyped == ASSUME TypeOK, StartIngress PROVE TypeOK'
<1>1. seen \in SecretRecords /\ seen.domain \in Domains /\ ing \in IngressRecords
  BY DEF TypeOK, StartIngress, HasToken
<1>2. lb \in Addresses BY Numbers DEF TypeOK, Addresses
<1>3. Hash(seen.domain) \in Hashes BY <1>1, <1>2 DEF Hash, Hashes
<1>4. \/ ih' = [at |-> "create", ing |-> ing, sec |-> seen, hash |-> Hash(seen.domain)]
      \/ ih' = [at |-> "hash", ing |-> ing, hash |-> None]
  BY DEF StartIngress
<1>5. ih' \in IngressStates BY <1>1, <1>3, <1>4 DEF IngressStates
<1> QED BY <1>5 DEF TypeOK, StartIngress, config, cluster, service, Working

\* The token is cleared, or nothing changes.
LEMMA ClearTyped ==
    ASSUME TypeOK, NEW read \in SecretRecords, ClearDNSToken(read), lb' = lb
    PROVE  /\ sec' \in SecretRecords \cup {None} /\ (HasToken(sec') => sec'.domain \in Domains)
           /\ trouble' \in 0..MaxTrouble /\ lb' \in 1..(trouble' + 1)
<1>1. sec' = sec \/ (sec = read /\ sec' = [read EXCEPT !.token = FALSE])
  BY DEF ClearDNSToken
<1>2. sec' \in SecretRecords \cup {None} /\ (HasToken(sec') => sec'.domain \in Domains)
  BY <1>1, ClearedShape DEF TypeOK, HasToken
<1>3. Trouble \/ UNCHANGED trouble BY DEF ClearDNSToken
<1> QED BY <1>2, <1>3, TroubleTyped DEF TypeOK

LEMMA CreateTyped == ASSUME TypeOK, CreateRecords PROVE TypeOK'
<1>1. ih.ing \in IngressRecords /\ ih.sec \in SecretRecords /\ ih.hash \in Hashes
  BY IngressShapes DEF TypeOK, CreateRecords
<1>2. CASE ih.sec.domain \in known
  <2>1. ih.hash[2] \in Addresses BY <1>1 DEF Hashes
  <2>2. record' = [record EXCEPT ![ih.sec.domain] = ih.hash[2]]
        /\ ih' = [at |-> "hash", ing |-> ih.ing, hash |-> ih.hash] /\ UNCHANGED <<sec, trouble>>
    BY <1>2 DEF CreateRecords
  <2>3. ih' \in IngressStates BY <1>1, <2>2 DEF IngressStates
  <2>4. record' \in [Domains -> Addresses \cup {None}]
        /\ \A d \in Domains : record'[d] # None => d \in known
    BY <1>2, <2>1, <2>2 DEF TypeOK
  <2> QED BY <2>2, <2>3, <2>4 DEF TypeOK, CreateRecords, config, Working
<1>3. CASE ih.sec.domain \notin known
  <2>1. ClearDNSToken(ih.sec) /\ ih' = Idle /\ UNCHANGED record /\ lb' = lb
    BY <1>3 DEF CreateRecords, config
  <2>2. /\ sec' \in SecretRecords \cup {None} /\ (HasToken(sec') => sec'.domain \in Domains)
        /\ trouble' \in 0..MaxTrouble /\ lb' \in 1..(trouble' + 1)
    BY <1>1, <2>1, ClearTyped
  <2> QED BY <2>1, <2>2, IdleShapes DEF TypeOK, CreateRecords, config, Working
<1> QED BY <1>2, <1>3

LEMMA HashWritten ==
    ASSUME NEW i \in IngressRecords, NEW h \in Hashes \cup {None}
    PROVE  [i EXCEPT !.hash = h] \in IngressRecords
  BY DEF IngressRecords

LEMMA SaveHashTyped == ASSUME TypeOK, SaveHash PROVE TypeOK'
<1>1. ih.ing \in IngressRecords /\ ih.hash \in Hashes \cup {None}
  BY IngressShapes DEF TypeOK, SaveHash
<1>2. ing' \in IngressRecords \cup {None}
  BY <1>1, HashWritten DEF SaveHash, TypeOK
<1> QED BY <1>2, IdleShapes DEF TypeOK, SaveHash, config, service, Working

LEMMA IngressFailsTyped == ASSUME TypeOK, IngressFails PROVE TypeOK'
<1>1. lb' = lb BY DEF IngressFails, config
<1> QED BY <1>1, TroubleTyped, IdleShapes DEF TypeOK, IngressFails, config, cluster, service, Working

LEMMA StartRenewTyped == ASSUME TypeOK, StartRenew PROVE TypeOK'
<1>1. seen \in SecretRecords /\ ing \in IngressRecords
  BY DEF TypeOK, StartRenew, HasToken
<1>2. lb \in Addresses BY Numbers DEF TypeOK, Addresses
<1>3. dm' \in DaemonStates BY <1>1, <1>2 DEF StartRenew, DaemonStates
<1> QED BY <1>3 DEF TypeOK, StartRenew, config, cluster, service, Working

LEMMA RenewTyped == ASSUME TypeOK, Renew PROVE TypeOK'
<1>1. dm.ing \in IngressRecords /\ dm.sec \in SecretRecords
  BY DaemonShapes DEF TypeOK, Renew
<1>2. dm' = Idle \/ dm' = [at |-> "hash", ing |-> dm.ing] BY DEF Renew
<1>3. dm' \in DaemonStates BY <1>1, <1>2, IdleShapes DEF DaemonStates
<1>4. lb' = lb BY DEF Renew, config
<1>5. /\ sec' \in SecretRecords \cup {None} /\ (HasToken(sec') => sec'.domain \in Domains)
      /\ trouble' \in 0..MaxTrouble /\ lb' \in 1..(trouble' + 1)
  <2>1. CASE UNCHANGED <<sec, trouble>> BY <1>4, <2>1 DEF TypeOK
  <2>2. CASE ClearDNSToken(dm.sec) BY <1>1, <1>4, <2>2, ClearTyped
  <2> QED BY <2>1, <2>2 DEF Renew
<1> QED BY <1>3, <1>5 DEF TypeOK, Renew, config, service, Working

LEMMA RemoveHashTyped == ASSUME TypeOK, RemoveHash PROVE TypeOK'
<1>1. dm.ing \in IngressRecords BY DaemonShapes DEF TypeOK, RemoveHash
<1>2. ing' \in IngressRecords \cup {None}
  BY <1>1, HashWritten DEF RemoveHash, TypeOK
<1> QED BY <1>2, IdleShapes DEF TypeOK, RemoveHash, config, service, Working

-----------------------------------------------------------------------------
(* Types: the administrator, the cluster and the service *)

LEMMA SyncTyped == ASSUME TypeOK, SyncSecret PROVE TypeOK'
  BY DEF TypeOK, SyncSecret, config, cluster, service, Working, HasToken

LEMMA ToggleTyped == ASSUME TypeOK, Toggle PROVE TypeOK'
<1>1. trouble' \in 0..MaxTrouble /\ lb' \in 1..(trouble' + 1) BY TroubleTyped DEF Toggle
<1> QED BY <1>1 DEF TypeOK, Toggle, cluster, service, Working

LEMMA ChangeTyped == ASSUME TypeOK, ChangeSettings \/ ChangeAddress PROVE TypeOK'
<1>1. trouble' \in 0..MaxTrouble /\ lb' \in 1..(trouble' + 1)
  BY TroubleTyped DEF ChangeSettings, ChangeAddress
<1>2. settings' \in Nat \ {0} BY DEF TypeOK, ChangeSettings, ChangeAddress
<1> QED BY <1>1, <1>2 DEF TypeOK, ChangeSettings, ChangeAddress, cluster, service, Working

LEMMA LoseTyped ==
    ASSUME TypeOK, NEW d \in Domains, LoseDomain(d) \/ LoseRecord(d) PROVE TypeOK'
<1>0. lb' = lb BY DEF LoseDomain, LoseRecord, config
<1>1. trouble' \in 0..MaxTrouble /\ lb' \in 1..(trouble' + 1)
  BY <1>0, TroubleTyped DEF LoseDomain, LoseRecord
<1>2. record' \in [Domains -> Addresses \cup {None}]
      /\ \A e \in Domains : record'[e] # None => e \in known'
  BY DEF TypeOK, LoseDomain, LoseRecord
<1>3. known' \subseteq 1..last' BY DEF TypeOK, LoseDomain, LoseRecord
<1> QED BY <1>1, <1>2, <1>3 DEF TypeOK, LoseDomain, LoseRecord, config, cluster, Working

LEMMA ExpireTyped == ASSUME TypeOK, CertExpires PROVE TypeOK'
<1>0. lb' = lb BY DEF CertExpires, config
<1>1. tls' \in TLSRecords \cup {None} BY DEF TypeOK, CertExpires, TLSRecords
<1> QED BY <1>0, <1>1, TroubleTyped DEF TypeOK, CertExpires, config, service, Working

LEMMA InitTyped == ASSUME Init PROVE TypeOK
<1>1. lb \in 1..(trouble + 1) /\ trouble \in 0..MaxTrouble
      /\ settings \in Nat \ {0}
  BY Numbers DEF Init
<1>2. mode \in Modes /\ ~HasToken(sec) /\ ~HasToken(seen) BY DEF Init, Modes, HasToken
<1>3. last \in AllDomains /\ known \subseteq 1..last BY DEF Init, AllDomains
<1>4. record \in [Domains -> Addresses \cup {None}] /\ \A d \in Domains : record[d] = None
  BY DEF Init
<1>5. ch \in ConfigStates /\ ih \in IngressStates /\ dm \in DaemonStates /\ ~Working
  BY IdleShapes DEF Init, Working
<1>6. order \in [AllDomains -> OrderRecords \cup {None}] /\ \A d \in AllDomains : order[d] = None
  BY DEF Init
<1> QED BY <1>1, <1>2, <1>3, <1>4, <1>5, <1>6 DEF TypeOK, Init

LEMMA NextTyped == ASSUME TypeOK, DomainInv, [Next]_vars PROVE TypeOK'
<1>1. CASE UNCHANGED vars
  BY <1>1 DEF TypeOK, vars, config, cluster, service, Working
<1>2. CASE ConfigHandler \/ ConfigFails
  BY <1>2, StartConfigTyped, PurgeTyped, ReserveTyped, WriteTyped, ProvisionTyped, ConfigFailsTyped
  DEF ConfigHandler
<1>3. CASE HandleDNSSecret \/ IngressHandler \/ IngressFails
  BY <1>3, HandleTyped, StartIngressTyped, CreateTyped, SaveHashTyped, IngressFailsTyped
  DEF IngressHandler
<1>4. CASE RenewCert \/ Daemon
  BY <1>4, RenewCertTyped, StartRenewTyped, RenewTyped, RemoveHashTyped DEF Daemon
<1>5. ASSUME NEW d \in AllDomains, OrderStep(d) \/ OrderFails(d) PROVE TypeOK'
  BY <1>5, ObtainTyped, StoreTyped, OrderFailsTyped DEF OrderStep
<1>6. CASE SyncSecret \/ Toggle \/ ChangeSettings \/ ChangeAddress
  BY <1>6, SyncTyped, ToggleTyped, ChangeTyped
<1>7. ASSUME NEW d \in Domains, LoseDomain(d) \/ LoseRecord(d) PROVE TypeOK'
  BY <1>7, LoseTyped
<1>8. CASE CertExpires BY <1>8, ExpireTyped
<1> QED BY <1>1, <1>2, <1>3, <1>4, <1>5, <1>6, <1>7, <1>8 DEF Next

-----------------------------------------------------------------------------
(* The domain *)

\* The step keeps the domain of a secret, unless the service has lost it, or the config
\* handler has not seen it.
Keeps == sec # None /\ sec.domain \in known /\ sec'.domain # sec.domain
           => Working /\ DomainOf(ch.read) # sec.domain

\* A step that changes neither the secret nor the service, and leaves the handler of
\* the configuration alone or ends it.
LEMMA OthersKeep ==
    ASSUME DomainInv, UNCHANGED <<sec, seen, known, last>>, ch' = ch \/ ch'.at \in {"idle", "cert"}
    PROVE  DomainInv' /\ Keeps
  BY DEF DomainInv, CopyOK, Keeps, Working

\* The cache shows the secret as it is.
LEMMA SyncKeeps == ASSUME DomainInv, SyncSecret PROVE DomainInv' /\ Keeps
  BY DEF DomainInv, CopyOK, Keeps, Working, SyncSecret, cluster, service

LEMMA StartConfigKeeps == ASSUME TypeOK, DomainInv, StartConfig PROVE DomainInv' /\ Keeps
<1> DEFINE at == CASE MustPurge(mode, seen) -> "purge"
                   [] MustReserve(mode, seen) -> "reserve"
                   [] OTHER -> "write"
<1>1. ch' = [at |-> at, read |-> seen, state |-> mode, domain |-> DomainOf(seen), token |-> HasToken(seen)]
  BY DEF StartConfig
<1>2. at = "purge" => HasToken(seen)
  BY Zenon DEF MustPurge, MustReserve
<1>3. at = "reserve" => ~HasToken(seen)
  BY Zenon DEF MustPurge, MustReserve
<1> HIDE DEF at
<1>4. ~HasToken(seen) => DomainOf(seen) \notin known
  BY Numbers DEF HasToken, DomainOf, DomainInv, CopyOK, TypeOK, NoDomain
<1>5. DomainOf(seen) <= last
  BY Numbers DEF DomainOf, DomainInv, CopyOK, TypeOK, NoDomain
<1>6. UNCHANGED <<sec, seen, known, last>> BY DEF StartConfig, cluster, service
<1>7. seen # None => DomainOf(seen) = seen.domain BY DEF DomainOf
<1>8. HasToken(seen) => seen # None BY DEF HasToken
<1> QED BY <1>1, <1>2, <1>3, <1>4, <1>5, <1>6, <1>7, <1>8 DEF DomainInv, CopyOK, Keeps, Working

\* Clearing the token of a domain the service has lost.
LEMMA ClearKeeps ==
    ASSUME TypeOK, DomainInv, NEW s \in SecretRecords, sec = s, s.domain \notin known,
           sec' = [s EXCEPT !.token = FALSE], UNCHANGED <<seen, known, last>>,
           ch' = ch \/ ch'.at \in {"idle", "cert"}
    PROVE  DomainInv' /\ Keeps
<1>1. sec # None /\ sec' # None /\ sec'.domain = sec.domain /\ sec.domain \notin known
  BY ClearedShape, NoneAssumption
<1> QED BY <1>1 DEF DomainInv, CopyOK, Keeps, Working

LEMMA PurgeKeeps == ASSUME TypeOK, DomainInv, PurgeRecords PROVE DomainInv' /\ Keeps
<1>0. Working BY DEF PurgeRecords, Working
<1>1. ch.read \in SecretRecords /\ ch.read # None
  BY <1>0, ConfigShapes DEF TypeOK, PurgeRecords, DomainInv
<1>2. UNCHANGED <<seen, known, last>> BY DEF PurgeRecords
<1>3. CASE ch.domain \in known
  <2>1. ch' = [ch EXCEPT !.at = "write"] /\ sec' = sec BY <1>3 DEF PurgeRecords
  <2>2. ch'.at = "write" /\ ch'.read = ch.read /\ ch'.domain = ch.domain /\ ch'.token = ch.token
    BY <1>0, <2>1, ConfigShapes DEF TypeOK
  <2> QED BY <1>0, <1>2, <2>1, <2>2 DEF DomainInv, CopyOK, Keeps, Working
<1>4. CASE ch.domain \notin known
  <2>1. ch'.at = "idle" BY <1>4, IdleShapes DEF PurgeRecords
  <2>2. CASE sec # ch.read
    BY <1>2, <1>4, <2>1, <2>2, OthersKeep DEF PurgeRecords
  <2>3. CASE sec = ch.read
    <3>1. sec' = [ch.read EXCEPT !.token = FALSE] BY <1>4, <2>3 DEF PurgeRecords
    <3>2. ch.read.domain \notin known BY <1>0, <1>1, <1>4 DEF DomainInv
    <3> QED BY <1>1, <1>2, <2>1, <2>3, <3>1, <3>2, ClearKeeps
  <2> QED BY <2>2, <2>3
<1> QED BY <1>3, <1>4

\* A new domain is none that any copy has, and the one that was read is lost.
LEMMA ReserveKeeps == ASSUME TypeOK, DomainInv, ReserveDomain PROVE DomainInv' /\ Keeps
<1>0. Working /\ ~ch.token BY DEF ReserveDomain, Working, DomainInv
<1>1. UNCHANGED <<sec, seen>> /\ last \in Nat /\ last' = last + 1 /\ known' = known \cup {last'}
  BY Numbers DEF ReserveDomain, cluster, TypeOK
<1>2. ASSUME NEW s \in SecretRecords \cup {None}, s # None, s.domain <= last
      PROVE  s.domain # last' /\ s.domain <= last' /\ (s.domain \in known' => s.domain \in known)
  <2>1. s.domain \in Nat BY <1>2, Numbers DEF SecretRecords
  <2> QED BY <1>1, <1>2, <2>1
<1>3. CopyOK(sec)' /\ CopyOK(seen)'
  BY <1>1, <1>2 DEF DomainInv, CopyOK, TypeOK
<1>4. ch.read \in SecretRecords \cup {None} BY <1>0, ConfigShapes DEF TypeOK
<1>5. ch.read # None => sec # None /\ ch.read.domain <= last' /\ ch.read.domain \notin known'
  BY <1>0, <1>2, <1>4 DEF DomainInv
<1>6. ch'.at = "write" /\ ch'.read = ch.read /\ ch'.domain = last' /\ ch'.token = TRUE
  BY <1>0, ConfigShapes DEF TypeOK, ReserveDomain
<1> QED BY <1>1, <1>3, <1>5, <1>6 DEF DomainInv, Keeps, Working

LEMMA WriteKeeps == ASSUME TypeOK, DomainInv, WriteDNSSecret PROVE DomainInv' /\ Keeps
<1> DEFINE new == [domain |-> ch.domain, token |-> ch.token, state |-> ch.state]
<1>0. Working BY DEF WriteDNSSecret, Working
<1>1. new \in SecretRecords BY <1>0, ConfigShapes DEF TypeOK, SecretRecords
<1>2. new.domain = ch.domain /\ new.token = ch.token /\ new # None
  BY <1>1, NoneAssumption
<1>3. sec' = IF ch.read # None \/ sec = None THEN new ELSE sec BY DEF WriteDNSSecret
<1> HIDE DEF new
<1>4. UNCHANGED <<seen, known, last>> BY DEF WriteDNSSecret, service
<1>5. ch'.at \in {"idle", "cert"} BY IdleShapes DEF WriteDNSSecret
<1>6. CASE ch.read # None \/ sec = None
  <2>1. sec' = new BY <1>3, <1>6
  <2>2. ch.read # None => DomainOf(ch.read) = ch.read.domain BY DEF DomainOf
  <2>3. DomainInv' BY <1>0, <1>2, <1>4, <1>5, <2>1 DEF DomainInv, CopyOK, Working
  <2>4. Keeps BY <1>0, <1>2, <1>6, <2>1, <2>2 DEF DomainInv, Keeps
  <2> QED BY <2>3, <2>4
<1>7. CASE ~(ch.read # None \/ sec = None)
  <2>1. sec' = sec BY <1>3, <1>7
  <2> QED BY <1>4, <1>5, <2>1, OthersKeep
<1> QED BY <1>6, <1>7

\* A handler that is told that its domain is not known.
LEMMA ClearDNSTokenKeeps ==
    ASSUME TypeOK, DomainInv, NEW read \in SecretRecords, read.domain \notin known,
           ClearDNSToken(read), UNCHANGED <<seen, known, last, ch>>
    PROVE  DomainInv' /\ Keeps
<1>1. CASE sec = read
  <2>1. sec' = [read EXCEPT !.token = FALSE] BY <1>1 DEF ClearDNSToken
  <2> QED BY <1>1, <2>1, ClearKeeps
<1>2. CASE sec # read
  <2>1. sec' = sec BY <1>2 DEF ClearDNSToken
  <2> QED BY <2>1, OthersKeep
<1> QED BY <1>1, <1>2

LEMMA CreateKeeps == ASSUME TypeOK, DomainInv, CreateRecords PROVE DomainInv' /\ Keeps
<1>1. ih.sec \in SecretRecords BY IngressShapes DEF TypeOK, CreateRecords
<1>2. UNCHANGED <<seen, known, last, ch>> BY DEF CreateRecords
<1>3. CASE ih.sec.domain \in known
  BY <1>2, <1>3, OthersKeep DEF CreateRecords
<1>4. CASE ih.sec.domain \notin known
  BY <1>1, <1>2, <1>4, ClearDNSTokenKeeps DEF CreateRecords
<1> QED BY <1>3, <1>4

LEMMA RenewKeeps == ASSUME TypeOK, DomainInv, Renew PROVE DomainInv' /\ Keeps
<1>1. dm.sec \in SecretRecords BY DaemonShapes DEF TypeOK, Renew
<1>2. UNCHANGED <<seen, known, last, ch>> BY DEF Renew, service
<1>3. CASE dm.sec.domain \in known
  BY <1>2, <1>3, OthersKeep DEF Renew
<1>4. CASE dm.sec.domain \notin known
  BY <1>1, <1>2, <1>4, ClearDNSTokenKeeps DEF Renew
<1> QED BY <1>3, <1>4

LEMMA LoseKeeps ==
    ASSUME DomainInv, NEW d \in Domains, LoseDomain(d) PROVE DomainInv' /\ Keeps
<1>1. known' \subseteq known /\ UNCHANGED <<sec, seen, last, ch>> BY DEF LoseDomain, cluster
<1> QED BY <1>1 DEF DomainInv, CopyOK, Keeps, Working

LEMMA NextKeeps == ASSUME TypeOK, DomainInv, [Next]_vars PROVE DomainInv' /\ Keeps
<1>1. CASE UNCHANGED vars
  BY <1>1, OthersKeep DEF vars, cluster, service
<1>2. CASE StartConfig \/ PurgeRecords \/ ReserveDomain \/ WriteDNSSecret
  BY <1>2, StartConfigKeeps, PurgeKeeps, ReserveKeeps, WriteKeeps
<1>3. CASE Provision \/ ConfigFails
  BY <1>3, OthersKeep, IdleShapes DEF Provision, ConfigFails, cluster, service
<1>4. CASE HandleDNSSecret \/ StartIngress \/ SaveHash \/ IngressFails
  BY <1>4, OthersKeep DEF HandleDNSSecret, StartIngress, SaveHash, IngressFails, cluster, service
<1>5. CASE RenewCert \/ StartRenew \/ RemoveHash
  BY <1>5, OthersKeep DEF RenewCert, StartRenew, RemoveHash, cluster, service
<1>6. CASE CreateRecords \/ Renew \/ SyncSecret BY <1>6, CreateKeeps, RenewKeeps, SyncKeeps
<1>7. ASSUME NEW d \in AllDomains, OrderStep(d) \/ OrderFails(d) PROVE DomainInv' /\ Keeps
  BY <1>7, OthersKeep DEF OrderStep, ObtainCert, StoreCert, OrderFails, cluster, service
<1>8. CASE Toggle \/ ChangeSettings \/ ChangeAddress \/ CertExpires
  BY <1>8, OthersKeep DEF Toggle, ChangeSettings, ChangeAddress, CertExpires, cluster, service
<1>9. ASSUME NEW d \in Domains, LoseDomain(d) \/ LoseRecord(d) PROVE DomainInv' /\ Keeps
  BY <1>9, LoseKeeps, OthersKeep DEF LoseRecord, cluster
<1> QED BY <1>1, <1>2, <1>3, <1>4, <1>5, <1>6, <1>7, <1>8, <1>9
  DEF Next, ConfigHandler, IngressHandler, Daemon

LEMMA InitKeeps == ASSUME Init PROVE DomainInv
  BY IdleShapes DEF Init, DomainInv, CopyOK, Working

\* The two parts are inductive together: a token is cleared only from a secret that
\* is there, and a domain is reserved only without a token.
THEOREM Invariant == Spec => [](TypeOK /\ DomainInv)
<1>1. Init => TypeOK /\ DomainInv BY InitTyped, InitKeeps
<1>2. TypeOK /\ DomainInv /\ [Next]_vars => TypeOK' /\ DomainInv' BY NextTyped, NextKeeps
<1> QED BY <1>1, <1>2, PTL DEF Spec

\* Every variable and everything a handler holds keeps its type; no certificate is
\* ever stored for no domain (the goroutine of an order), and a token is never kept
\* without its domain.
THEOREM TypeCorrect == Spec => []TypeOK
  BY Invariant, PTL

\* Whichever handlers clear the token, and however far the cache lags, the config
\* handler writes another domain over one the service knows only in a pass that read
\* the secret from before that domain was in it.
THEOREM DomainIsKept == Spec => DomainKept
<1>1. TypeOK /\ DomainInv /\ [Next]_vars
        => [sec # None /\ sec.domain \in known /\ sec'.domain # sec.domain
              => Working /\ DomainOf(ch.read) # sec.domain]_vars
  BY NextKeeps DEF Keeps
<1> QED BY <1>1, Invariant, PTL DEF Spec, DomainKept

-----------------------------------------------------------------------------
(* The domain, if the cache shows what the config handler itself wrote *)

\* The handler works with the domain of the secret, as long as the service knows it.
CurrentInv ==
    Working => /\ (ch.read = None) = (sec = None)
               /\ sec # None /\ sec.domain \in known => ch.domain = sec.domain

Stays == sec # None /\ sec.domain \in known => sec'.domain = sec.domain

\* A step that neither makes a secret nor changes its domain, and reserves none.
LEMMA OthersStay ==
    ASSUME CurrentInv, ch' = ch \/ ~Working', known' \subseteq known,
           sec' = sec \/ (sec # None /\ sec' # None /\ sec'.domain = sec.domain)
    PROVE  CurrentInv' /\ Stays
  BY DEF CurrentInv, Stays, Working

LEMMA StartConfigStays ==
    ASSUME CurrentInv, StartConfig, ShowsOwnWrites PROVE CurrentInv' /\ Stays
<1>1. ch'.read = seen /\ ch'.domain = DomainOf(seen) BY DEF StartConfig
<1>2. UNCHANGED <<sec, known>> BY DEF StartConfig, cluster, service
<1>3. sec # None => DomainOf(sec) = sec.domain BY DEF DomainOf
<1> QED BY <1>1, <1>2, <1>3 DEF CurrentInv, Stays, ShowsOwnWrites

\* Clearing the token of the secret leaves its domain.
LEMMA ClearStays ==
    ASSUME TypeOK, CurrentInv, NEW read \in SecretRecords, known' = known, ch' = ch \/ ~Working',
           sec' = (IF sec = read THEN [sec EXCEPT !.token = FALSE] ELSE sec)
    PROVE  CurrentInv' /\ Stays
<1>1. CASE sec = read
  <2>1. sec' = [read EXCEPT !.token = FALSE] BY <1>1
  <2>2. sec # None /\ sec' # None /\ sec'.domain = sec.domain
    BY <1>1, <2>1, ClearedShape, NoneAssumption
  <2> QED BY <2>2, OthersStay
<1>2. CASE sec # read BY <1>2, OthersStay
<1> QED BY <1>1, <1>2

LEMMA PurgeStays ==
    ASSUME TypeOK, DomainInv, CurrentInv, PurgeRecords PROVE CurrentInv' /\ Stays
<1>0. Working BY DEF PurgeRecords, Working
<1>1. ch.read \in SecretRecords BY <1>0, ConfigShapes DEF TypeOK, PurgeRecords, DomainInv
<1>2. known' = known BY DEF PurgeRecords
<1>3. CASE ch.domain \in known
  <2>1. ch' = [ch EXCEPT !.at = "write"] /\ sec' = sec BY <1>3 DEF PurgeRecords
  <2>2. ch'.read = ch.read /\ ch'.domain = ch.domain BY <1>0, <2>1, ConfigShapes DEF TypeOK
  <2> QED BY <1>0, <1>2, <2>1, <2>2 DEF CurrentInv, Stays
<1>4. CASE ch.domain \notin known
  BY <1>1, <1>2, <1>4, IdleShapes, ClearStays DEF PurgeRecords, Working
<1> QED BY <1>3, <1>4

LEMMA ReserveStays ==
    ASSUME TypeOK, DomainInv, CurrentInv, ReserveDomain PROVE CurrentInv' /\ Stays
<1>0. Working /\ ~ch.token BY DEF ReserveDomain, Working, DomainInv
<1>1. sec' = sec /\ last \in Nat /\ last' = last + 1 /\ known' = known \cup {last'}
  BY Numbers DEF ReserveDomain, cluster, TypeOK
<1>2. sec # None => sec.domain \in Nat /\ sec.domain <= last
  BY Numbers DEF DomainInv, CopyOK, TypeOK, SecretRecords
<1>3. sec # None => sec.domain \notin known'
  <2>1. sec # None => sec.domain \notin known BY <1>0 DEF CurrentInv, DomainInv
  <2> QED BY <1>1, <1>2, <2>1
<1>4. ch'.read = ch.read BY <1>0, ConfigShapes DEF TypeOK, ReserveDomain
<1> QED BY <1>0, <1>1, <1>3, <1>4 DEF CurrentInv, Stays

LEMMA WriteStays ==
    ASSUME CurrentInv, WriteDNSSecret PROVE CurrentInv' /\ Stays
<1>0. Working BY DEF WriteDNSSecret, Working
<1>1. sec' = IF ch.read # None \/ sec = None
             THEN [domain |-> ch.domain, token |-> ch.token, state |-> ch.state] ELSE sec
  BY DEF WriteDNSSecret
<1>2. ~Working' BY IdleShapes DEF WriteDNSSecret, Working
<1> QED BY <1>0, <1>1, <1>2 DEF CurrentInv, Stays

LEMMA NextStays ==
    ASSUME TypeOK, DomainInv, CurrentInv, [Next]_vars, StartConfig => ShowsOwnWrites
    PROVE  CurrentInv' /\ Stays
<1>1. CASE UNCHANGED vars
  BY <1>1, OthersStay DEF vars, cluster, service
<1>2. CASE StartConfig \/ PurgeRecords \/ ReserveDomain \/ WriteDNSSecret
  BY <1>2, StartConfigStays, PurgeStays, ReserveStays, WriteStays
<1>3. CASE Provision \/ ConfigFails
  BY <1>3, OthersStay, IdleShapes DEF Provision, ConfigFails, cluster, service, Working
<1>4. CASE HandleDNSSecret \/ StartIngress \/ SaveHash \/ IngressFails
  BY <1>4, OthersStay DEF HandleDNSSecret, StartIngress, SaveHash, IngressFails, cluster, service
<1>5. CASE RenewCert \/ StartRenew \/ RemoveHash \/ SyncSecret
  BY <1>5, OthersStay DEF RenewCert, StartRenew, RemoveHash, SyncSecret, cluster, service
<1>6. CASE CreateRecords
  <2>1. ih.sec \in SecretRecords /\ UNCHANGED <<known, ch>>
    BY <1>6, IngressShapes DEF TypeOK, CreateRecords
  <2>2. CASE ih.sec.domain \in known BY <1>6, <2>1, <2>2, OthersStay DEF CreateRecords
  <2>3. CASE ih.sec.domain \notin known
    BY <1>6, <2>1, <2>3, ClearStays DEF CreateRecords, ClearDNSToken
  <2> QED BY <2>2, <2>3
<1>7. CASE Renew
  <2>1. dm.sec \in SecretRecords /\ UNCHANGED <<known, ch>>
    BY <1>7, DaemonShapes DEF TypeOK, Renew, service
  <2>2. CASE dm.sec.domain \in known BY <1>7, <2>1, <2>2, OthersStay DEF Renew
  <2>3. CASE dm.sec.domain \notin known
    BY <1>7, <2>1, <2>3, ClearStays DEF Renew, ClearDNSToken
  <2> QED BY <2>2, <2>3
<1>8. ASSUME NEW d \in AllDomains, OrderStep(d) \/ OrderFails(d) PROVE CurrentInv' /\ Stays
  BY <1>8, OthersStay DEF OrderStep, ObtainCert, StoreCert, OrderFails, cluster, service
<1>9. CASE Toggle \/ ChangeSettings \/ ChangeAddress \/ CertExpires
  BY <1>9, OthersStay DEF Toggle, ChangeSettings, ChangeAddress, CertExpires, cluster, service
<1>10. ASSUME NEW d \in Domains, LoseDomain(d) \/ LoseRecord(d) PROVE CurrentInv' /\ Stays
  BY <1>10, OthersStay DEF LoseDomain, LoseRecord, cluster
<1> QED BY <1>1, <1>2, <1>3, <1>4, <1>5, <1>6, <1>7, <1>8, <1>9, <1>10
  DEF Next, ConfigHandler, IngressHandler, Daemon

\* If every pass of the config handler sees the domain an earlier one wrote, the
\* domain changes only after the service has lost it.  The other steps may still see
\* an old secret, and the token may be cleared behind the back of a pass.
THEOREM DomainStays ==
    Spec /\ OwnWritesShown => KnownDomainStays
<1>1. Init => CurrentInv
  BY IdleShapes DEF Init, CurrentInv, Working
<1>2. TypeOK /\ DomainInv /\ CurrentInv /\ [Next]_vars /\ [StartConfig => ShowsOwnWrites]_vars
        => /\ CurrentInv'
           /\ [sec # None /\ sec.domain \in known => sec'.domain = sec.domain]_vars
  <2> SUFFICES ASSUME TypeOK, DomainInv, CurrentInv, [Next]_vars, [StartConfig => ShowsOwnWrites]_vars
               PROVE  CurrentInv' /\ Stays
    BY DEF Stays
  <2>1. CASE UNCHANGED vars
    BY <2>1, OthersStay DEF vars, cluster, service
  <2>2. CASE StartConfig => ShowsOwnWrites
    BY <2>2, NextStays
  <2> QED BY <2>1, <2>2
<1> QED BY <1>1, <1>2, Invariant, PTL DEF Spec, OwnWritesShown, KnownDomainStays

=============================================================================
