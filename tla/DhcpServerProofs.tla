-------------------------- MODULE DhcpServerProofs --------------------------
(***************************************************************************)
(* The leases of the DHCP server, for any clients, pool and bounds: what    *)
(* the table keeps of a lease, and that nobody else gets its address.      *)
(***************************************************************************)
EXTENDS DhcpServer, NatLemmas

USE DhcpAssumption

Phases == {"init", "selecting", "offered", "requesting", "bound", "renewing"}
ClientType(n) == [phase : Phases, ip : Addrs \cup {0}, xid : 0 .. n]

LEMMA AddrsAre == Addrs \subseteq Nat /\ 0 \notin Addrs /\ None \notin Clients
BY DEF Addrs

\* The smallest member of a nonempty set of addresses is in it (both scans of
\* the table return the first hit).
LEMMA MinIs ==
  ASSUME NEW T, T \subseteq Addrs, T # {}
  PROVE  Min(T) \in T
<1>1. PICK x \in T : \A y \in T : x <= y
  BY AddrsAre, NatMin
<1> QED BY <1>1 DEF Min

\* check_client_request_ip: no address, or one in the table under this client.
LEMMA CheckClientIs ==
  ASSUME NEW c \in Clients
  PROVE  \/ CheckClient(c) = 0
         \/ CheckClient(c) \in Addrs \cap marked /\ mac[CheckClient(c)] = c
<1>1. KeptBy(c) \subseteq Addrs
  BY DEF KeptBy
<1>2. KeptBy(c) # {} => Min(KeptBy(c)) \in KeptBy(c)
  BY <1>1, MinIs
<1> QED BY <1>1, <1>2 DEF CheckClient, KeptBy

\* search_next_ip: no address, or one of the pool that is not marked.
LEMMA SearchNextIs == SearchNext = 0 \/ SearchNext \in Pool \ marked
<1>1. Pool \ marked \subseteq Addrs
  BY DhcpAssumption
<1>2. Pool \ marked # {} => Min(Pool \ marked) \in Pool \ marked
  BY <1>1, MinIs
<1> QED BY <1>2 DEF SearchNext

LEMMA OfferedIs ==
  ASSUME NEW c \in Clients
  PROVE  /\ Offered(c) \in Addrs \cup {0}
         /\ \/ Offered(c) = 0
            \/ Offered(c) \in Addrs \cap marked /\ mac[Offered(c)] = c
            \/ Offered(c) \in Pool \ marked
<1>1. CASE CheckClient(c) = 0
  <2>1. Offered(c) = SearchNext
    BY <1>1 DEF Offered
  <2>2. Pool \subseteq Addrs
    BY DhcpAssumption
  <2> QED BY <2>1, <2>2, SearchNextIs
<1>2. CASE CheckClient(c) # 0
  <2>1. Offered(c) = CheckClient(c)
    BY <1>2 DEF Offered
  <2> QED BY <1>2, <2>1, CheckClientIs
<1> QED BY <1>1, <1>2
-----------------------------------------------------------------------------
\* The type of the clients after an answer.
LEMMA AnswerIs ==
  ASSUME TypeOK, NEW p \in net, NEW phases, NEW phase \in Phases, NEW ip \in Addrs \cup {0},
         Answer(p, phases, phase, ip)
  PROVE  client' \in [Clients -> ClientType(MaxTries[delay])]
<1>1. p.from \in Clients /\ client \in [Clients -> ClientType(MaxTries[delay])]
  BY DEF TypeOK, Packets, ClientType, Phases
<1>2. [client[p.from] EXCEPT !.phase = phase, !.ip = ip] \in ClientType(MaxTries[delay])
  <2>1. client[p.from] \in ClientType(MaxTries[delay])
    BY <1>1
  <2> QED BY <2>1 DEF ClientType
<1>3. client' = IF client[p.from].xid = p.xid /\ client[p.from].phase \in phases
                THEN [client EXCEPT ![p.from] = [client[p.from] EXCEPT !.phase = phase, !.ip = ip]]
                ELSE client
  BY DEF Answer
<1> QED BY <1>1, <1>2, <1>3

\* A new transaction leaves everything in its domain.
LEMMA StartIs ==
  ASSUME TypeOK, NEW c \in Clients, NEW phase \in Phases, NEW type \in Types,
         NEW ip \in Addrs \cup {0, None}, Start(c, phase, type, ip), UNCHANGED delay
  PROVE  TypeOK'
<1>1. NewXid(c) \in 0 .. MaxTries[delay]
  <2>1. client[c].xid \in Nat /\ MaxTries[delay] \in Nat
    BY DEF TypeOK
  <2>2. NewXid(c) \in Nat /\ NewXid(c) <= MaxTries[delay]
    BY <2>1 DEF Start, NewXid
  <2> QED BY <2>1, <2>2
<1>2. client' \in [Clients -> ClientType(MaxTries[delay])]
  <2>1. client \in [Clients -> ClientType(MaxTries[delay])]
    BY DEF TypeOK, ClientType, Phases
  <2>2. [client[c] EXCEPT !.phase = phase, !.xid = NewXid(c)] \in ClientType(MaxTries[delay])
    BY <1>1, <2>1 DEF ClientType
  <2>3. client' = [client EXCEPT ![c] = [client[c] EXCEPT !.phase = phase, !.xid = NewXid(c)]]
    BY DEF Start
  <2> QED BY <2>1, <2>2, <2>3
<1>3. net' \subseteq Packets
  BY <1>1 DEF TypeOK, Start, Send, Packet, Packets
<1> QED BY <1>2, <1>3 DEF TypeOK, Start, server, table, Packets, ClientType, Phases

\* One who moves to another phase is a client still.
LEMMA PhaseIs ==
  ASSUME TypeOK, NEW c \in Clients, NEW phase \in Phases,
         client' = [client EXCEPT ![c].phase = phase]
  PROVE  client' \in [Clients -> ClientType(MaxTries[delay])]
<1>1. client \in [Clients -> ClientType(MaxTries[delay])]
  BY DEF TypeOK, ClientType, Phases
<1>2. [client[c] EXCEPT !.phase = phase] \in ClientType(MaxTries[delay])
  BY <1>1 DEF ClientType
<1> QED BY <1>1, <1>2

LEMMA SendIs ==
  ASSUME TypeOK, NEW c \in Clients, NEW type \in Types,
         NEW ip \in Addrs \cup {0, None}, Send(type, c, ip, client[c].xid), UNCHANGED delay
  PROVE  net' \subseteq Packets'
BY DEF TypeOK, Send, Packet, Packets

LEMMA ClientTypeOK ==
  ASSUME TypeOK, UNCHANGED delay, NEW c \in Clients,
         \/ Try(c) \/ Reboot(c) \/ Renew(c) \/ Quit(c) \/ Inform(c) \/ Timeout(c)
  PROVE  TypeOK'
<1>0. /\ client \in [Clients -> ClientType(MaxTries[delay])]
      /\ client[c].ip \in Addrs \cup {0}
  BY DEF TypeOK, ClientType, Phases
<1>1. ASSUME UNCHANGED server, net' \subseteq Packets',
             client' \in [Clients -> ClientType(MaxTries[delay])]
      PROVE  TypeOK'
  BY <1>1 DEF TypeOK, server, table, ClientType, Phases
<1>2. CASE Discover(c)
  <2>1. PICK ip \in {None, client[c].ip} \ {0} : Start(c, "selecting", "DISCOVER", ip)
    BY <1>2 DEF Discover
  <2> QED BY <1>0, <2>1, StartIs DEF Phases, Types
<1>3. CASE Request(c)
  BY <1>0, <1>1, <1>3, PhaseIs, SendIs DEF Request, Phases, Types
<1>4. CASE Reboot(c)
  BY <1>0, <1>4, StartIs DEF Reboot, Phases, Types
<1>5. CASE Renew(c)
  BY <1>0, <1>5, StartIs DEF Renew, Phases, Types
<1>6. CASE Quit(c)
  <2>1. net' \subseteq Packets'
    BY <1>0, <1>6, SendIs DEF Quit, Types, TypeOK, Packets
  <2> QED BY <1>1, <1>6, <2>1, PhaseIs DEF Quit, Phases
<1>7. CASE Inform(c)
  BY <1>0, <1>1, <1>7, SendIs DEF Inform, Types
<1>8. CASE Timeout(c)
  <2>1. net' \subseteq Packets'
    BY <1>8 DEF Timeout, TypeOK, Packets
  <2> QED BY <1>1, <1>8, <2>1, PhaseIs DEF Timeout, Phases
<1> QED BY <1>2, <1>3, <1>4, <1>5, <1>6, <1>7, <1>8 DEF Try

LEMMA ServeTypeOK ==
  ASSUME TypeOK, UNCHANGED delay, NEW p \in net, Serve(p)
  PROVE  TypeOK'
<1>0. /\ client \in [Clients -> ClientType(MaxTries[delay])]
      /\ p.from \in Clients /\ Named(p) \in Addrs \cup {0}
      /\ Offered(p.from) \in Addrs \cup {0}
  BY OfferedIs DEF TypeOK, ClientType, Phases, Packets, Named
<1>1. net' \subseteq Packets' /\ reoffered' \in BOOLEAN
  BY DEF Serve, Took, TypeOK, Packets
<1>2. ASSUME client' \in [Clients -> ClientType(MaxTries[delay])],
             state' \in {"IDLE", "OFFER"}, allocated' \in Addrs \cup {0},
             requested' \in Addrs \cup {0}, marked' \subseteq Addrs,
             mac' \in [Addrs -> Clients \cup {None}]
      PROVE  TypeOK'
  BY <1>1, <1>2 DEF TypeOK, ClientType, Phases
<1>3. CASE SendOffer(p)
  <2>1. client' \in [Clients -> ClientType(MaxTries[delay])]
    BY <1>0, <1>3, AnswerIs DEF SendOffer, Phases
  <2> QED BY <1>0, <1>2, <1>3, <2>1 DEF SendOffer, TypeOK, table
<1>4. ASSUME NEW ip \in Addrs, SendAck(p, ip)
      PROVE  TypeOK'
  <2>1. client' \in [Clients -> ClientType(MaxTries[delay])]
    BY <1>0, <1>4, AnswerIs DEF SendAck, Phases
  <2>2. mac' \in [Addrs -> Clients \cup {None}] /\ marked' \subseteq Addrs
    BY <1>0, <1>4 DEF SendAck, Mark, TypeOK
  <2> QED BY <1>2, <1>4, <2>1, <2>2 DEF SendAck
<1>5. CASE SendNak(p)
  <2>1. client' \in [Clients -> ClientType(MaxTries[delay])]
    BY <1>0, <1>5, AnswerIs DEF SendNak, Phases
  <2> QED BY <1>0, <1>2, <1>5, <2>1 DEF SendNak, TypeOK, table
<1>6. CASE ServeRequest(p) /\ ~SendNak(p)
  <2>1. (IF state = "OFFER" THEN allocated ELSE CheckClient(p.from)) \in Addrs
    BY <1>0, <1>6, CheckClientIs DEF ServeRequest, Acceptable, TypeOK
  <2> QED BY <1>4, <1>6, <2>1 DEF ServeRequest
<1>7. CASE ServeEnd(p)
  BY <1>0, <1>2, <1>7 DEF ServeEnd, TypeOK, table
<1>8. CASE ServeOther(p) /\ ~SendOffer(p)
  BY <1>0, <1>2, <1>8 DEF ServeOther, TypeOK, table
<1> QED BY <1>3, <1>5, <1>6, <1>7, <1>8 DEF Serve, ServeDiscover, ServeRequest

LEMMA TypeInductive == TypeOK /\ [Next]_vars => TypeOK'
<1> SUFFICES ASSUME TypeOK, [Next]_vars PROVE TypeOK'
  OBVIOUS
<1>1. ASSUME NEW p \in net, Lose(p), UNCHANGED delay PROVE TypeOK'
  BY <1>1 DEF Lose, TypeOK, server, table, Packets
<1>2. CASE UNCHANGED vars
  BY <1>2 DEF TypeOK, vars, server, table, Packets
<1> QED BY <1>1, <1>2, ClientTypeOK, ServeTypeOK DEF Next

\* Every variable of dhcps.c stays in its domain: addresses are of the eight
\* words of the table, or 0.
THEOREM DhcpTypeCorrect == Spec => []TypeOK
<1>1. Init => TypeOK
  <2> SUFFICES ASSUME Init PROVE TypeOK
    OBVIOUS
  <2>1. delay \in BOOLEAN /\ MaxTries[delay] \in Nat
    BY DEF Init
  <2>2. client \in [Clients -> ClientType(MaxTries[delay])]
    BY <2>1 DEF Init, ClientType, Phases
  <2> QED BY <2>2 DEF Init, TypeOK, ClientType, Phases
<1> QED BY <1>1, TypeInductive, PTL DEF Spec
-----------------------------------------------------------------------------
\* Who holds an address after a step held it before.
NoNewLease ==
  \A c \in Clients : Holds(c)' => Holds(c) /\ client'[c].ip = client[c].ip

\* An acknowledgement gives out the address on offer, or the one of the record.
AckStep(p, ip) ==
  /\ p.type = "REQUEST" /\ ip \in Addrs
  /\ \/ state = "OFFER" /\ ip = allocated
     \/ ip \in marked /\ mac[ip] = p.from
  /\ SendAck(p, ip)
  /\ \A c \in Clients : Holds(c)' =>
       \/ Holds(c) /\ client'[c].ip = client[c].ip
       \/ c = p.from /\ client'[c].ip = ip

OfferStep(p) ==
  /\ p.type = "DISCOVER" \/ (p.type = "INFORM" /\ reoffered')
  /\ state' = "OFFER" /\ allocated' = Offered(p.from)
  /\ UNCHANGED table /\ NoNewLease

\* What is left of the server's handler for the leases: it offers, acknowledges,
\* or gives nothing out.
LEMMA ServeIs ==
  ASSUME TypeOK, NEW p \in net, Serve(p)
  PROVE  \/ OfferStep(p)
         \/ \E ip \in Addrs : AckStep(p, ip)
         \/ /\ state' = "IDLE" \/ UNCHANGED <<state, allocated>>
            /\ UNCHANGED table /\ NoNewLease
<1>0. /\ client \in [Clients -> ClientType(MaxTries[delay])] /\ p.from \in Clients
  BY DEF TypeOK, ClientType, Phases, Packets
<1>1. ASSUME NEW phases, NEW phase \in {"offered", "init"}, NEW ip, Answer(p, phases, phase, ip)
      PROVE  NoNewLease
  <2>1. \A c \in Clients : c # p.from => client'[c] = client[c]
    BY <1>0, <1>1 DEF Answer
  <2>2. \/ client'[p.from] = client[p.from]
        \/ client'[p.from].phase = phase
    BY <1>0, <1>1 DEF Answer, ClientType
  <2>3. \A c \in Clients : client'[c] = client[c] \/ client'[c].phase = phase
    BY <2>1, <2>2
  <2> QED BY <2>3 DEF NoNewLease, Holds
<1>2. CASE SendOffer(p) /\ (p.type = "DISCOVER" \/ (p.type = "INFORM" /\ state = "OFFER"))
  BY <1>1, <1>2 DEF SendOffer, OfferStep, Serve
<1>3. CASE SendNak(p)
  BY <1>1, <1>3 DEF SendNak
<1>4. CASE ServeRequest(p) /\ ~SendNak(p)
  <2> DEFINE ip == IF state = "OFFER" THEN allocated ELSE CheckClient(p.from)
  <2>1. p.type = "REQUEST" /\ Acceptable(p) /\ SendAck(p, ip)
    BY <1>4 DEF ServeRequest
  <2>2. /\ ip \in Addrs
        /\ \/ state = "OFFER" /\ ip = allocated
           \/ ip \in marked /\ mac[ip] = p.from
    BY <1>0, <2>1, CheckClientIs DEF Acceptable, TypeOK
  <2>3. Answer(p, {"requesting", "renewing"}, "bound", ip)
    BY <2>1 DEF SendAck
  <2>4. \A c \in Clients : c # p.from => client'[c] = client[c]
    BY <1>0, <2>3 DEF Answer
  <2>5. client'[p.from] = client[p.from] \/ client'[p.from].ip = ip
    BY <1>0, <2>3 DEF Answer, ClientType
  <2>6. \A c \in Clients : Holds(c)' =>
          \/ Holds(c) /\ client'[c].ip = client[c].ip
          \/ c = p.from /\ client'[c].ip = ip
    BY <2>4, <2>5 DEF Holds
  <2> HIDE DEF ip
  <2> QED BY <2>1, <2>2, <2>6 DEF AckStep
<1>5. CASE ServeEnd(p)
  BY <1>5 DEF ServeEnd, NoNewLease, Holds
<1>6. CASE ServeOther(p) /\ state # "OFFER"
  BY <1>6 DEF ServeOther, NoNewLease, Holds
<1> QED BY <1>2, <1>3, <1>4, <1>5, <1>6 DEF Serve, ServeDiscover, ServeOther

\* The clients' own steps give out nothing and leave the server alone.
LEMMA ClientIs ==
  ASSUME TypeOK, NEW c \in Clients,
         \/ Try(c) \/ Reboot(c) \/ Renew(c) \/ Quit(c) \/ Inform(c) \/ Timeout(c)
  PROVE  UNCHANGED server /\ NoNewLease
<1>0. client \in [Clients -> ClientType(MaxTries[delay])]
  BY DEF TypeOK, ClientType, Phases
<1>1. ASSUME \A d \in Clients \ {c} : client'[d] = client[d],
             \/ ~Holds(c)'
             \/ Holds(c) /\ client'[c].ip = client[c].ip
      PROVE  NoNewLease
  BY <1>1 DEF NoNewLease, Holds
<1>2. ASSUME NEW phase, NEW type, NEW ip, Start(c, phase, type, ip),
             phase = "renewing" => client[c].phase = "bound", phase # "bound"
      PROVE  UNCHANGED server /\ NoNewLease
  <2>1. \A d \in Clients \ {c} : client'[d] = client[d]
    BY <1>0, <1>2 DEF Start
  <2>2. client'[c].ip = client[c].ip /\ client'[c].phase = phase
    BY <1>0, <1>2 DEF Start, ClientType
  <2> QED BY <1>1, <1>2, <2>1, <2>2 DEF Start, Holds
<1>3. ASSUME NEW phase \in {"init", "requesting"}, client' = [client EXCEPT ![c].phase = phase]
      PROVE  NoNewLease
  <2>1. (\A d \in Clients \ {c} : client'[d] = client[d]) /\ client'[c].phase = phase
    BY <1>0, <1>3 DEF ClientType
  <2> QED BY <1>1, <2>1 DEF Holds
<1>4. CASE Try(c)
  BY <1>2, <1>3, <1>4 DEF Try, Discover, Request
<1>5. CASE Reboot(c) \/ Renew(c)
  BY <1>2, <1>5 DEF Reboot, Renew
<1>6. CASE Quit(c) \/ Timeout(c)
  BY <1>3, <1>6 DEF Quit, Timeout
<1>7. CASE Inform(c)
  BY <1>7 DEF Inform, NoNewLease, Holds
<1> QED BY <1>4, <1>5, <1>6, <1>7

\* Every step, as the leases see it.
LEMMA StepIs ==
  ASSUME TypeOK, [Next]_vars
  PROVE  \/ \E p \in net : OfferStep(p)
         \/ \E p \in net : \E ip \in Addrs : AckStep(p, ip)
         \/ /\ state' = "IDLE" \/ UNCHANGED <<state, allocated>>
            /\ UNCHANGED table /\ NoNewLease
<1>1. CASE UNCHANGED vars
  BY <1>1 DEF vars, server, table, NoNewLease, Holds
<1>2. ASSUME NEW p \in net, Lose(p) PROVE UNCHANGED server /\ NoNewLease
  BY <1>2 DEF Lose, NoNewLease, Holds
<1> QED BY <1>1, <1>2, ClientIs, ServeIs DEF Next, server
-----------------------------------------------------------------------------
\* No address of the pool is in the word that mark_ip_in_table fails to mark.
MarkedPool == \A d \in Pool : Word(d) # 4

LeaseInv ==
  /\ \A d \in marked : Word(d) # 4
  /\ state = "OFFER" /\ allocated # 0 => Word(allocated) # 4
  /\ Latched

LEMMA LeaseInvInductive ==
  ASSUME MarkedPool, TypeOK, LeaseInv, [Next]_vars
  PROVE  LeaseInv'
<1>1. ASSUME NEW p \in net, OfferStep(p) PROVE LeaseInv'
  <2>1. p.from \in Clients
    BY DEF TypeOK, Packets
  <2>2. Offered(p.from) # 0 => Word(Offered(p.from)) # 4
    BY <2>1, OfferedIs DEF LeaseInv, MarkedPool
  <2>3. UNCHANGED marked /\ allocated' = Offered(p.from)
    BY <1>1 DEF OfferStep, table
  <2>4. Latched'
    BY <1>1, <2>3 DEF OfferStep, NoNewLease, Latched, LeaseInv
  <2> QED BY <2>2, <2>3, <2>4 DEF LeaseInv
<1>2. ASSUME NEW p \in net, NEW ip \in Addrs, AckStep(p, ip) PROVE LeaseInv'
  <2>1. Word(ip) # 4 /\ ip # 0
    BY <1>2, AddrsAre DEF AckStep, LeaseInv
  <2>2. marked' = marked \cup {ip} /\ state' = "IDLE"
    BY <1>2, <2>1 DEF AckStep, SendAck, Mark
  <2>3. Latched'
    BY <1>2, <2>2 DEF AckStep, Latched, LeaseInv
  <2> QED BY <2>1, <2>2, <2>3 DEF LeaseInv
<1>3. CASE (state' = "IDLE" \/ UNCHANGED <<state, allocated>>) /\ UNCHANGED table /\ NoNewLease
  BY <1>3 DEF LeaseInv, table, NoNewLease, Latched
<1> QED BY <1>1, <1>2, <1>3, StepIs

\* A lease is latched, unless the pool reaches into the fifth word: the address
\* is in the table, so search_next_ip passes over it (mark_ip_in_table).
THEOREM LeasesLatched ==
  ASSUME MarkedPool
  PROVE  Spec => []Latched
<1>1. Init => LeaseInv
  BY DEF Init, LeaseInv, Latched, Holds
<1>2. TypeOK /\ LeaseInv /\ [Next]_vars => LeaseInv'
  BY LeaseInvInductive
<1>3. LeaseInv => Latched
  BY DEF LeaseInv
<1> QED BY <1>1, <1>2, <1>3, DhcpTypeCorrect, PTL DEF Spec
-----------------------------------------------------------------------------
\* Neither the server's address nor the gateway's is in the pool and that word.
OwnMarked == \A d \in Own \cap Pool : Word(d) # 4

OwnInv ==
  /\ \A d \in Own : Word(d) # 4 => d \in marked
  /\ \A d \in Own : mac[d] = None
  /\ state = "OFFER" => allocated \notin Own
  /\ OwnIsSpared

LEMMA OwnInvInductive ==
  ASSUME OwnMarked, TypeOK, OwnInv, [Next]_vars
  PROVE  OwnInv'
<1>1. ASSUME NEW p \in net, OfferStep(p) PROVE OwnInv'
  <2>1. p.from \in Clients /\ UNCHANGED table /\ allocated' = Offered(p.from)
    BY <1>1 DEF TypeOK, Packets, OfferStep
  <2>2. Offered(p.from) \notin Own
    BY <2>1, OfferedIs, AddrsAre DEF OwnInv, OwnMarked
  <2>3. OwnIsSpared'
    BY <1>1 DEF OfferStep, NoNewLease, OwnIsSpared, OwnInv
  <2> QED BY <2>1, <2>2, <2>3 DEF OwnInv, table
<1>2. ASSUME NEW p \in net, NEW ip \in Addrs, AckStep(p, ip) PROVE OwnInv'
  <2>1. ip \notin Own
    <3>1. p.from \in Clients
      BY DEF TypeOK, Packets
    <3> QED BY <1>2, <3>1, AddrsAre DEF AckStep, OwnInv
  <2>2. marked \subseteq marked' /\ state' = "IDLE" /\ \A d \in Own : mac'[d] = mac[d]
    BY <1>2, <2>1 DEF AckStep, SendAck, Mark, TypeOK
  <2>3. OwnIsSpared'
    BY <1>2, <2>1 DEF AckStep, OwnIsSpared, OwnInv
  <2> QED BY <2>2, <2>3 DEF OwnInv
<1>3. CASE (state' = "IDLE" \/ UNCHANGED <<state, allocated>>) /\ UNCHANGED table /\ NoNewLease
  BY <1>3 DEF OwnInv, table, NoNewLease, OwnIsSpared
<1> QED BY <1>1, <1>2, <1>3, StepIs

\* The server's own address and the gateway's are never given away, though both
\* lie in the pool: dhcps_init marks them (dhcps_init, search_next_ip).
THEOREM OwnAddressesSpared ==
  ASSUME OwnMarked
  PROVE  Spec => []OwnIsSpared
<1>1. Init => OwnInv
  BY AddrsAre DEF Init, OwnInv, OwnIsSpared, Holds
<1>2. TypeOK /\ OwnInv /\ [Next]_vars => OwnInv'
  BY OwnInvInductive
<1>3. OwnInv => OwnIsSpared
  BY DEF OwnInv
<1> QED BY <1>1, <1>2, <1>3, DhcpTypeCorrect, PTL DEF Spec
-----------------------------------------------------------------------------
\* Over the prompt network a client has one DISCOVER or REQUEST on its way at
\* most, of its present transaction, and only while it waits for the answer; an
\* INFORM is from before the present search for an address.
Awaited(c, type) ==
  \/ type = "DISCOVER" /\ client[c].phase = "selecting"
  \/ type = "REQUEST" /\ client[c].phase \in {"requesting", "renewing"}

Asking(p) == p.type \in {"DISCOVER", "REQUEST"}

PromptNet ==
  /\ \A p \in net : Asking(p) => Awaited(p.from, p.type) /\ p.xid = client[p.from].xid
  /\ \A p, q \in net : p.from = q.from /\ Asking(p) /\ Asking(q) => p = q
  /\ \A p \in net : p.type = "INFORM" =>
       /\ Leave /\ p.xid <= client[p.from].xid
       /\ p.xid = client[p.from].xid => client[p.from].phase # "selecting"

\* The table has the holder of an address on record for it; the address on offer
\* has no holder.
Recorded ==
  /\ \A c \in Clients : Holds(c) => mac[client[c].ip] = c
  /\ state = "OFFER" => \A c \in Clients : Holds(c) => client[c].ip # allocated

LEMMA ClientPromptNet ==
  ASSUME TypeOK, ~delay, PromptNet, NEW c \in Clients,
         \/ Try(c) \/ Reboot(c) \/ Renew(c) \/ Quit(c) \/ Inform(c) \/ Timeout(c)
  PROVE  PromptNet'
<1>0. /\ client \in [Clients -> ClientType(MaxTries[delay])]
      /\ MaxTries[delay] \in Nat /\ client[c].xid \in Nat
      /\ \A p \in net : p.from \in Clients /\ p.xid \in Nat
  <2>1. delay \in BOOLEAN /\ client \in [Clients -> ClientType(MaxTries[delay])]
    BY DEF TypeOK, ClientType, Phases
  <2> QED BY <2>1 DEF TypeOK, ClientType, Packets
\* It is enough to look at the packets of c.
<1>1. ASSUME \A d \in Clients \ {c} : client'[d] = client[d],
             \A p \in net' : p.from # c => p \in net,
             \A p \in net' : p.from = c /\ Asking(p) =>
               Awaited(c, p.type)' /\ p.xid = client'[c].xid,
             \A p, q \in net' : p.from = c /\ q.from = c /\ Asking(p) /\ Asking(q) => p = q,
             \A p \in net' : p.from = c /\ p.type = "INFORM" =>
               /\ Leave /\ p.xid <= client'[c].xid
               /\ p.xid = client'[c].xid => client'[c].phase # "selecting"
      PROVE  PromptNet'
  <2>1. \A p \in net' : p.from # c => p \in net /\ client'[p.from] = client[p.from]
    BY <1>0, <1>1
  <2>2. \A p \in net' : Asking(p) => Awaited(p.from, p.type)' /\ p.xid = client'[p.from].xid
    BY <1>1, <2>1 DEF PromptNet, Awaited
  <2>3. \A p, q \in net' : p.from = q.from /\ Asking(p) /\ Asking(q) => p = q
    BY <1>1, <2>1 DEF PromptNet
  <2>4. \A p \in net' : p.type = "INFORM" =>
          /\ Leave /\ p.xid <= client'[p.from].xid
          /\ p.xid = client'[p.from].xid => client'[p.from].phase # "selecting"
    BY <1>1, <2>1 DEF PromptNet
  <2> QED BY <2>2, <2>3, <2>4 DEF PromptNet, Asking, Awaited
\* None is on its way from a client that does not wait for an answer.
<1>2. client[c].phase \in {"init", "offered", "bound"} => \A p \in net : p.from = c => ~Asking(p)
  BY DEF PromptNet, Awaited
<1>3. ASSUME NEW phase, NEW type, NEW ip, Start(c, phase, type, ip),
             client[c].phase \in {"init", "bound"},
             \/ phase = "selecting" /\ type = "DISCOVER"
             \/ phase \in {"requesting", "renewing"} /\ type = "REQUEST"
      PROVE  PromptNet'
  <2>1. /\ net' = net \cup {Packet(type, c, ip, NewXid(c))}
        /\ \A d \in Clients \ {c} : client'[d] = client[d]
        /\ client'[c].phase = phase /\ client'[c].xid = NewXid(c)
    BY <1>0, <1>3 DEF Start, Send, ClientType
  <2>2. \A p \in net' : p.from = c /\ Asking(p) => p = Packet(type, c, ip, NewXid(c))
    BY <1>2, <1>3, <2>1
  <2>3. \A p \in net' : p.from = c /\ p.type = "INFORM" => p \in net
    BY <1>3, <2>1 DEF Packet
  <2>4. \A p \in net' : p.from = c /\ p.type = "INFORM" => Leave /\ p.xid < NewXid(c)
    BY <1>0, <2>3 DEF PromptNet, NewXid
  <2>5. \A p \in net' : p.from = c /\ Asking(p) => Awaited(c, p.type)' /\ p.xid = client'[c].xid
    BY <1>3, <2>1, <2>2 DEF Packet, Awaited
  <2>6. \A p \in net' : p.from # c => p \in net
    BY <2>1 DEF Packet
  <2>7. NewXid(c) \in Nat
    BY <1>0 DEF NewXid
  <2>8. \A p \in net' : p.from = c /\ p.type = "INFORM" =>
               /\ Leave /\ p.xid <= client'[c].xid
               /\ p.xid = client'[c].xid => client'[c].phase # "selecting"
    BY <1>0, <2>1, <2>3, <2>4, <2>7
  <2> QED BY <1>1, <2>1, <2>2, <2>5, <2>6, <2>8
<1>4. ASSUME client[c].phase \in {"offered", "bound"} \/ net' \subseteq {p \in net : p.from # c},
             NEW phase, phase # "selecting", client' = [client EXCEPT ![c].phase = phase],
             \/ net' \subseteq net
             \/ \E type, ip : /\ net' = net \cup {Packet(type, c, ip, client[c].xid)}
                              /\ type \in {"RELEASE", "DECLINE"}
                                 \/ (type = "REQUEST" /\ phase = "requesting")
      PROVE  PromptNet'
  <2>1. /\ \A d \in Clients \ {c} : client'[d] = client[d]
        /\ client'[c].phase = phase /\ client'[c].xid = client[c].xid
    BY <1>0, <1>4 DEF ClientType
  <2>2. \A p \in net' \ net : p.from = c /\ p.type # "INFORM"
    BY <1>4 DEF Packet
  <2>3. \A p \in net' : p.from = c /\ Asking(p) => p \notin net
    BY <1>2, <1>4
  <2>4. \A p \in net' \ net : Asking(p) => Awaited(c, p.type)' /\ p.xid = client'[c].xid
    BY <1>4, <2>1 DEF Packet, Asking, Awaited
  <2>5. \A p, q \in net' \ net : p = q
    BY <1>4
  <2>6. \A p \in net' : p.from = c /\ p.type = "INFORM" =>
               /\ Leave /\ p.xid <= client'[c].xid
               /\ p.xid = client'[c].xid => client'[c].phase # "selecting"
    BY <1>4, <2>1, <2>2 DEF PromptNet
  <2> QED BY <1>1, <2>1, <2>2, <2>3, <2>4, <2>5, <2>6
<1>5. CASE Discover(c) \/ Reboot(c) \/ Renew(c)
  BY <1>3, <1>5 DEF Discover, Reboot, Renew
<1>6. CASE Request(c)
  BY <1>4, <1>6 DEF Request, Send
<1>7. CASE Quit(c)
  <2>1. \/ net' \subseteq net
        \/ \E type, ip : /\ net' = net \cup {Packet(type, c, ip, client[c].xid)}
                         /\ type \in {"RELEASE", "DECLINE"}
    BY <1>7 DEF Quit, Send
  <2> QED BY <1>4, <1>7, <2>1 DEF Quit
<1>8. CASE Timeout(c)
  BY <1>4, <1>8 DEF Timeout
<1>9. CASE Inform(c)
  <2>1. /\ net' = net \cup {Packet("INFORM", c, None, client[c].xid)} /\ UNCHANGED client
        /\ client[c].phase = "bound" /\ Leave
    BY <1>9 DEF Inform, Send
  <2>2. \A p \in net' : Asking(p) => p \in net
    BY <2>1 DEF Packet, Asking
  <2>3. \A p \in net' : p.from # c => p \in net
    BY <2>1 DEF Packet
  <2>4. \A p \in net' : p.from = c /\ p.type = "INFORM" => p.xid <= client[c].xid
    BY <1>0, <2>1 DEF Packet, PromptNet
  <2> QED BY <1>1, <2>1, <2>2, <2>3, <2>4 DEF PromptNet, Awaited
<1> QED BY <1>5, <1>6, <1>7, <1>8, <1>9 DEF Try

LEMMA PromptNetInductive ==
  ASSUME TypeOK, ~delay, PromptNet, [Next]_vars
  PROVE  PromptNet'
<1>1. CASE UNCHANGED vars
  BY <1>1 DEF vars, PromptNet, Asking, Awaited
<1>2. ASSUME NEW p \in net, Serve(p) PROVE PromptNet'
  <2>0. client \in [Clients -> ClientType(MaxTries[delay])] /\ \A q \in net : q.from \in Clients
    BY DEF TypeOK, ClientType, Phases, Packets
  <2>1. net' = net \ {p}
    BY <1>2 DEF Serve, Took
  <2>2. ASSUME \A q \in net' : Asking(q) \/ q.type = "INFORM" => client'[q.from] = client[q.from]
        PROVE  PromptNet'
    BY <2>1, <2>2 DEF PromptNet, Asking, Awaited
  <2>3. \A phases, phase, ip : Answer(p, phases, phase, ip) =>
          /\ \A d \in Clients \ {p.from} : client'[d] = client[d]
          /\ client'[p.from].xid = client[p.from].xid
          /\ \/ client'[p.from] = client[p.from]
             \/ client'[p.from].phase = phase /\ client[p.from].xid = p.xid
                /\ client[p.from].phase \in phases
    BY <2>0 DEF Answer, ClientType
  <2>4. ASSUME Asking(p), NEW phases, NEW phase \in {"offered", "bound", "init"}, NEW ip,
               Answer(p, phases, phase, ip)
        PROVE  PromptNet'
    <3>1. \A q \in net' : Asking(q) => q.from # p.from
      BY <2>1, <2>4 DEF PromptNet
    <3>2. \A q \in net' : q.from # p.from => q \in net /\ client'[q.from] = client[q.from]
      BY <2>0, <2>1, <2>3, <2>4
    <3>3. \A q \in net' : q.type = "INFORM" =>
            /\ client'[q.from].xid = client[q.from].xid
            /\ client'[q.from] = client[q.from] \/ client'[q.from].phase # "selecting"
      BY <2>0, <2>1, <2>3, <2>4, <3>2
    <3>4. \A q \in net' : q.type = "INFORM" =>
            /\ Leave /\ q.xid <= client'[q.from].xid
            /\ q.xid = client'[q.from].xid => client'[q.from].phase # "selecting"
      BY <2>1, <3>3 DEF PromptNet
    <3>5. \A q \in net' : Asking(q) => Awaited(q.from, q.type)' /\ q.xid = client'[q.from].xid
      BY <3>1, <3>2 DEF PromptNet, Awaited
    <3> QED BY <2>1, <3>4, <3>5 DEF PromptNet, Asking, Awaited
  <2>5. CASE ServeDiscover(p)
    BY <2>4, <2>5 DEF ServeDiscover, SendOffer, Asking
  <2>6. CASE ServeRequest(p)
    BY <2>4, <2>6 DEF ServeRequest, SendAck, SendNak, Asking
  <2>7. CASE ServeEnd(p)
    BY <2>2, <2>7 DEF ServeEnd
  <2>8. CASE ServeOther(p)
    <3>1. p.type = "INFORM" /\ (UNCHANGED client
                                 \/ Answer(p, {"selecting"}, "offered", Offered(p.from)))
      BY <2>8 DEF ServeOther, SendOffer
    <3>2. \A d \in Clients : client'[d] = client[d]
      BY <2>3, <3>1 DEF PromptNet
    <3> QED BY <2>0, <2>1, <2>2, <3>2
  <2> QED BY <1>2, <2>5, <2>6, <2>7, <2>8 DEF Serve
<1> QED BY <1>1, <1>2, ClientPromptNet DEF Next, Lose

LEMMA RecordedInductive ==
  ASSUME TypeOK, Latched, PromptNet, ~reoffered', Recorded, [Next]_vars
  PROVE  Recorded'
<1>1. ASSUME NEW p \in net, OfferStep(p) PROVE Recorded'
  <2>1. /\ p.type = "DISCOVER" /\ p.from \in Clients
        /\ state' = "OFFER" /\ allocated' = Offered(p.from) /\ UNCHANGED table /\ NoNewLease
    BY <1>1 DEF OfferStep, TypeOK, Packets
  <2>2. ~Holds(p.from)
    BY <2>1 DEF PromptNet, Asking, Awaited, Holds
  <2>3. ASSUME NEW c \in Clients, Holds(c)
        PROVE  client[c].ip # Offered(p.from)
    <3>1. client[c].ip \in marked /\ mac[client[c].ip] = c /\ client[c].ip # 0
      BY <2>3, AddrsAre DEF Latched, Recorded, TypeOK
    <3> QED BY <2>1, <2>2, <2>3, <3>1, OfferedIs
  <2> QED BY <2>1, <2>3 DEF Recorded, NoNewLease, table
<1>2. ASSUME NEW p \in net, NEW ip \in Addrs, AckStep(p, ip) PROVE Recorded'
  <2>1. state' = "IDLE" /\ mac' = [mac EXCEPT ![ip] = p.from]
    BY <1>2 DEF AckStep, SendAck
  <2>2. ASSUME NEW c \in Clients, Holds(c), client[c].ip = ip
        PROVE  c = p.from
    BY <1>2, <2>2 DEF AckStep, Recorded
  <2>3. ASSUME NEW c \in Clients, Holds(c)'
        PROVE  mac'[client'[c].ip] = c
    <3>1. CASE c = p.from /\ client'[c].ip = ip
      BY <2>1, <3>1 DEF TypeOK
    <3>2. CASE Holds(c) /\ client'[c].ip = client[c].ip
      <4>1. mac[client[c].ip] = c /\ client[c].ip \in Addrs
        BY <3>2 DEF Recorded, Latched, TypeOK
      <4> QED BY <2>1, <2>2, <3>2, <4>1 DEF TypeOK
    <3> QED BY <1>2, <2>3, <3>1, <3>2 DEF AckStep
  <2> QED BY <2>1, <2>3 DEF Recorded, Holds
<1>3. CASE (state' = "IDLE" \/ UNCHANGED <<state, allocated>>) /\ UNCHANGED table /\ NoNewLease
  BY <1>3 DEF Recorded, table, NoNewLease
<1> QED BY <1>1, <1>2, <1>3, StepIs

PromptInv == ~delay => PromptNet /\ (~reoffered => Recorded)

LEMMA PromptInvHolds ==
  ASSUME MarkedPool
  PROVE  Spec => []PromptInv
<1>1. Init => PromptInv
  BY DEF Init, PromptInv, PromptNet, Recorded, Holds
<1>2. TypeOK /\ Latched /\ PromptInv /\ [Next]_vars => PromptInv'
  <2>1. TypeOK /\ [Next]_vars => UNCHANGED delay /\ (reoffered => reoffered')
    BY DEF TypeOK, Next, vars, server, Serve, Lose, Try, Discover, Request, Reboot, Renew, Quit,
           Inform, Timeout, Start
  <2> QED BY <2>1, PromptNetInductive, RecordedInductive DEF PromptInv
<1> QED BY <1>1, <1>2, DhcpTypeCorrect, LeasesLatched, PTL DEF Spec

\* Over a prompt network two clients never hold the same address, until an
\* INFORM is answered with an offer (dhcps_handle_state_machine_change).
THEOREM LeasesUnique ==
  ASSUME MarkedPool
  PROVE  Spec => []Unique
<1>1. PromptInv => Unique
  BY DEF PromptInv, Recorded, Unique
<1> QED BY <1>1, PromptInvHolds, PTL

\* ... and the address on offer is in nobody's lease (dhcps_send_offer).
THEOREM OffersFree ==
  ASSUME MarkedPool
  PROVE  Spec => []OfferIsFree
<1>1. PromptInv => OfferIsFree
  BY DEF PromptInv, Recorded, OfferIsFree
<1> QED BY <1>1, PromptInvHolds, PTL
=============================================================================
