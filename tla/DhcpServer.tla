----------------------------- MODULE DhcpServer -----------------------------
(***************************************************************************)
(* The DHCP server of the access point: common/network/dhcp/dhcps.c, built *)
(* with CONFIG_DHCPS_KEPT_CLIENT_INFO and without IS_USE_FIXED_IP.         *)
(*                                                                         *)
(* The server keeps one state machine and one pending address for all its  *)
(* clients, a bitmap of the addresses it gave away and the client of each. *)
(* A packet is handled in one go, in the thread of the TCP/IP stack.  An   *)
(* address is the last byte of an IP address; 0 is "no address".           *)
(*                                                                         *)
(* The clients and the network are external.  A client tries again under a *)
(* new transaction number and takes only the answers to its latest one.    *)
(***************************************************************************)
EXTENDS Naturals, FiniteSets, FiniteSetsExt

CONSTANTS
  Clients,    \* the clients' hardware addresses
  WordBits,   \* bits of a word of ip_range
  Own,        \* the server's address and its gateway's
  Kept,       \* DHCP_POOL_START .. DHCP_POOL_END
  Pool,       \* dhcps_addr_pool_start .. dhcps_addr_pool_end
  Networks,   \* may the network lose, duplicate and delay packets?
  Leave,      \* clients give up, renew, leave the network and come back
  MaxTries,   \* bound: the transactions of each client, of either network
  MaxNet,     \* bound: the packets on their way to the server
  None

(* ip_range has eight words; address d is bit d - 1 of the whole. *)
NumWords == 8
Addrs == 1 .. NumWords * WordBits

ASSUME DhcpAssumption ==
  /\ WordBits \in Nat \ {0, 1}
  /\ Own \subseteq Addrs /\ Kept \subseteq Addrs
  /\ Pool \subseteq Addrs \ {NumWords * WordBits}   \* the pool ends in a byte
  /\ Networks \subseteq BOOLEAN
  /\ Leave \in BOOLEAN
  /\ MaxTries \in [BOOLEAN -> Nat]
  /\ MaxNet \in [BOOLEAN -> Nat \ {0}]
  /\ None \notin Clients

VARIABLES
  state,      \* dhcp_server_state_machine
  allocated,  \* dhcps_allocated_client_address
  requested,  \* client_request_ip
  marked,     \* ip_table.ip_range
  mac,        \* ip_table.client_mac
  reoffered,  \* history: an INFORM was answered with an offer
  delay,      \* the network, one of Networks for good
  net,        \* packets on their way to the server
  client      \* each client: phase, address, transaction number

table == <<marked, mac>>
server == <<state, allocated, requested, table, reoffered>>
vars == <<server, delay, net, client>>

Types == {"DISCOVER", "REQUEST", "RELEASE", "DECLINE", "INFORM"}
Packets == [type : Types, from : Clients, ip : Addrs \cup {0, None}, xid : 0 .. MaxTries[delay]]

(***************************************************************************)
(* The address table.  mark_ip_in_table forgets to subtract 128 in its     *)
(* fifth branch: the shift is by the word size or more, which leaves the   *)
(* word as it was.  check_client_request_ip shifts by -1 for the last      *)
(* address of a word, and sees no bit.                                     *)
(***************************************************************************)
Word(d) == (d - 1) \div WordBits

(* Mutant: a bit too far. *)
MarkNext(set, d) == IF d = 0 \/ Word(d) = 4 THEN set ELSE set \cup {d + 1}

(* Mutant: the bit is assigned, not added to the others. *)
MarkOnly(set, d) == IF d = 0 \/ Word(d) = 4 THEN set ELSE {d}

Mark(set, d) == IF d = 0 \/ Word(d) = 4 THEN set ELSE set \cup {d}

(* Mutant: the hardware address is not compared. *)
KeptByAny(c) == {i \in Kept : mac[i] # None /\ i \in marked /\ i % WordBits # 0}

KeptBy(c) == {i \in Kept : mac[i] = c /\ i \in marked /\ i % WordBits # 0}

CheckClient(c) == IF KeptBy(c) = {} THEN 0 ELSE Min(KeptBy(c))

(* Mutant: the bitmap is not consulted. *)
SearchFirst == Min({d \in Pool : mac[d] = None})

SearchNext == IF Pool \ marked = {} THEN 0 ELSE Min(Pool \ marked)

(* dhcps_init marks the server's own address and the gateway. *)
Init ==
  /\ state = "IDLE"
  /\ allocated = 0
  /\ requested = 0
  /\ marked = {d \in Own : Word(d) # 4}
  /\ mac = [d \in Addrs |-> None]
  /\ reoffered = FALSE
  /\ delay \in Networks
  /\ net = {}
  /\ client = [c \in Clients |-> [phase |-> "init", ip |-> 0, xid |-> 0]]

-----------------------------------------------------------------------------
(***************************************************************************)
(* The clients (external).  Waiting phases end with an answer to xid, or   *)
(* with a timeout.                                                         *)
(***************************************************************************)
Packet(type, c, ip, xid) == [type |-> type, from |-> c, ip |-> ip, xid |-> xid]

Send(type, c, ip, xid) ==
  /\ Cardinality(net) < MaxNet[delay]
  /\ net' = net \cup {Packet(type, c, ip, xid)}

(* A new transaction of client c, in a new phase.  Its number matters, and  *)
(* is counted, where a client may give up on an earlier one.               *)
NewXid(c) == IF Leave THEN client[c].xid + 1 ELSE 1

Start(c, phase, type, ip) ==
  /\ NewXid(c) <= MaxTries[delay]
  /\ client' = [client EXCEPT ![c].phase = phase, ![c].xid = NewXid(c)]
  /\ Send(type, c, ip, NewXid(c))
  /\ UNCHANGED server

(* The option "requested address" may name the address of the last lease.  *)
Discover(c) ==
  /\ client[c].phase = "init"
  /\ \E ip \in {None, client[c].ip} \ {0} : Start(c, "selecting", "DISCOVER", ip)

Reboot(c) ==
  /\ client[c].phase = "init" /\ client[c].ip # 0
  /\ Start(c, "requesting", "REQUEST", client[c].ip)

Renew(c) ==
  /\ Leave
  /\ client[c].phase = "bound"
  /\ Start(c, "renewing", "REQUEST", None)

(* The answer to an offer goes on with the offer's transaction. *)
Request(c) ==
  /\ client[c].phase = "offered"
  /\ client' = [client EXCEPT ![c].phase = "requesting"]
  /\ Send("REQUEST", c, client[c].ip, client[c].xid)
  /\ UNCHANGED server

(* Leaving silently, with a RELEASE, or because the address is in use. *)
Quit(c) ==
  /\ Leave
  /\ client[c].phase = "bound"
  /\ client' = [client EXCEPT ![c].phase = "init"]
  /\ \/ UNCHANGED net
     \/ Send("RELEASE", c, None, client[c].xid)
     \/ Send("DECLINE", c, client[c].ip, client[c].xid)
  /\ UNCHANGED server

Inform(c) ==
  /\ Leave
  /\ client[c].phase = "bound"
  /\ Send("INFORM", c, None, client[c].xid)
  /\ UNCHANGED <<server, client>>

(* Packets and answers get lost; the client gives up and starts again.     *)
Timeout(c) ==
  /\ Leave
  /\ client[c].phase \in {"selecting", "requesting"}
  /\ client' = [client EXCEPT ![c].phase = "init"]
  /\ net' = IF delay THEN net ELSE {p \in net : p.from # c}
  /\ UNCHANGED server

Lose(p) ==
  /\ delay
  /\ net' = net \ {p}
  /\ UNCHANGED <<server, client>>

-----------------------------------------------------------------------------
(***************************************************************************)
(* dhcps_receive_udp_packet_handler.  The requested address is the one of  *)
(* the last packet that named one, of whatever client.                     *)
(***************************************************************************)
(* Mutant: the absent option is copied too. *)
NamedRaw(p) == p.ip

Named(p) == IF p.ip = None THEN requested ELSE p.ip

(* An answer that the client takes, or does not. *)
Answer(p, phases, phase, ip) ==
  client' = IF client[p.from].xid = p.xid /\ client[p.from].phase \in phases
            THEN [client EXCEPT ![p.from].phase = phase, ![p.from].ip = ip]
            ELSE client

Took(p) == net' = IF delay THEN net ELSE net \ {p}

Offered(c) == IF CheckClient(c) = 0 THEN SearchNext ELSE CheckClient(c)

SendOffer(p) ==
  /\ state' = "OFFER"
  /\ allocated' = Offered(p.from)
  /\ requested' = Named(p)
  /\ Answer(p, {"selecting"}, "offered", Offered(p.from))
  /\ UNCHANGED table

(* The acknowledged address is marked and recorded, the exchange forgotten. *)
SendAck(p, ip) ==
  /\ state' = "IDLE"
  /\ allocated' = 0
  /\ requested' = 0
  /\ marked' = Mark(marked, ip)
  /\ mac' = [mac EXCEPT ![ip] = p.from]
  /\ Answer(p, {"requesting", "renewing"}, "bound", ip)

(* Mutant: the state is not reset after a refusal. *)
SendNakStuck(p) ==
  /\ state' = "NAK"
  /\ requested' = Named(p)
  /\ Answer(p, {"requesting", "renewing"}, "init", 0)
  /\ UNCHANGED <<allocated, table>>

SendNak(p) ==
  /\ state' = "IDLE"
  /\ requested' = Named(p)
  /\ Answer(p, {"requesting", "renewing"}, "init", 0)
  /\ UNCHANGED <<allocated, table>>

(* Whatever arrives, the transitions of dhcps_handle_state_machine_change.  *)
ServeDiscover(p) == p.type = "DISCOVER" /\ state \in {"IDLE", "OFFER"} /\ SendOffer(p)

Acceptable(p) ==
  \/ state = "OFFER" /\ allocated # 0 /\ allocated = Named(p)
  \/ state = "IDLE" /\ CheckClient(p.from) # 0

ServeRequest(p) ==
  /\ p.type = "REQUEST"
  /\ \/ /\ Acceptable(p)
        /\ SendAck(p, IF state = "OFFER" THEN allocated ELSE CheckClient(p.from))
     \/ ~Acceptable(p) /\ SendNak(p)

ServeEnd(p) ==
  /\ p.type \in {"RELEASE", "DECLINE"}
  /\ state' = "IDLE"
  /\ requested' = Named(p)
  /\ UNCHANGED <<allocated, table, client>>

(* Another message leaves the state alone, and is answered as it says. *)
ServeOther(p) ==
  /\ p.type = "INFORM"
  /\ \/ state = "OFFER" /\ SendOffer(p)
     \/ state = "IDLE" /\ UNCHANGED <<state, allocated, requested, table, client>>

Serve(p) ==
  /\ Took(p)
  /\ ServeDiscover(p) \/ ServeRequest(p) \/ ServeEnd(p) \/ ServeOther(p)
  /\ reoffered' = (reoffered \/ (p.type = "INFORM" /\ state = "OFFER"))

-----------------------------------------------------------------------------
Try(c) == Discover(c) \/ Request(c)

Next ==
  /\ \/ \E c \in Clients :
          Try(c) \/ Reboot(c) \/ Renew(c) \/ Quit(c) \/ Inform(c) \/ Timeout(c)
     \/ \E p \in net : Serve(p) \/ Lose(p)
  /\ UNCHANGED delay

Spec == Init /\ [][Next]_vars

(* The stack hands every packet over, and clients go on trying. *)
FairSpec ==
  /\ Spec
  /\ \A c \in Clients :
       /\ WF_vars(Try(c) /\ UNCHANGED delay)
       /\ WF_vars(\E p \in net : p.from = c /\ Serve(p) /\ UNCHANGED delay)

-----------------------------------------------------------------------------
Holds(c) == client[c].phase \in {"bound", "renewing"}

(* Every variable stays in its domain. *)
TypeOK ==
  /\ state \in {"IDLE", "OFFER"}
  /\ allocated \in Addrs \cup {0}
  /\ requested \in Addrs \cup {0}
  /\ reoffered \in BOOLEAN /\ delay \in Networks
  /\ marked \subseteq Addrs
  /\ mac \in [Addrs -> Clients \cup {None}]
  /\ net \subseteq Packets
  /\ client \in [Clients -> [phase : {"init", "selecting", "offered", "requesting",
                                      "bound", "renewing"},
                             ip : Addrs \cup {0}, xid : 0 .. MaxTries[delay]]]

(* Two clients never hold the same address, over a network that delivers   *)
(* each packet once and in time, as long as no client sent an INFORM while *)
(* an offer was pending: the answer puts the sender's own address on offer, *)
(* to whoever asks for it next (dhcps_handle_state_machine_change).        *)
Unique ==
  ~delay /\ ~reoffered => \A c, d \in Clients : c # d /\ Holds(c) /\ Holds(d) =>
                client[c].ip # client[d].ip

(* The address of a lease is latched: it is marked in the table, so the    *)
(* search for a new address passes over it.                                *)
Latched == \A c \in Clients : Holds(c) => client[c].ip \in marked

(* The address on offer is in nobody's lease, under the same conditions: a  *)
(* client that the table has on record for it has given it up.             *)
OfferIsFree ==
  ~delay /\ ~reoffered /\ state = "OFFER" =>
    \A c \in Clients : Holds(c) => client[c].ip # allocated

(* The server's own address and the gateway are never given away. *)
OwnIsSpared == \A c \in Clients : Holds(c) => client[c].ip \notin Own

(* A client that keeps trying gets an address, whoever else is trying. *)
Served == \A c \in Clients : <>Holds(c)
=============================================================================
