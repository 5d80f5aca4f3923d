------------------------------ MODULE Traversal ------------------------------
(***************************************************************************)
(* The traversal protocol that lets two NetPlay instances behind NAT reach *)
(* each other: the clients (Common/TraversalClient.cpp), the central       *)
(* server (Common/TraversalServer.cpp) and the UDP network between them,   *)
(* which reorders, loses and duplicates.  A client says hello and is given *)
(* a host id; to join host id h a client asks the server, which asks the   *)
(* client behind h to send the joiner a packet and relays its answer.      *)
(* Every packet but an acknowledgement is resent until it is acknowledged  *)
(* or tried NUMBER_OF_TRIES times.                                         *)
(*                                                                         *)
(* Request ids are random 64 bit numbers, here numbers never drawn before; *)
(* they also serve as the clock of the history variables.  Times are left  *)
(* out: a resend may come at any time, also before an answer that is late. *)
(* A client stands for its address; all run the same protocol version.     *)
(***************************************************************************)
EXTENDS Naturals

CONSTANTS
  Clients,          \* the TraversalClients, by address
  Joiners,          \* those of a NetPlayClient; a NetPlayServer, a host, never asks to connect
  IPV6,             \* those of them that may have an IPv6 address
  HostIds,          \* the 32 bit random numbers of GetRandomHostId
  Codes,            \* those of them that players pass around
  FirstIds,         \* the host ids of the clients that have connected before
  NUMBER_OF_TRIES,
  MaxEvents,        \* bound on the sum of the packets the clients start by themselves and
                    \* of the steps that lose, delay, duplicate, fail to send, forget or restart
  None

ASSUME ClientsAssumption == IPV6 \subseteq Clients /\ Joiners \subseteq Clients /\ None \notin Clients
ASSUME HostIdsAssumption == None \notin HostIds /\ Codes \subseteq HostIds /\ FirstIds \in [Clients -> HostIds]
ASSUME TriesAssumption == NUMBER_OF_TRIES \in Nat \ {0}
ASSUME BoundsAssumption == MaxEvents \in Nat

VARIABLES
  m_State, m_HostId, m_PendingConnect, m_ConnectRequestId,
  m_OutgoingTraversalPackets,
  isIPV6,                                     \* the clients that have one
  outgoingPackets, connectedClients, stuck,   \* the server
  toServer, toClient,                         \* the network
  nextId, packets, faults,
  asked, told, given, punched, crashed        \* history, see below

client  == <<m_State, m_HostId, m_PendingConnect, m_ConnectRequestId, m_OutgoingTraversalPackets>>
server  == <<outgoingPackets, connectedClients, stuck>>
history == <<asked, told, given, punched, crashed>>
vars == <<client, server, isIPV6, toServer, toClient, nextId, packets, faults, history>>

\* Every packet has the same fields: arg is the host id, the address or the reason
\* it carries, req the request it answers.  The ok byte of an ack is in its type.
Packet(type, id, arg, req) == [type |-> type, id |-> id, arg |-> arg, req |-> req]

Reasons == {"ClientDidntRespond", "ClientFailure", "NoSuchClient"}
PacketTypes == {"Ack", "Nack", "Ping", "HelloFromClient", "HelloFromServer", "ConnectPlease",
                "PleaseSendPacket", "ConnectReady", "ConnectFailed"}
Args == HostIds \union Clients \union Reasons \union {None}
Packets == [type : PacketTypes, id : Nat, arg : Args, req : Nat]
OutgoingTraversalPacketInfo == [packet : Packets, tries : Nat]
OutgoingPacketInfo == [packet : Packets, misc : Nat, dest : Clients, tries : Nat]
UpMessages == [from : Clients, packet : Packets]
DownMessages == [to : Clients, packet : Packets]
Answers == [times : Nat, type : {"", "ConnectReady", "ConnectFailed"}, arg : Args, req : Nat]

\* A packet of a host to a joiner; sent tells whether enet_socket_send accepted it.
Punches == [from : Clients, to : Clients, after : Nat, sent : BOOLEAN]
States == {"Connecting", "Connected", "Failure"}

TypeOK ==
  /\ m_State \in [Clients -> States]
  /\ m_HostId \in [Clients -> HostIds \union {None}]
  /\ m_PendingConnect \in [Clients -> BOOLEAN]
  /\ m_ConnectRequestId \in [Clients -> Nat]
  /\ m_OutgoingTraversalPackets \in [Clients -> SUBSET OutgoingTraversalPacketInfo]
  /\ outgoingPackets \subseteq OutgoingPacketInfo
  /\ connectedClients \in [HostIds -> Clients \union {None}]
  /\ stuck \in BOOLEAN /\ isIPV6 \subseteq IPV6
  /\ toServer \subseteq UpMessages /\ toClient \subseteq DownMessages
  /\ nextId \in Nat \ {0} /\ packets \in Nat /\ faults \in Nat
  /\ asked \in [Clients -> HostIds \union {None}]
  /\ told \in [Clients -> Answers]
  /\ given \subseteq HostIds \X Clients
  /\ punched \subseteq Punches
  /\ crashed \in BOOLEAN

\* A step of the network or of the system that goes wrong is counted.
Faulty(wrong) ==
  /\ wrong => packets + faults < MaxEvents
  /\ faults' = IF wrong THEN faults + 1 ELSE faults

\* A resend that overtakes the packet, or its ack, on the way: the network was slow.
Late(packet) ==
  \/ \E m \in toServer : m.packet.id = packet.id
  \/ \E m \in toClient : m.packet.id = packet.id

\* Mutant: one try fewer.
TriesLeftOffByOne(info) == info.tries + 1 < NUMBER_OF_TRIES

\* Both sides try as often.
TriesLeft(info) == info.tries < NUMBER_OF_TRIES

-----------------------------------------------------------------------------
(* The client.  A send arrives in the network, is lost there, or fails at  *)
(* once (enet_socket_send returns -1).                                     *)

Outcomes == {"sent", "lost", "error"}

Up(c, packet, outcome) ==
  IF outcome = "sent" THEN {[from |-> c, packet |-> packet]} ELSE {}

\* OnFailure(SocketSendError)
StateAfter(state, outcome) == IF outcome = "error" THEN "Failure" ELSE state

\* SendTraversalPacket: a new request id, the first try, and the list to resend from.
SendTraversalPacket(c, type, arg, outcome) ==
  LET packet == Packet(type, nextId, arg, 0)
  IN /\ packets + faults < MaxEvents /\ packets' = packets + 1
     /\ Faulty(outcome # "sent")
     /\ nextId' = nextId + 1
     /\ m_OutgoingTraversalPackets' =
          [m_OutgoingTraversalPackets EXCEPT ![c] = @ \union {[packet |-> packet, tries |-> 1]}]
     /\ toServer' = toServer \union Up(c, packet, outcome)
     /\ UNCHANGED <<isIPV6, server, toClient, given, punched, crashed>>

\* The constructor, and a retry after a failure: its callers test for Failure.
ReconnectToServer(c, outcome) ==
  /\ m_State[c] = "Failure"
  /\ m_State' = [m_State EXCEPT ![c] = StateAfter("Connecting", outcome)]
  /\ SendTraversalPacket(c, "HelloFromClient", None, outcome)
  /\ UNCHANGED <<m_HostId, m_PendingConnect, m_ConnectRequestId, asked, told>>

\* A NetPlayClient asks once, when its traversal client is connected.
ConnectToClient(c, host, outcome) ==
  /\ c \in Joiners /\ asked[c] = None /\ m_State[c] = "Connected"
  /\ m_State' = [m_State EXCEPT ![c] = StateAfter(@, outcome)]
  /\ m_ConnectRequestId' = [m_ConnectRequestId EXCEPT ![c] = nextId]
  /\ m_PendingConnect' = [m_PendingConnect EXCEPT ![c] = TRUE]
  /\ SendTraversalPacket(c, "ConnectPlease", host, outcome)
  /\ asked' = [asked EXCEPT ![c] = host]
  /\ told' = [told EXCEPT ![c] = [@ EXCEPT !.times = 0]]
  /\ UNCHANGED m_HostId

HandlePing(c, outcome) ==
  /\ m_State[c] = "Connected"
  /\ m_State' = [m_State EXCEPT ![c] = StateAfter(@, outcome)]
  /\ SendTraversalPacket(c, "Ping", m_HostId[c], outcome)
  /\ UNCHANGED <<m_HostId, m_PendingConnect, m_ConnectRequestId, asked, told>>

\* HandleResends for one packet that is due, with tries left (ResendPacket) ...
ResendPacket(c, info, outcome) ==
  /\ info \in m_OutgoingTraversalPackets[c] /\ TriesLeft(info)
  /\ m_OutgoingTraversalPackets' =
       [m_OutgoingTraversalPackets EXCEPT
         ![c] = (@ \ {info}) \union {[info EXCEPT !.tries = @ + 1]}]
  /\ m_State' = [m_State EXCEPT ![c] = StateAfter(@, outcome)]
  /\ toServer' = toServer \union Up(c, info.packet, outcome)
  /\ Faulty(Late(info.packet) \/ outcome # "sent")
  /\ UNCHANGED <<m_HostId, m_PendingConnect, m_ConnectRequestId, isIPV6, server, toClient,
                 nextId, packets, history>>

\* ... and without: the client gives up on the server and on every packet.
ResendTimeout(c, info) ==
  /\ info \in m_OutgoingTraversalPackets[c] /\ ~TriesLeft(info)
  /\ m_State' = [m_State EXCEPT ![c] = "Failure"]
  /\ m_OutgoingTraversalPackets' = [m_OutgoingTraversalPackets EXCEPT ![c] = {}]
  /\ Faulty(Late(info.packet))
  /\ UNCHANGED <<m_HostId, m_PendingConnect, m_ConnectRequestId, isIPV6, server, toServer,
                 toClient, nextId, packets, history>>

-----------------------------------------------------------------------------
(* HandleServerPacket.  A packet that is duplicated on its way stays.      *)

Receive(c, m, duplicate) ==
  /\ m \in toClient /\ m.to = c
  /\ toClient' = IF duplicate THEN toClient ELSE toClient \ {m}
  /\ UNCHANGED <<isIPV6, server, nextId, packets, asked, given, crashed>>

OnAck(c, m, duplicate) ==
  /\ m.packet.type = "Ack" /\ Receive(c, m, duplicate) /\ Faulty(duplicate)
  /\ m_OutgoingTraversalPackets' =
       [m_OutgoingTraversalPackets EXCEPT ![c] = {i \in @ : i.packet.id # m.packet.id}]
  /\ UNCHANGED <<m_State, m_HostId, m_PendingConnect, m_ConnectRequestId, toServer, told, punched>>

\* ServerForgotAboutUs; the packet that was refused stays in the list.
OnNack(c, m, duplicate) ==
  /\ m.packet.type = "Nack" /\ Receive(c, m, duplicate) /\ Faulty(duplicate)
  /\ m_State' = [m_State EXCEPT ![c] = "Failure"]
  /\ UNCHANGED <<m_HostId, m_PendingConnect, m_ConnectRequestId, m_OutgoingTraversalPackets,
                 toServer, told, punched>>

\* Every other packet is acknowledged, whatever became of it.
Acknowledge(c, m, type, outcome) ==
  /\ toServer' = toServer \union Up(c, Packet(type, m.packet.id, None, 0), outcome)
  /\ UNCHANGED m_OutgoingTraversalPackets

OnHelloFromServer(c, m, duplicate, outcome) ==
  /\ m.packet.type = "HelloFromServer"
  /\ Receive(c, m, duplicate) /\ Faulty(duplicate \/ outcome # "sent")
  /\ Acknowledge(c, m, "Ack", outcome)
  /\ IF m_State[c] = "Connecting"
     THEN /\ m_HostId' = [m_HostId EXCEPT ![c] = m.packet.arg]
          /\ m_State' = [m_State EXCEPT ![c] = StateAfter("Connected", outcome)]
     ELSE /\ m_State' = [m_State EXCEPT ![c] = StateAfter(@, outcome)]
          /\ UNCHANGED m_HostId
  /\ UNCHANGED <<m_PendingConnect, m_ConnectRequestId, told, punched>>

\* The ok byte: there is no sending to an IPv6 address yet.
SendOk(address) == IF address \in isIPV6 THEN "Nack" ELSE "Ack"

\* The host opens its NAT for the joiner, if it can send to it.  Whether that send
\* succeeds is not asked: the ack says ok all the same.
OnPleaseSendPacket(c, m, duplicate, sends, outcome) ==
  /\ m.packet.type = "PleaseSendPacket"
  /\ Receive(c, m, duplicate) /\ Faulty(duplicate \/ ~sends \/ outcome # "sent")
  /\ Acknowledge(c, m, SendOk(m.packet.arg), outcome)
  /\ IF m.packet.arg \in isIPV6
     THEN sends /\ UNCHANGED punched
     ELSE punched' = punched \union
                       {[from |-> c, to |-> m.packet.arg, after |-> nextId, sent |-> sends]}
  /\ m_State' = [m_State EXCEPT ![c] = StateAfter(@, outcome)]
  /\ UNCHANGED <<m_HostId, m_PendingConnect, m_ConnectRequestId, told>>

\* Mutant: does not ask whether the request is still pending.
AwaitedById(c, packet) == packet.req = m_ConnectRequestId[c]

Awaited(c, packet) == m_PendingConnect[c] /\ packet.req = m_ConnectRequestId[c]

\* OnConnectReady or OnConnectFailed, if the answer is to the latest request.
OnConnectAnswer(c, m, duplicate, outcome) ==
  /\ m.packet.type \in {"ConnectReady", "ConnectFailed"}
  /\ Receive(c, m, duplicate) /\ Faulty(duplicate \/ outcome # "sent")
  /\ Acknowledge(c, m, "Ack", outcome)
  /\ IF Awaited(c, m.packet)
     THEN /\ m_PendingConnect' = [m_PendingConnect EXCEPT ![c] = FALSE]
          /\ told' = [told EXCEPT ![c] = [times |-> @.times + 1, type |-> m.packet.type,
                                          arg |-> m.packet.arg, req |-> m.packet.req]]
     ELSE UNCHANGED <<m_PendingConnect, told>>
  /\ m_State' = [m_State EXCEPT ![c] = StateAfter(@, outcome)]
  /\ UNCHANGED <<m_HostId, m_ConnectRequestId, punched>>

-----------------------------------------------------------------------------
(* The server: HandlePacket.  What it allocates, AllocPacket, is sent for  *)
(* the first time by the ResendPackets that ends the same turn.            *)

HandlePacket(m, duplicate) ==
  /\ ~stuck /\ m \in toServer
  /\ toServer' = IF duplicate THEN toServer ELSE toServer \ {m}
  /\ UNCHANGED <<client, isIPV6, packets, asked, told, punched, crashed>>

AllocPacket(type, arg, req, misc, dest) ==
  [packet |-> Packet(type, nextId, arg, req), misc |-> misc, dest |-> dest, tries |-> 1]

\* The sends of a turn; any of them may be lost.
Send(sent, wrong) ==
  \E arrived \in SUBSET sent :
    /\ toClient' = toClient \union arrived
    /\ Faulty(wrong \/ arrived # sent)

Down(info) == [to |-> info.dest, packet |-> info.packet]
AckOf(m, type) == [to |-> m.from, packet |-> Packet(type, m.packet.id, None, 0)]

Ready(info) == AllocPacket("ConnectReady", info.dest, info.misc, 0, info.packet.arg)
Failed(info) == AllocPacket("ConnectFailed", "ClientFailure", info.misc, 0, info.packet.arg)

\* Mutant: takes every ack for a success.
RelayUnchecked(m, info) == Ready(info)

Relay(m, info) == IF m.packet.type = "Ack" THEN Ready(info) ELSE Failed(info)

\* An ack to PleaseSendPacket is relayed to the joiner; whoever sent it.
AckPlease(m, info, duplicate) ==
  /\ m.packet.type \in {"Ack", "Nack"} /\ HandlePacket(m, duplicate)
  /\ info \in outgoingPackets /\ info.packet.id = m.packet.id
  /\ info.packet.type = "PleaseSendPacket"
  /\ outgoingPackets' = (outgoingPackets \ {info}) \union {Relay(m, info)}
  /\ nextId' = nextId + 1
  /\ Send({Down(Relay(m, info))}, duplicate)
  /\ UNCHANGED <<connectedClients, stuck, given>>

AckOther(m, duplicate) ==
  LET acked == {i \in outgoingPackets : i.packet.id = m.packet.id}
  IN /\ m.packet.type \in {"Ack", "Nack"} /\ HandlePacket(m, duplicate)
     /\ \A i \in acked : i.packet.type # "PleaseSendPacket"
     /\ outgoingPackets' = outgoingPackets \ acked
     /\ Faulty(duplicate)
     /\ UNCHANGED <<connectedClients, stuck, given, toClient, nextId>>

Ping(m, duplicate) ==
  /\ m.packet.type = "Ping" /\ HandlePacket(m, duplicate)
  /\ Send({AckOf(m, IF connectedClients[m.packet.arg] = None THEN "Nack" ELSE "Ack")}, duplicate)
  /\ UNCHANGED <<server, given, nextId>>

\* The host id is drawn once, outside the loop that looks for a free one.
Hello(m, host, duplicate) ==
  LET reply == AllocPacket("HelloFromServer", host, 0, 0, m.from)
  IN /\ m.packet.type = "HelloFromClient" /\ HandlePacket(m, duplicate)
     /\ nextId' = nextId + 1
     /\ outgoingPackets' = outgoingPackets \union {reply}
     /\ IF connectedClients[host] = None
        THEN /\ connectedClients' = [connectedClients EXCEPT ![host] = m.from]
             /\ given' = given \union {<<host, m.from>>}
             /\ Send({AckOf(m, "Ack"), Down(reply)}, duplicate)
             /\ UNCHANGED stuck
        ELSE /\ stuck' = TRUE
             /\ Faulty(TRUE)
             /\ UNCHANGED <<connectedClients, given, toClient>>

NoSuchClient(m) == AllocPacket("ConnectFailed", "NoSuchClient", m.packet.id, 0, m.from)

\* Mutant: the request id is not kept with the packet to the host.
PleaseWithoutMisc(m, host) == AllocPacket("PleaseSendPacket", m.from, 0, 0, host)

Please(m, host) == AllocPacket("PleaseSendPacket", m.from, 0, m.packet.id, host)

ConnectPlease(m, duplicate) ==
  LET host == connectedClients[m.packet.arg]
      reply == IF host = None THEN NoSuchClient(m) ELSE Please(m, host)
  IN /\ m.packet.type = "ConnectPlease" /\ HandlePacket(m, duplicate)
     /\ nextId' = nextId + 1
     /\ outgoingPackets' = outgoingPackets \union {reply}
     /\ Send({AckOf(m, "Ack"), Down(reply)}, duplicate)
     /\ UNCHANGED <<connectedClients, stuck, given>>

\* ResendPackets for one packet that is due, with tries left ...
SendPacket(info) ==
  /\ ~stuck /\ info \in outgoingPackets /\ TriesLeft(info)
  /\ outgoingPackets' = (outgoingPackets \ {info}) \union {[info EXCEPT !.tries = @ + 1]}
  /\ Send({Down(info)}, Late(info.packet))
  /\ UNCHANGED <<client, isIPV6, connectedClients, stuck, toServer, nextId, packets, history>>

\* ... and without: the joiner is told, in the next turn, that its host did not respond.
GiveUp(info) ==
  /\ ~stuck /\ info \in outgoingPackets /\ ~TriesLeft(info)
  /\ IF info.packet.type = "PleaseSendPacket"
     THEN LET fail == AllocPacket("ConnectFailed", "ClientDidntRespond", info.misc, 0, info.packet.arg)
          IN /\ outgoingPackets' = (outgoingPackets \ {info}) \union {[fail EXCEPT !.tries = 0]}
             /\ nextId' = nextId + 1
     ELSE outgoingPackets' = outgoingPackets \ {info} /\ UNCHANGED nextId
  /\ Faulty(Late(info.packet))
  /\ UNCHANGED <<client, isIPV6, connectedClients, stuck, toServer, toClient, packets, history>>

\* EvictFind: an entry without a ping for 30 seconds is gone.
Evict(host) ==
  /\ connectedClients[host] # None
  /\ connectedClients' = [connectedClients EXCEPT ![host] = None]
  /\ Faulty(TRUE)
  /\ UNCHANGED <<client, isIPV6, outgoingPackets, stuck, toServer, toClient, nextId, packets, history>>

\* The server keeps nothing on disk; a watchdog also restarts one that is stuck.
Restart ==
  /\ outgoingPackets' = {} /\ connectedClients' = [h \in HostIds |-> None] /\ stuck' = FALSE
  /\ Faulty(~stuck)
  /\ crashed' = TRUE
  /\ UNCHANGED <<client, isIPV6, toServer, toClient, nextId, packets, asked, told, given, punched>>

-----------------------------------------------------------------------------
\* The hosts, and some of the joiners, have connected before, and all is quiet; for the
\* others the constructor, a ReconnectToServer, is still to come.
Init ==
  \E on \in SUBSET Clients :
    /\ Clients \ Joiners \subseteq on
    /\ \A c, d \in on : FirstIds[c] = FirstIds[d] => c = d
    /\ m_State = [c \in Clients |-> IF c \in on THEN "Connected" ELSE "Failure"]
    /\ m_HostId = [c \in Clients |-> IF c \in on THEN FirstIds[c] ELSE None]
    /\ m_PendingConnect = [c \in Clients |-> FALSE]
    /\ m_ConnectRequestId = [c \in Clients |-> 0]
    /\ m_OutgoingTraversalPackets = [c \in Clients |-> {}]
    /\ isIPV6 \in SUBSET IPV6
    /\ outgoingPackets = {} /\ stuck = FALSE
    /\ connectedClients \in [HostIds -> Clients \union {None}]
    /\ \A h \in HostIds, c \in Clients : connectedClients[h] = c <=> c \in on /\ FirstIds[c] = h
    /\ toServer = {} /\ toClient = {}
    /\ nextId = 1 /\ packets = 0 /\ faults = 0
    /\ asked = [c \in Clients |-> None]
    /\ told = [c \in Clients |-> [times |-> 0, type |-> "", arg |-> None, req |-> 0]]
    /\ given = {<<FirstIds[c], c>> : c \in on} /\ punched = {} /\ crashed = FALSE

ClientStarts(c) ==
  \E outcome \in Outcomes :
    \/ ReconnectToServer(c, outcome)
    \/ HandlePing(c, outcome)
    \/ \E host \in Codes : ConnectToClient(c, host, outcome)

HandleResends(c) ==
  \E info \in m_OutgoingTraversalPackets[c] :
    \/ \E outcome \in Outcomes : ResendPacket(c, info, outcome)
    \/ ResendTimeout(c, info)

HandleServerPacket(c, duplicate) ==
  \E m \in toClient :
    \/ OnAck(c, m, duplicate)
    \/ OnNack(c, m, duplicate)
    \/ \E outcome \in Outcomes :
         \/ OnHelloFromServer(c, m, duplicate, outcome)
         \/ \E sends \in BOOLEAN : OnPleaseSendPacket(c, m, duplicate, sends, outcome)
         \/ OnConnectAnswer(c, m, duplicate, outcome)

ServerTurn(duplicate) ==
  \E m \in toServer :
    \/ \E info \in outgoingPackets : AckPlease(m, info, duplicate)
    \/ AckOther(m, duplicate)
    \/ Ping(m, duplicate)
    \/ \E host \in HostIds : Hello(m, host, duplicate)
    \/ ConnectPlease(m, duplicate)

ResendPackets == \E info \in outgoingPackets : SendPacket(info) \/ GiveUp(info)

Next ==
  \/ \E c \in Clients : ClientStarts(c) \/ HandleResends(c)
  \/ \E c \in Clients, duplicate \in BOOLEAN : HandleServerPacket(c, duplicate)
  \/ \E duplicate \in BOOLEAN : ServerTurn(duplicate)
  \/ ResendPackets
  \/ \E host \in HostIds : Evict(host)
  \/ Restart

\* The loops of the clients and of the server run on, and what is in the network arrives.
System ==
  \/ \E c \in Clients : HandleResends(c) \/ HandleServerPacket(c, FALSE)
  \/ ServerTurn(FALSE) \/ ResendPackets

\* Less than each of them guarantees: one of them goes on while any can.  Nobody has to
\* join, and the network has to do nothing wrong.
Fairness == WF_vars(System)

Spec == Init /\ [][Next]_vars /\ Fairness

-----------------------------------------------------------------------------
(* Properties.                                                             *)

\* The client at `from' has sent, or tried to send, its packet to `to' since the request.
Tried(from, to, request) ==
  \E p \in punched : p.from = from /\ p.to = to /\ p.after > request

Acks == {"Ack", "Nack"}

\* A request id is drawn once.
IdsInv ==
  /\ \A c \in Clients : m_ConnectRequestId[c] < nextId
  /\ \A m \in toServer : m.packet.id < nextId
  /\ \A c \in Clients : \A i \in m_OutgoingTraversalPackets[c] : i.packet.id < nextId
  /\ \A m \in toClient : m.packet.id < nextId
  /\ \A i \in outgoingPackets : i.packet.id < nextId
  /\ \A i, k \in outgoingPackets : i.packet.id = k.packet.id => i = k
  /\ \A m \in toClient, i \in outgoingPackets :
       m.packet.type \notin Acks /\ m.packet.id = i.packet.id => m.packet = i.packet /\ m.to = i.dest

\* Packets carry what their kind says, on the way up ...
Asks(c, packet) ==
  packet.type = "ConnectPlease" =>
    c \in Joiners /\ asked[c] # None /\ packet.id = m_ConnectRequestId[c] /\ packet.arg = asked[c]

UpInv ==
  /\ \A m \in toServer : Asks(m.from, m.packet)
  /\ \A c \in Clients : \A i \in m_OutgoingTraversalPackets[c] :
       i.packet.type \notin Acks /\ Asks(c, i.packet)

\* ... and on the way down: a host is asked for the joiner that wants it, and a joiner
\* is told of the host it wants.
Tells(to, packet) ==
  /\ packet.type = "HelloFromServer" => packet.arg \in HostIds
  /\ packet.type = "PleaseSendPacket" =>
       /\ packet.arg \in Clients /\ asked[packet.arg] # None
       /\ <<asked[packet.arg], to>> \in given
       /\ packet.id > m_ConnectRequestId[packet.arg]
  /\ packet.type = "ConnectReady" =>
       /\ asked[to] # None /\ <<asked[to], packet.arg>> \in given
       /\ packet.req = m_ConnectRequestId[to]
       /\ Tried(packet.arg, to, packet.req)

DownInv ==
  /\ \A m \in toClient : Tells(m.to, m.packet)
  /\ \A i \in outgoingPackets : Tells(i.dest, i.packet)
  /\ \A i \in outgoingPackets :
       i.packet.type = "PleaseSendPacket" => i.misc = m_ConnectRequestId[i.packet.arg]
  /\ \A h \in HostIds : connectedClients[h] # None => <<h, connectedClients[h]>> \in given

\* An acknowledged PleaseSendPacket was acted upon.
AckInv ==
  \A m \in toServer, i \in outgoingPackets :
    /\ m.packet.type = "Ack" /\ m.packet.id = i.packet.id
    /\ i.packet.type = "PleaseSendPacket"
    => Tried(i.dest, i.packet.arg, i.misc)

ToldInv ==
  \A c \in Clients :
    /\ told[c].times <= 1
    /\ m_PendingConnect[c] => told[c].times = 0
    /\ asked[c] = None => told[c].times = 0 /\ ~m_PendingConnect[c]
    /\ told[c].times = 1 => told[c].req = m_ConnectRequestId[c]
    /\ told[c].times = 1 /\ told[c].type = "ConnectReady" =>
         <<asked[c], told[c].arg>> \in given /\ Tried(told[c].arg, c, m_ConnectRequestId[c])

\* What the packets on the way, in the lists and in the past have to do with each other:
\* the inductive invariant behind the next two properties.
IndInv == TypeOK /\ IdsInv /\ UpInv /\ DownInv /\ AckInv /\ ToldInv

\* A joiner that is told to connect to an address was given the address behind the host
\* id it asked for, and the client there sent its packet to the joiner after the joiner
\* had asked, or tried to and did not notice that its socket refused, whatever was lost,
\* duplicated, late, or forgotten by the server on the way.
ReadyMeansTried ==
  \A c \in Clients :
    told[c].times > 0 /\ told[c].type = "ConnectReady" =>
      <<asked[c], told[c].arg>> \in given /\ Tried(told[c].arg, c, m_ConnectRequestId[c])

\* "An ack implies success" without that excuse: the packet was sent.  It does not hold:
\* HandleServerPacket ignores the result of the send and acknowledges with ok = 1.
ReadyMeansPunched ==
  \A c \in Clients :
    told[c].times > 0 /\ told[c].type = "ConnectReady" =>
      \E p \in punched : p.sent /\ p.from = told[c].arg /\ p.to = c /\ p.after > m_ConnectRequestId[c]

\* A ConnectToClient is answered at most once, and never with the answer to an
\* earlier one, although requests and answers are resent and duplicated.
AnswersTheRequest ==
  \A c \in Clients :
    /\ told[c].times <= 1
    /\ told[c].times = 1 => ~m_PendingConnect[c] /\ told[c].req = m_ConnectRequestId[c]

\* More went wrong than resending makes up for, or the server lost what it knew.
Excused == faults >= NUMBER_OF_TRIES \/ crashed \/ stuck

\* A client that says hello hears that it is connected, or gives up, as long as the server
\* runs on and fewer packets go wrong than each packet has tries.
HelloSettles ==
  \A c \in Clients : m_State[c] = "Connecting" ~> (m_State[c] # "Connecting" \/ Excused)

\* Under the same conditions a joiner hears of its host, or gives up.
AnswerArrives ==
  \A c \in Clients :
    m_PendingConnect[c] ~> (~m_PendingConnect[c] \/ m_State[c] = "Failure" \/ Excused)

=============================================================================
