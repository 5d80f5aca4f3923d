--------------------------- MODULE TraversalProofs ---------------------------
(***************************************************************************)
(* The inductive invariant of Traversal and what follows from it, for any  *)
(* clients, host ids, number of tries and number of faults.  First what    *)
(* the constructors and the parts of actions do, then one lemma per action *)
(* with one step per conjunct of the invariant.                            *)
(***************************************************************************)
EXTENDS Traversal, TLAPS

\* The fields of what is on the way and in the lists.
LEMMA PacketFields == ASSUME NEW p \in Packets
                      PROVE  p.type \in PacketTypes /\ p.id \in Nat /\ p.arg \in Args /\ p.req \in Nat
  BY DEF Packets

LEMMA IsPacket ==
  ASSUME NEW type \in PacketTypes, NEW id \in Nat, NEW arg \in Args, NEW req \in Nat
  PROVE  /\ Packet(type, id, arg, req) \in Packets
         /\ Packet(type, id, arg, req).type = type /\ Packet(type, id, arg, req).id = id
         /\ Packet(type, id, arg, req).arg = arg /\ Packet(type, id, arg, req).req = req
  BY DEF Packet, Packets

LEMMA UpFields == ASSUME NEW m \in UpMessages PROVE m.from \in Clients /\ m.packet \in Packets
  BY DEF UpMessages

LEMMA DownFields == ASSUME NEW m \in DownMessages PROVE m.to \in Clients /\ m.packet \in Packets
  BY DEF DownMessages

LEMMA IsUp == ASSUME NEW c \in Clients, NEW p \in Packets, NEW outcome
              PROVE  /\ Up(c, p, outcome) \subseteq UpMessages
                     /\ \A m \in Up(c, p, outcome) : m.from = c /\ m.packet = p
  BY DEF Up, UpMessages

LEMMA InfoFields ==
  ASSUME NEW i \in OutgoingPacketInfo
  PROVE  /\ i.packet \in Packets /\ i.misc \in Nat /\ i.dest \in Clients /\ i.tries \in Nat
         /\ Down(i) \in DownMessages /\ Down(i).to = i.dest /\ Down(i).packet = i.packet
  BY DEF OutgoingPacketInfo, Down, DownMessages

\* Resending changes the number of tries only.
LEMMA Retried ==
  ASSUME NEW i \in OutgoingPacketInfo, NEW n \in Nat
  PROVE  LET k == [i EXCEPT !.tries = n]
         IN /\ k \in OutgoingPacketInfo /\ k.packet = i.packet /\ k.misc = i.misc
            /\ k.dest = i.dest
  BY DEF OutgoingPacketInfo

LEMMA RetriedUp ==
  ASSUME NEW i \in OutgoingTraversalPacketInfo
  PROVE  LET k == [i EXCEPT !.tries = @ + 1]
         IN i.packet \in Packets /\ k \in OutgoingTraversalPacketInfo /\ k.packet = i.packet
  BY DEF OutgoingTraversalPacketInfo

LEMMA IsAllocated ==
  ASSUME TypeOK, NEW type \in PacketTypes, NEW arg \in Args, NEW req \in Nat, NEW misc \in Nat,
         NEW dest \in Clients
  PROVE  LET i == AllocPacket(type, arg, req, misc, dest)
         IN /\ i \in OutgoingPacketInfo /\ i.packet.type = type /\ i.packet.id = nextId
            /\ i.packet.arg = arg /\ i.packet.req = req /\ i.misc = misc /\ i.dest = dest
<1>1. nextId \in Nat
  BY DEF TypeOK
<1>2. Packet(type, nextId, arg, req) \in Packets
  BY <1>1, IsPacket
<1> QED
  BY <1>1, <1>2, IsPacket DEF AllocPacket, OutgoingPacketInfo

LEMMA After == ASSUME NEW state \in States, NEW outcome PROVE StateAfter(state, outcome) \in States
  BY DEF StateAfter, States

LEMMA AckArgs == None \in Args /\ Acks \subseteq PacketTypes
  BY DEF Args, Acks, PacketTypes

\* What SendTraversalPacket changes.
LEMMA Sent ==
  ASSUME TypeOK, NEW c \in Clients, NEW type \in PacketTypes, NEW arg \in Args, NEW outcome,
         SendTraversalPacket(c, type, arg, outcome)
  PROVE  /\ toServer' \subseteq UpMessages
         /\ m_OutgoingTraversalPackets' \in [Clients -> SUBSET OutgoingTraversalPacketInfo]
         /\ nextId' = nextId + 1 /\ packets' \in Nat /\ faults' \in Nat
         /\ \A m \in toServer' :
              \/ m \in toServer
              \/ m.from = c /\ m.packet.type = type /\ m.packet.id = nextId /\ m.packet.arg = arg
         /\ \A d \in Clients : \A i \in m_OutgoingTraversalPackets'[d] :
              \/ i \in m_OutgoingTraversalPackets[d]
              \/ d = c /\ i.packet.type = type /\ i.packet.id = nextId /\ i.packet.arg = arg
<1> DEFINE p == Packet(type, nextId, arg, 0)
           entry == [packet |-> p, tries |-> 1]
<1>1. p \in Packets /\ p.type = type /\ p.id = nextId /\ p.arg = arg
  BY IsPacket DEF TypeOK
<1>2. /\ Up(c, p, outcome) \subseteq UpMessages
      /\ \A m \in Up(c, p, outcome) : m.from = c /\ m.packet = p
  BY <1>1, IsUp
<1>3. entry \in OutgoingTraversalPacketInfo /\ entry.packet = p
  BY <1>1 DEF OutgoingTraversalPacketInfo
<1>4. /\ toServer' = toServer \union Up(c, p, outcome)
      /\ m_OutgoingTraversalPackets' = [m_OutgoingTraversalPackets EXCEPT ![c] = @ \union {entry}]
      /\ nextId' = nextId + 1 /\ packets' = packets + 1 /\ faults' \in Nat
  BY DEF SendTraversalPacket, Faulty, TypeOK
<1> HIDE DEF p, entry
<1>5. toServer' \subseteq UpMessages /\ packets' \in Nat
  BY <1>2, <1>4 DEF TypeOK
<1>6. m_OutgoingTraversalPackets' \in [Clients -> SUBSET OutgoingTraversalPacketInfo]
  BY <1>3, <1>4 DEF TypeOK
<1>7. ASSUME NEW m \in toServer', m \notin toServer PROVE m.from = c /\ m.packet = p
  <2>1. m \in Up(c, p, outcome)
    BY <1>4, <1>7
  <2> QED
    BY <1>2, <2>1
<1>8. ASSUME NEW d \in Clients, NEW i \in m_OutgoingTraversalPackets'[d],
             i \notin m_OutgoingTraversalPackets[d]
      PROVE  d = c /\ i.packet = p
  <2>1. d = c /\ i = entry
    BY <1>4, <1>8 DEF TypeOK
  <2> QED
    BY <1>3, <2>1
<1> QED
  BY <1>1, <1>4, <1>5, <1>6, <1>7, <1>8

\* What Acknowledge changes.
LEMMA Acknowledged ==
  ASSUME TypeOK, NEW c \in Clients, NEW m \in toClient, NEW type \in Acks, NEW duplicate,
         NEW wrong, NEW outcome,
         Receive(c, m, duplicate), Faulty(wrong), Acknowledge(c, m, type, outcome)
  PROVE  /\ toServer' \subseteq UpMessages /\ toClient' \subseteq toClient /\ m.to = c
         /\ faults' \in Nat
         /\ \A n \in toServer' :
              n \in toServer \/ (n.from = c /\ n.packet.type = type /\ n.packet.id = m.packet.id)
<1> DEFINE p == Packet(type, m.packet.id, None, 0)
<1>1. m.packet.id \in Nat
  BY DownFields, PacketFields DEF TypeOK
<1>2. p \in Packets /\ p.type = type /\ p.id = m.packet.id
  BY <1>1, IsPacket, AckArgs
<1>3. /\ Up(c, p, outcome) \subseteq UpMessages
      /\ \A n \in Up(c, p, outcome) : n.from = c /\ n.packet = p
  BY <1>2, IsUp
<1>4. toServer' = toServer \union Up(c, p, outcome) /\ toClient' \subseteq toClient /\ m.to = c
  BY DEF Acknowledge, Receive
<1>5. faults' \in Nat
  BY DEF Faulty, TypeOK
<1> HIDE DEF p
<1>6. toServer' \subseteq UpMessages
  BY <1>3, <1>4 DEF TypeOK
<1>7. ASSUME NEW n \in toServer', n \notin toServer
      PROVE  n.from = c /\ n.packet.type = type /\ n.packet.id = m.packet.id
  <2>1. n \in Up(c, p, outcome)
    BY <1>4, <1>7
  <2>2. n.from = c /\ n.packet = p
    BY <1>3, <2>1
  <2> QED
    BY <1>2, <2>2
<1>8. \A n \in toServer' :
        n \in toServer \/ (n.from = c /\ n.packet.type = type /\ n.packet.id = m.packet.id)
  <2> SUFFICES ASSUME NEW n \in toServer', n \notin toServer
               PROVE  n.from = c /\ n.packet.type = type /\ n.packet.id = m.packet.id
    BY Zenon
  <2> QED
    BY <1>7
<1> QED
  BY <1>4, <1>5, <1>6, <1>8

\* What a server's sends change.
LEMMA Delivered ==
  ASSUME TypeOK, NEW sent, NEW wrong, Send(sent, wrong)
  PROVE  toClient' \subseteq toClient \union sent /\ faults' \in Nat
  BY DEF Send, Faulty, TypeOK

LEMMA IsAckOf ==
  ASSUME TypeOK, NEW m \in toServer, NEW type \in Acks
  PROVE  /\ AckOf(m, type) \in DownMessages /\ AckOf(m, type).packet.type = type
         /\ AckOf(m, type).packet.id = m.packet.id
<1>1. m.packet.id \in Nat /\ m.from \in Clients
  BY UpFields, PacketFields DEF TypeOK
<1>2. /\ Packet(type, m.packet.id, None, 0) \in Packets
      /\ Packet(type, m.packet.id, None, 0).type = type
      /\ Packet(type, m.packet.id, None, 0).id = m.packet.id
  BY <1>1, IsPacket, AckArgs
<1> QED
  BY <1>1, <1>2 DEF AckOf, DownMessages

\* What was asked, given and sent stays so.
LEMMA Kept ==
  ASSUME \A d \in Clients : asked[d] # None =>
           asked'[d] = asked[d] /\ m_ConnectRequestId'[d] = m_ConnectRequestId[d],
         given \subseteq given', punched \subseteq punched'
  PROVE  /\ \A to \in Clients, p \in Packets : Tells(to, p) => Tells(to, p)'
         /\ \A c \in Clients, p \in Packets : Asks(c, p) => Asks(c, p)'
         /\ \A from, to, request : Tried(from, to, request) => Tried(from, to, request)'
<1>1. \A from, to, request : Tried(from, to, request) => Tried(from, to, request)'
  BY DEF Tried
<1>2. \A c \in Clients, p \in Packets : Asks(c, p) => Asks(c, p)'
  BY DEF Asks
<1>3. ASSUME NEW to \in Clients, NEW p \in Packets, Tells(to, p) PROVE Tells(to, p)'
  BY <1>1, <1>3 DEF Tells
<1> QED
  BY <1>1, <1>2, <1>3

\* What holds of every packet by itself holds after a step that forgets nothing, if it
\* holds of the packets that are new.
LEMMA Frame ==
  ASSUME IndInv, TypeOK', nextId <= nextId',
         \A d \in Clients : asked[d] # None =>
           asked'[d] = asked[d] /\ m_ConnectRequestId'[d] = m_ConnectRequestId[d],
         given \subseteq given', punched \subseteq punched',
         \A m \in toServer' : m \in toServer \/ (m.packet.id < nextId' /\ Asks(m.from, m.packet)'),
         \A c \in Clients : \A i \in m_OutgoingTraversalPackets'[c] :
           \/ \E k \in m_OutgoingTraversalPackets[c] : i.packet = k.packet
           \/ i.packet.id < nextId' /\ i.packet.type \notin Acks /\ Asks(c, i.packet)',
         \A m \in toClient' : m \in toClient \/ (m.packet.id < nextId' /\ Tells(m.to, m.packet)'),
         \A i \in outgoingPackets' :
           \/ \E k \in outgoingPackets : i.packet = k.packet /\ i.dest = k.dest /\ i.misc = k.misc
           \/ /\ i.packet.id < nextId' /\ Tells(i.dest, i.packet)'
              /\ i.packet.type = "PleaseSendPacket" => i.misc = m_ConnectRequestId'[i.packet.arg]
  PROVE  /\ \A m \in toServer' : m.packet.id < nextId'
         /\ \A c \in Clients : \A i \in m_OutgoingTraversalPackets'[c] : i.packet.id < nextId'
         /\ \A m \in toClient' : m.packet.id < nextId'
         /\ \A i \in outgoingPackets' : i.packet.id < nextId'
         /\ UpInv'
         /\ \A m \in toClient' : Tells(m.to, m.packet)'
         /\ \A i \in outgoingPackets' : Tells(i.dest, i.packet)'
         /\ \A i \in outgoingPackets' :
              i.packet.type = "PleaseSendPacket" => i.misc = m_ConnectRequestId'[i.packet.arg]
<1>1. nextId \in Nat /\ nextId' \in Nat
  BY DEF IndInv, TypeOK
<1>2. ASSUME NEW m \in toServer' PROVE m.packet.id < nextId' /\ Asks(m.from, m.packet)'
  <2>1. CASE m \in toServer
    <3>1. m.packet.id < nextId /\ Asks(m.from, m.packet)
      BY <2>1 DEF IndInv, IdsInv, UpInv
    <3>2. m.from \in Clients /\ m.packet \in Packets /\ m.packet.id \in Nat
      BY <2>1, UpFields, PacketFields DEF IndInv, TypeOK
    <3> QED
      BY <1>1, <3>1, <3>2, Kept
  <2> QED
    BY <2>1
<1>3. ASSUME NEW c \in Clients, NEW i \in m_OutgoingTraversalPackets'[c]
      PROVE  i.packet.id < nextId' /\ i.packet.type \notin Acks /\ Asks(c, i.packet)'
  <2>1. ASSUME NEW k \in m_OutgoingTraversalPackets[c], i.packet = k.packet
        PROVE  i.packet.id < nextId' /\ i.packet.type \notin Acks /\ Asks(c, i.packet)'
    <3>1. k.packet.id < nextId /\ k.packet.type \notin Acks /\ Asks(c, k.packet)
      BY DEF IndInv, IdsInv, UpInv
    <3>2. k.packet \in Packets /\ k.packet.id \in Nat
      <4>1. k \in OutgoingTraversalPacketInfo
        BY DEF IndInv, TypeOK
      <4> QED
        BY <4>1, RetriedUp, PacketFields
    <3> QED
      BY <1>1, <2>1, <3>1, <3>2, Kept
  <2> QED
    BY <2>1
<1>4. ASSUME NEW m \in toClient' PROVE m.packet.id < nextId' /\ Tells(m.to, m.packet)'
  <2>1. CASE m \in toClient
    <3>1. m.packet.id < nextId /\ Tells(m.to, m.packet)
      BY <2>1 DEF IndInv, IdsInv, DownInv
    <3>2. m.to \in Clients /\ m.packet \in Packets /\ m.packet.id \in Nat
      BY <2>1, DownFields, PacketFields DEF IndInv, TypeOK
    <3> QED
      BY <1>1, <3>1, <3>2, Kept
  <2> QED
    BY <2>1
<1>5. ASSUME NEW i \in outgoingPackets'
      PROVE  /\ i.packet.id < nextId' /\ Tells(i.dest, i.packet)'
             /\ i.packet.type = "PleaseSendPacket" => i.misc = m_ConnectRequestId'[i.packet.arg]
  <2>1. ASSUME NEW k \in outgoingPackets,
               i.packet = k.packet /\ i.dest = k.dest /\ i.misc = k.misc
        PROVE  /\ k.packet.id < nextId' /\ Tells(k.dest, k.packet)'
               /\ k.packet.type = "PleaseSendPacket" => k.misc = m_ConnectRequestId'[k.packet.arg]
    <3>1. /\ k.packet.id < nextId /\ Tells(k.dest, k.packet)
          /\ k.packet.type = "PleaseSendPacket" => k.misc = m_ConnectRequestId[k.packet.arg]
      BY DEF IndInv, IdsInv, DownInv
    <3>2. k.dest \in Clients /\ k.packet \in Packets /\ k.packet.id \in Nat
      BY InfoFields, PacketFields DEF IndInv, TypeOK
    <3>3. k.packet.type = "PleaseSendPacket" =>
            k.packet.arg \in Clients /\ asked[k.packet.arg] # None
      BY <3>1 DEF Tells
    <3>4. k.packet.id < nextId' /\ Tells(k.dest, k.packet)'
      BY <1>1, <3>1, <3>2, Kept
    <3> QED
      BY <3>1, <3>3, <3>4
  <2> QED
    BY <2>1
<1>6. UpInv'
  BY <1>2, <1>3 DEF UpInv
<1> QED
  BY <1>2, <1>3, <1>4, <1>5, <1>6

\* Who was told what stays so.
LEMMA ToldKept ==
  ASSUME IndInv, UNCHANGED <<asked, told, m_ConnectRequestId, m_PendingConnect>>,
         given \subseteq given', punched \subseteq punched'
  PROVE  ToldInv'
<1> SUFFICES ASSUME NEW c \in Clients
             PROVE  /\ told[c].times <= 1
                    /\ m_PendingConnect[c] => told[c].times = 0
                    /\ asked[c] = None => told[c].times = 0 /\ ~m_PendingConnect[c]
                    /\ told[c].times = 1 => told[c].req = m_ConnectRequestId[c]
                    /\ told[c].times = 1 /\ told[c].type = "ConnectReady" =>
                         /\ <<asked[c], told[c].arg>> \in given'
                         /\ Tried(told[c].arg, c, m_ConnectRequestId[c])'
  BY DEF ToldInv
<1>1. Tried(told[c].arg, c, m_ConnectRequestId[c]) => Tried(told[c].arg, c, m_ConnectRequestId[c])'
  BY DEF Tried
<1> QED
  BY <1>1 DEF IndInv, ToldInv

\* A step of a client: it leaves what the server holds alone.
LEMMA ClientStep ==
  ASSUME IndInv, TypeOK', nextId <= nextId',
         \A d \in Clients : asked[d] # None =>
           asked'[d] = asked[d] /\ m_ConnectRequestId'[d] = m_ConnectRequestId[d],
         punched \subseteq punched', UNCHANGED <<given, outgoingPackets, connectedClients>>,
         \A d \in Clients : m_ConnectRequestId'[d] < nextId',
         \A m \in toServer' : m \in toServer \/ (m.packet.id < nextId' /\ Asks(m.from, m.packet)'),
         \A c \in Clients : \A i \in m_OutgoingTraversalPackets'[c] :
           \/ \E k \in m_OutgoingTraversalPackets[c] : i.packet = k.packet
           \/ i.packet.id < nextId' /\ i.packet.type \notin Acks /\ Asks(c, i.packet)',
         toClient' \subseteq toClient
  PROVE  IdsInv' /\ UpInv' /\ DownInv'
<1>1. \A m \in toClient' : m \in toClient \/ (m.packet.id < nextId' /\ Tells(m.to, m.packet)')
  <2> SUFFICES ASSUME NEW m \in toClient' PROVE m \in toClient
    BY Zenon
  <2> QED
    OBVIOUS
<1>2. \A i \in outgoingPackets' :
        \/ \E k \in outgoingPackets : i.packet = k.packet /\ i.dest = k.dest /\ i.misc = k.misc
        \/ /\ i.packet.id < nextId' /\ Tells(i.dest, i.packet)'
           /\ i.packet.type = "PleaseSendPacket" => i.misc = m_ConnectRequestId'[i.packet.arg]
  BY outgoingPackets' = outgoingPackets, Zenon
<1>3. given \subseteq given'
  OBVIOUS
<1>4. /\ \A m \in toServer' : m.packet.id < nextId'
      /\ \A c \in Clients : \A i \in m_OutgoingTraversalPackets'[c] : i.packet.id < nextId'
      /\ \A m \in toClient' : m.packet.id < nextId'
      /\ \A i \in outgoingPackets' : i.packet.id < nextId'
      /\ UpInv'
      /\ \A m \in toClient' : Tells(m.to, m.packet)'
      /\ \A i \in outgoingPackets' : Tells(i.dest, i.packet)'
      /\ \A i \in outgoingPackets' :
           i.packet.type = "PleaseSendPacket" => i.misc = m_ConnectRequestId'[i.packet.arg]
  BY <1>1, <1>2, <1>3, Frame
<1>5. IdsInv'
  <2>1. \A i, k \in outgoingPackets' : i.packet.id = k.packet.id => i = k
    BY DEF IndInv, IdsInv
  <2>2. \A m \in toClient', i \in outgoingPackets' :
          m.packet.type \notin Acks /\ m.packet.id = i.packet.id =>
            m.packet = i.packet /\ m.to = i.dest
    BY DEF IndInv, IdsInv
  <2> QED
    BY <1>4, <2>1, <2>2 DEF IdsInv
<1>6. \A h \in HostIds : connectedClients'[h] # None => <<h, connectedClients'[h]>> \in given'
  BY DEF IndInv, DownInv
<1> QED
  BY <1>4, <1>5, <1>6 DEF DownInv

\* A step of the server: it takes packets, keeps or drops what it is sending, allocates
\* packets with a new id, and sends what it holds and acks.
LEMMA ServerStep ==
  ASSUME IndInv, TypeOK', nextId <= nextId',
         UNCHANGED <<asked, told, m_ConnectRequestId, m_PendingConnect, punched,
                     m_OutgoingTraversalPackets>>,
         given \subseteq given', toServer' \subseteq toServer,
         \A h \in HostIds : connectedClients'[h] # None => <<h, connectedClients'[h]>> \in given',
         \A m \in toClient' :
           \/ m \in toClient
           \/ m.packet.type \in Acks /\ m.packet.id < nextId'
           \/ \E i \in outgoingPackets' : m.packet = i.packet /\ m.to = i.dest,
         \A i \in outgoingPackets' :
           \/ \E k \in outgoingPackets : i.packet = k.packet /\ i.dest = k.dest /\ i.misc = k.misc
           \/ /\ i.packet.id = nextId /\ nextId < nextId' /\ Tells(i.dest, i.packet)'
              /\ i.packet.type = "PleaseSendPacket" => i.misc = m_ConnectRequestId'[i.packet.arg],
         \A i, k \in outgoingPackets' : i.packet.id = k.packet.id => i = k
  PROVE  IdsInv' /\ UpInv' /\ DownInv' /\ AckInv' /\ ToldInv'
<1>1. nextId \in Nat /\ nextId' \in Nat
  BY DEF IndInv, TypeOK
<1>2. \A d \in Clients : asked[d] # None =>
        asked'[d] = asked[d] /\ m_ConnectRequestId'[d] = m_ConnectRequestId[d]
  OBVIOUS
<1>3. punched \subseteq punched'
  OBVIOUS
<1>4. \A m \in toServer' : m \in toServer \/ (m.packet.id < nextId' /\ Asks(m.from, m.packet)')
  <2> SUFFICES ASSUME NEW m \in toServer' PROVE m \in toServer
    BY Zenon
  <2> QED
    OBVIOUS
<1>5. \A c \in Clients : \A i \in m_OutgoingTraversalPackets'[c] :
           \/ \E k \in m_OutgoingTraversalPackets[c] : i.packet = k.packet
           \/ i.packet.id < nextId' /\ i.packet.type \notin Acks /\ Asks(c, i.packet)'
  BY m_OutgoingTraversalPackets' = m_OutgoingTraversalPackets, Zenon
<1>6. ASSUME NEW i \in outgoingPackets',
             ~ \E k \in outgoingPackets : i.packet = k.packet /\ i.dest = k.dest /\ i.misc = k.misc
      PROVE  /\ i.packet.id = nextId /\ nextId < nextId' /\ Tells(i.dest, i.packet)'
             /\ i.packet.type = "PleaseSendPacket" => i.misc = m_ConnectRequestId'[i.packet.arg]
  BY <1>6
<1>7. \A i \in outgoingPackets' :
           \/ \E k \in outgoingPackets : i.packet = k.packet /\ i.dest = k.dest /\ i.misc = k.misc
           \/ /\ i.packet.id < nextId' /\ Tells(i.dest, i.packet)'
              /\ i.packet.type = "PleaseSendPacket" => i.misc = m_ConnectRequestId'[i.packet.arg]
  BY <1>6
<1>8. ASSUME NEW i \in outgoingPackets' PROVE i.packet.id < nextId' /\ Tells(i.dest, i.packet)'
  <2>1. ASSUME NEW k \in outgoingPackets, i.packet = k.packet, i.dest = k.dest
        PROVE  i.packet.id < nextId' /\ Tells(i.dest, i.packet)'
    <3>1. k.packet.id < nextId /\ Tells(k.dest, k.packet)
      BY DEF IndInv, IdsInv, DownInv
    <3>2. k.dest \in Clients /\ k.packet \in Packets /\ k.packet.id \in Nat
      BY InfoFields, PacketFields DEF IndInv, TypeOK
    <3>3. k.packet.id < nextId' /\ Tells(k.dest, k.packet)'
      BY <1>1, <1>2, <1>3, <3>1, <3>2, Kept
    <3> QED
      BY <2>1, <3>3
  <2> QED
    BY <1>6, <2>1
<1>9. ASSUME NEW m \in toClient', m \notin toClient
      PROVE  m.packet.id < nextId' /\ Tells(m.to, m.packet)'
  <2>1. CASE m.packet.type \in Acks /\ m.packet.id < nextId'
    BY <2>1 DEF Acks, Tells
  <2>2. ASSUME NEW i \in outgoingPackets', m.packet = i.packet /\ m.to = i.dest
        PROVE  m.packet.id < nextId' /\ Tells(m.to, m.packet)'
    BY <1>8, <2>2
  <2> QED
    BY <1>9, <2>1, <2>2
<1>10. /\ \A m \in toServer' : m.packet.id < nextId'
       /\ \A c \in Clients : \A i \in m_OutgoingTraversalPackets'[c] : i.packet.id < nextId'
       /\ \A m \in toClient' : m.packet.id < nextId'
       /\ \A i \in outgoingPackets' : i.packet.id < nextId'
       /\ UpInv'
       /\ \A m \in toClient' : Tells(m.to, m.packet)'
       /\ \A i \in outgoingPackets' : Tells(i.dest, i.packet)'
       /\ \A i \in outgoingPackets' :
            i.packet.type = "PleaseSendPacket" => i.misc = m_ConnectRequestId'[i.packet.arg]
  <2>1. \A m \in toClient' : m \in toClient \/ (m.packet.id < nextId' /\ Tells(m.to, m.packet)')
    <3> SUFFICES ASSUME NEW m \in toClient', m \notin toClient
                 PROVE  m.packet.id < nextId' /\ Tells(m.to, m.packet)'
      BY Zenon
    <3> QED
      BY <1>9
  <2> QED
    BY <1>2, <1>3, <1>4, <1>5, <1>7, <2>1, Frame
<1>11. ASSUME NEW m \in toClient', NEW i \in outgoingPackets',
              m.packet.type \notin Acks, m.packet.id = i.packet.id
       PROVE  m.packet = i.packet /\ m.to = i.dest
  <2>1. CASE m \in toClient
    <3>1. m.packet.id < nextId /\ m.packet.id \in Nat
      BY <2>1, DownFields, PacketFields DEF IndInv, TypeOK, IdsInv
    <3>2. PICK k \in outgoingPackets : i.packet = k.packet /\ i.dest = k.dest /\ i.misc = k.misc
      BY <1>1, <1>6, <1>11, <3>1
    <3> QED
      BY <1>11, <2>1, <3>2 DEF IndInv, IdsInv
  <2>2. ASSUME NEW k \in outgoingPackets', m.packet = k.packet /\ m.to = k.dest
        PROVE  m.packet = i.packet /\ m.to = i.dest
    BY <1>11, <2>2
  <2> QED
    BY <1>11, <2>1, <2>2
<1>12. IdsInv'
  <2>1. \A d \in Clients : m_ConnectRequestId'[d] < nextId'
    <3> SUFFICES ASSUME NEW d \in Clients PROVE m_ConnectRequestId[d] < nextId'
      OBVIOUS
    <3>1. m_ConnectRequestId[d] < nextId /\ m_ConnectRequestId[d] \in Nat
      BY DEF IndInv, TypeOK, IdsInv
    <3> QED
      BY <1>1, <3>1
  <2> QED
    BY <1>10, <1>11, <2>1 DEF IdsInv
<1>13. AckInv'
  <2> SUFFICES ASSUME NEW m \in toServer', NEW i \in outgoingPackets',
                      m.packet.type = "Ack", m.packet.id = i.packet.id,
                      i.packet.type = "PleaseSendPacket"
               PROVE  Tried(i.dest, i.packet.arg, i.misc)'
    BY DEF AckInv
  <2>1. m.packet.id < nextId /\ m.packet.id \in Nat
    BY UpFields, PacketFields DEF IndInv, TypeOK, IdsInv
  <2>2. PICK k \in outgoingPackets : i.packet = k.packet /\ i.dest = k.dest /\ i.misc = k.misc
    BY <1>1, <1>6, <2>1
  <2>3. Tried(k.dest, k.packet.arg, k.misc)
    BY <2>2 DEF IndInv, AckInv
  <2> QED
    BY <1>2, <1>3, <2>2, <2>3, Kept
<1>14. DownInv'
  BY <1>10 DEF DownInv
<1>15. ToldInv'
  BY <1>3, ToldKept
<1> QED
  BY <1>10, <1>12, <1>13, <1>14, <1>15

\* A packet that a client starts by itself.
LEMMA ClientSends ==
  ASSUME IndInv, TypeOK', NEW c \in Clients, NEW type \in PacketTypes \ Acks, NEW arg \in Args,
         NEW outcome, SendTraversalPacket(c, type, arg, outcome),
         \A d \in Clients : asked[d] # None =>
           asked'[d] = asked[d] /\ m_ConnectRequestId'[d] = m_ConnectRequestId[d],
         \A d \in Clients : m_ConnectRequestId'[d] < nextId',
         type = "ConnectPlease" =>
           c \in Joiners /\ asked'[c] # None /\ nextId = m_ConnectRequestId'[c] /\ arg = asked'[c]
  PROVE  IdsInv' /\ UpInv' /\ DownInv' /\ AckInv'
<1>1. TypeOK
  BY DEF IndInv
<1>2. /\ nextId' = nextId + 1
      /\ \A m \in toServer' :
           \/ m \in toServer
           \/ m.from = c /\ m.packet.type = type /\ m.packet.id = nextId /\ m.packet.arg = arg
      /\ \A d \in Clients : \A i \in m_OutgoingTraversalPackets'[d] :
           \/ i \in m_OutgoingTraversalPackets[d]
           \/ d = c /\ i.packet.type = type /\ i.packet.id = nextId /\ i.packet.arg = arg
  BY <1>1, Sent
<1>3. /\ UNCHANGED <<given, outgoingPackets, connectedClients, punched>>
      /\ toClient' = toClient
  BY DEF SendTraversalPacket, server
<1>4. nextId \in Nat /\ nextId <= nextId' /\ nextId < nextId'
  BY <1>1, <1>2 DEF TypeOK
<1>5. ASSUME NEW m \in toServer', m \notin toServer
      PROVE  m.packet.id < nextId' /\ Asks(m.from, m.packet)'
  <2>1. m.from = c /\ m.packet.type = type /\ m.packet.id = nextId /\ m.packet.arg = arg
    BY <1>2, <1>5
  <2> QED
    BY <1>4, <2>1 DEF Asks
<1>6. ASSUME NEW d \in Clients, NEW i \in m_OutgoingTraversalPackets'[d],
             i \notin m_OutgoingTraversalPackets[d]
      PROVE  i.packet.id < nextId' /\ i.packet.type \notin Acks /\ Asks(d, i.packet)'
  <2>1. d = c /\ i.packet.type = type /\ i.packet.id = nextId /\ i.packet.arg = arg
    BY <1>2, <1>6
  <2> QED
    BY <1>4, <2>1 DEF Asks
<1>7. IdsInv' /\ UpInv' /\ DownInv'
  <2>1. \A m \in toServer' : m \in toServer \/ (m.packet.id < nextId' /\ Asks(m.from, m.packet)')
    BY <1>5
  <2>2. \A d \in Clients : \A i \in m_OutgoingTraversalPackets'[d] :
          \/ \E k \in m_OutgoingTraversalPackets[d] : i.packet = k.packet
          \/ i.packet.id < nextId' /\ i.packet.type \notin Acks /\ Asks(d, i.packet)'
    BY <1>6
  <2>3. toClient' \subseteq toClient /\ punched \subseteq punched'
    BY <1>3
  <2> QED
    BY <1>3, <1>4, <2>1, <2>2, <2>3, ClientStep
<1>8. AckInv'
  <2> SUFFICES ASSUME NEW m \in toServer', NEW i \in outgoingPackets,
                      m.packet.type = "Ack", m.packet.id = i.packet.id,
                      i.packet.type = "PleaseSendPacket"
               PROVE  Tried(i.dest, i.packet.arg, i.misc)'
    BY <1>3 DEF AckInv
  <2>1. m \in toServer
    BY <1>2 DEF Acks
  <2>2. Tried(i.dest, i.packet.arg, i.misc)
    BY <2>1 DEF IndInv, AckInv
  <2> QED
    BY <1>3, <2>2 DEF Tried
<1> QED
  BY <1>7, <1>8

\* Its ids and what it asked for are as they were, unless it asks to connect.
LEMMA RequestsKept ==
  ASSUME IndInv, nextId \in Nat, nextId' \in Nat, nextId <= nextId',
         UNCHANGED <<asked, m_ConnectRequestId>>
  PROVE  /\ \A d \in Clients : asked[d] # None =>
              asked'[d] = asked[d] /\ m_ConnectRequestId'[d] = m_ConnectRequestId[d]
         /\ \A d \in Clients : m_ConnectRequestId'[d] < nextId'
<1>1. ASSUME NEW d \in Clients PROVE m_ConnectRequestId'[d] < nextId'
  <2>1. m_ConnectRequestId[d] < nextId /\ m_ConnectRequestId[d] \in Nat
    BY DEF IndInv, TypeOK, IdsInv
  <2> QED
    BY <2>1
<1> QED
  BY <1>1

LEMMA ReconnectKeeps ==
  ASSUME IndInv, NEW c \in Clients, NEW outcome, ReconnectToServer(c, outcome)
  PROVE  IndInv'
<1> DEFINE type == "HelloFromClient"
<1>1. type \in PacketTypes \ Acks /\ None \in Args /\ type # "ConnectPlease"
  BY DEF PacketTypes, Args, Acks
<1>2. TypeOK /\ SendTraversalPacket(c, type, None, outcome)
  BY DEF IndInv, ReconnectToServer
<1> HIDE DEF type
<1>3. /\ toServer' \subseteq UpMessages
      /\ m_OutgoingTraversalPackets' \in [Clients -> SUBSET OutgoingTraversalPacketInfo]
      /\ nextId' = nextId + 1 /\ packets' \in Nat /\ faults' \in Nat
  BY <1>1, <1>2, Sent
<1>4. TypeOK'
  <2>1. m_State' \in [Clients -> States]
    <3>1. StateAfter("Connecting", outcome) \in States
      BY After DEF States
    <3> QED
      BY <1>2, <3>1 DEF TypeOK, ReconnectToServer
  <2> QED
    BY <1>2, <1>3, <2>1 DEF TypeOK, ReconnectToServer, SendTraversalPacket, server
<1>5. /\ \A d \in Clients : asked[d] # None =>
           asked'[d] = asked[d] /\ m_ConnectRequestId'[d] = m_ConnectRequestId[d]
      /\ \A d \in Clients : m_ConnectRequestId'[d] < nextId'
  BY <1>2, <1>3, RequestsKept DEF ReconnectToServer, TypeOK
<1>6. ToldInv'
  BY ToldKept DEF ReconnectToServer, SendTraversalPacket
<1> QED
  BY <1>1, <1>2, <1>4, <1>5, <1>6, ClientSends DEF IndInv

LEMMA PingKeeps ==
  ASSUME IndInv, NEW c \in Clients, NEW outcome, HandlePing(c, outcome)
  PROVE  IndInv'
<1> DEFINE type == "Ping"
<1>1. type \in PacketTypes \ Acks /\ type # "ConnectPlease"
  BY DEF PacketTypes, Acks
<1>2. TypeOK /\ SendTraversalPacket(c, type, m_HostId[c], outcome)
  BY DEF IndInv, HandlePing
<1>3. m_HostId[c] \in Args
  BY <1>2 DEF TypeOK, Args
<1> HIDE DEF type
<1>4. /\ toServer' \subseteq UpMessages
      /\ m_OutgoingTraversalPackets' \in [Clients -> SUBSET OutgoingTraversalPacketInfo]
      /\ nextId' = nextId + 1 /\ packets' \in Nat /\ faults' \in Nat
  BY <1>1, <1>2, <1>3, Sent
<1>5. TypeOK'
  <2>1. m_State' \in [Clients -> States]
    BY <1>2, After DEF TypeOK, HandlePing
  <2> QED
    BY <1>2, <1>4, <2>1 DEF TypeOK, HandlePing, SendTraversalPacket, server
<1>6. /\ \A d \in Clients : asked[d] # None =>
           asked'[d] = asked[d] /\ m_ConnectRequestId'[d] = m_ConnectRequestId[d]
      /\ \A d \in Clients : m_ConnectRequestId'[d] < nextId'
  BY <1>2, <1>4, RequestsKept DEF HandlePing, TypeOK
<1>7. ToldInv'
  BY ToldKept DEF HandlePing, SendTraversalPacket
<1> QED
  BY <1>1, <1>2, <1>3, <1>5, <1>6, <1>7, ClientSends DEF IndInv

\* Nothing on the way concerns a client that has not asked yet.
LEMMA ConnectKeeps ==
  ASSUME IndInv, NEW c \in Clients, NEW host \in Codes, NEW outcome,
         ConnectToClient(c, host, outcome)
  PROVE  IndInv'
<1> DEFINE type == "ConnectPlease"
<1>1. type \in PacketTypes \ Acks /\ host \in Args /\ host \in HostIds /\ host # None
  BY HostIdsAssumption DEF PacketTypes, Acks, Args
<1>2. TypeOK /\ SendTraversalPacket(c, type, host, outcome)
  BY DEF IndInv, ConnectToClient
<1> HIDE DEF type
<1>3. /\ toServer' \subseteq UpMessages
      /\ m_OutgoingTraversalPackets' \in [Clients -> SUBSET OutgoingTraversalPacketInfo]
      /\ nextId' = nextId + 1 /\ packets' \in Nat /\ faults' \in Nat
  BY <1>1, <1>2, Sent
<1>4. nextId \in Nat /\ told[c] \in Answers
  BY <1>2 DEF TypeOK
<1>5. /\ [told[c] EXCEPT !.times = 0] \in Answers
      /\ [told[c] EXCEPT !.times = 0].times = 0
  BY <1>4 DEF Answers
<1>6. /\ asked[c] = None /\ c \in Joiners
      /\ asked' = [asked EXCEPT ![c] = host]
      /\ m_ConnectRequestId' = [m_ConnectRequestId EXCEPT ![c] = nextId]
      /\ m_PendingConnect' = [m_PendingConnect EXCEPT ![c] = TRUE]
      /\ told' = [told EXCEPT ![c] = [told[c] EXCEPT !.times = 0]]
      /\ given' = given /\ punched' = punched
  BY <1>2 DEF ConnectToClient, SendTraversalPacket
<1>7. TypeOK'
  <2>1. m_State' \in [Clients -> States]
    BY <1>2, After DEF TypeOK, ConnectToClient
  <2>2. told' \in [Clients -> Answers]
    BY <1>2, <1>5, <1>6 DEF TypeOK
  <2>3. /\ asked' \in [Clients -> HostIds \union {None}] /\ m_ConnectRequestId' \in [Clients -> Nat]
        /\ m_PendingConnect' \in [Clients -> BOOLEAN]
    BY <1>1, <1>2, <1>4, <1>6 DEF TypeOK
  <2> QED
    BY <1>2, <1>3, <2>1, <2>2, <2>3 DEF TypeOK, ConnectToClient, SendTraversalPacket, server
<1>8. \A d \in Clients : asked[d] # None =>
        asked'[d] = asked[d] /\ m_ConnectRequestId'[d] = m_ConnectRequestId[d]
  BY <1>2, <1>6 DEF TypeOK
<1>9. ASSUME NEW d \in Clients PROVE m_ConnectRequestId'[d] < nextId'
  <2>1. m_ConnectRequestId[d] < nextId /\ m_ConnectRequestId[d] \in Nat
    BY <1>2 DEF IndInv, TypeOK, IdsInv
  <2>2. m_ConnectRequestId'[d] \in {m_ConnectRequestId[d], nextId}
    BY <1>2, <1>6 DEF TypeOK
  <2> QED
    BY <1>3, <1>4, <2>1, <2>2
<1>10. asked'[c] = host /\ m_ConnectRequestId'[c] = nextId
  BY <1>2, <1>6 DEF TypeOK
<1>11. IdsInv' /\ UpInv' /\ DownInv' /\ AckInv'
  BY <1>1, <1>2, <1>6, <1>7, <1>8, <1>9, <1>10, ClientSends
<1>12. ToldInv'
  <2> SUFFICES ASSUME NEW d \in Clients
               PROVE  /\ told'[d].times <= 1
                      /\ m_PendingConnect'[d] => told'[d].times = 0
                      /\ asked'[d] = None => told'[d].times = 0 /\ ~m_PendingConnect'[d]
                      /\ told'[d].times = 1 => told'[d].req = m_ConnectRequestId'[d]
                      /\ told'[d].times = 1 /\ told'[d].type = "ConnectReady" =>
                           /\ <<asked'[d], told'[d].arg>> \in given
                           /\ Tried(told'[d].arg, d, m_ConnectRequestId'[d])
    BY <1>6 DEF ToldInv, Tried
  <2>1. CASE d = c
    <3>1. told'[c].times = 0
      BY <1>2, <1>5, <1>6 DEF TypeOK
    <3>2. told'[c].times <= 1 /\ told'[c].times # 1
      BY <3>1
    <3>3. asked'[c] # None
      BY <1>1, <1>10
    <3> QED
      BY <2>1, <3>1, <3>2, <3>3
  <2>2. CASE d # c
    <3>1. /\ told'[d] = told[d] /\ asked'[d] = asked[d]
          /\ m_PendingConnect'[d] = m_PendingConnect[d]
          /\ m_ConnectRequestId'[d] = m_ConnectRequestId[d]
      BY <1>2, <1>6, <2>2 DEF TypeOK
    <3> QED
      BY <3>1 DEF IndInv, ToldInv
  <2> QED
    BY <2>1, <2>2
<1> QED
  BY <1>7, <1>11, <1>12 DEF IndInv

\* HandleResends.
LEMMA ResendKeeps ==
  ASSUME IndInv, NEW c \in Clients, NEW info, NEW outcome, ResendPacket(c, info, outcome)
  PROVE  IndInv'
<1> DEFINE again == [info EXCEPT !.tries = @ + 1]
<1>1. TypeOK /\ info \in m_OutgoingTraversalPackets[c]
  BY DEF IndInv, ResendPacket
<1>2. info \in OutgoingTraversalPacketInfo
  BY <1>1 DEF TypeOK
<1>3. info.packet \in Packets /\ again \in OutgoingTraversalPacketInfo /\ again.packet = info.packet
  BY <1>2, RetriedUp
<1>4. /\ m_OutgoingTraversalPackets' =
           [m_OutgoingTraversalPackets EXCEPT ![c] = (@ \ {info}) \union {again}]
      /\ toServer' = toServer \union Up(c, info.packet, outcome)
      /\ UNCHANGED <<nextId, toClient, outgoingPackets, connectedClients, given, punched, asked,
                     told, m_ConnectRequestId, m_PendingConnect>>
  BY DEF ResendPacket, server, history
<1> HIDE DEF again
<1>5. /\ Up(c, info.packet, outcome) \subseteq UpMessages
      /\ \A m \in Up(c, info.packet, outcome) : m.from = c /\ m.packet = info.packet
  BY <1>3, IsUp
<1>6. TypeOK'
  <2>1. m_State' \in [Clients -> States]
    BY <1>1, After DEF TypeOK, ResendPacket
  <2>2. m_OutgoingTraversalPackets' \in [Clients -> SUBSET OutgoingTraversalPacketInfo]
    BY <1>1, <1>3, <1>4 DEF TypeOK
  <2>3. toServer' \subseteq UpMessages
    BY <1>1, <1>4, <1>5 DEF TypeOK
  <2>4. faults' \in Nat
    BY <1>1 DEF TypeOK, ResendPacket, Faulty
  <2> QED
    BY <1>1, <2>1, <2>2, <2>3, <2>4 DEF TypeOK, ResendPacket, server, history
<1>7. nextId \in Nat /\ nextId' = nextId /\ nextId <= nextId'
  BY <1>1, <1>4 DEF TypeOK
<1>8. /\ \A d \in Clients : asked[d] # None =>
           asked'[d] = asked[d] /\ m_ConnectRequestId'[d] = m_ConnectRequestId[d]
      /\ \A d \in Clients : m_ConnectRequestId'[d] < nextId'
  BY <1>4, <1>7, RequestsKept
<1>9. /\ info.packet.id < nextId' /\ info.packet.type \notin Acks
      /\ Asks(c, info.packet) /\ Asks(c, info.packet)'
  <2>1. info.packet.id < nextId /\ info.packet.type \notin Acks /\ Asks(c, info.packet)
    BY <1>1 DEF IndInv, IdsInv, UpInv
  <2> QED
    BY <1>4, <1>7, <2>1 DEF Asks
<1>10. ASSUME NEW m \in toServer', m \notin toServer PROVE m.from = c /\ m.packet = info.packet
  <2>1. m \in Up(c, info.packet, outcome)
    BY <1>4, <1>10
  <2> QED
    BY <1>5, <2>1
<1>11. ASSUME NEW d \in Clients, NEW i \in m_OutgoingTraversalPackets'[d]
       PROVE  \E k \in m_OutgoingTraversalPackets[d] : i.packet = k.packet
  <2>1. i \in m_OutgoingTraversalPackets[d] \/ (d = c /\ i = again)
    BY <1>1, <1>4 DEF TypeOK
  <2> QED
    BY <1>1, <1>3, <2>1
<1>12. IdsInv' /\ UpInv' /\ DownInv'
  <2>1. \A m \in toServer' : m \in toServer \/ (m.packet.id < nextId' /\ Asks(m.from, m.packet)')
    <3> SUFFICES ASSUME NEW m \in toServer', m \notin toServer
                 PROVE  m.packet.id < nextId' /\ Asks(m.from, m.packet)'
      OBVIOUS
    <3>1. m.from = c /\ m.packet = info.packet
      BY <1>10
    <3> QED
      BY <1>4, <1>9, <3>1 DEF Asks
  <2>2. \A d \in Clients : \A i \in m_OutgoingTraversalPackets'[d] :
          \/ \E k \in m_OutgoingTraversalPackets[d] : i.packet = k.packet
          \/ i.packet.id < nextId' /\ i.packet.type \notin Acks /\ Asks(d, i.packet)'
    BY <1>11
  <2>3. toClient' \subseteq toClient /\ punched \subseteq punched'
    BY <1>4
  <2> QED
    BY <1>4, <1>6, <1>7, <1>8, <2>1, <2>2, <2>3, ClientStep
<1>13. AckInv'
  <2> SUFFICES ASSUME NEW m \in toServer', NEW i \in outgoingPackets,
                      m.packet.type = "Ack", m.packet.id = i.packet.id,
                      i.packet.type = "PleaseSendPacket"
               PROVE  Tried(i.dest, i.packet.arg, i.misc)'
    BY <1>4 DEF AckInv
  <2>1. m \in toServer
    BY <1>9, <1>10 DEF Acks
  <2>2. Tried(i.dest, i.packet.arg, i.misc)
    BY <2>1 DEF IndInv, AckInv
  <2> QED
    BY <1>4, <2>2 DEF Tried
<1>14. ToldInv'
  BY <1>4, ToldKept
<1> QED
  BY <1>6, <1>12, <1>13, <1>14 DEF IndInv

\* A client that takes packets from its list or from the network and sends none.
LEMMA ClientDrops ==
  ASSUME IndInv, TypeOK',
         UNCHANGED <<nextId, toServer, outgoingPackets, connectedClients, given, punched, asked,
                     told, m_ConnectRequestId, m_PendingConnect>>,
         toClient' \subseteq toClient,
         \A d \in Clients : m_OutgoingTraversalPackets'[d] \subseteq m_OutgoingTraversalPackets[d]
  PROVE  IndInv'
<1>1. nextId \in Nat /\ nextId' = nextId /\ nextId <= nextId'
  BY DEF IndInv, TypeOK
<1>2. /\ \A d \in Clients : asked[d] # None =>
           asked'[d] = asked[d] /\ m_ConnectRequestId'[d] = m_ConnectRequestId[d]
      /\ \A d \in Clients : m_ConnectRequestId'[d] < nextId'
  BY <1>1, RequestsKept
<1>3. IdsInv' /\ UpInv' /\ DownInv'
  <2>1. \A m \in toServer' : m \in toServer \/ (m.packet.id < nextId' /\ Asks(m.from, m.packet)')
    OBVIOUS
  <2>2. \A d \in Clients : \A i \in m_OutgoingTraversalPackets'[d] :
          \/ \E k \in m_OutgoingTraversalPackets[d] : i.packet = k.packet
          \/ i.packet.id < nextId' /\ i.packet.type \notin Acks /\ Asks(d, i.packet)'
    OBVIOUS
  <2>3. punched \subseteq punched'
    OBVIOUS
  <2> QED
    BY <1>1, <1>2, <2>1, <2>2, <2>3, ClientStep
<1>4. AckInv'
  <2> SUFFICES ASSUME NEW m \in toServer, NEW i \in outgoingPackets,
                      m.packet.type = "Ack", m.packet.id = i.packet.id,
                      i.packet.type = "PleaseSendPacket"
               PROVE  Tried(i.dest, i.packet.arg, i.misc)'
    BY DEF AckInv
  <2>1. Tried(i.dest, i.packet.arg, i.misc)
    BY DEF IndInv, AckInv
  <2> QED
    BY <2>1 DEF Tried
<1>5. ToldInv'
  BY ToldKept
<1> QED
  BY <1>3, <1>4, <1>5 DEF IndInv

LEMMA TimeoutKeeps ==
  ASSUME IndInv, NEW c \in Clients, NEW info, ResendTimeout(c, info)
  PROVE  IndInv'
<1>1. TypeOK
  BY DEF IndInv
<1>2. /\ m_State' \in [Clients -> States]
      /\ m_OutgoingTraversalPackets' \in [Clients -> SUBSET OutgoingTraversalPacketInfo]
      /\ \A d \in Clients : m_OutgoingTraversalPackets'[d] \subseteq m_OutgoingTraversalPackets[d]
  BY <1>1 DEF TypeOK, ResendTimeout, States
<1>3. faults' \in Nat
  BY <1>1 DEF TypeOK, ResendTimeout, Faulty
<1>4. TypeOK'
  BY <1>1, <1>2, <1>3 DEF TypeOK, ResendTimeout, server, history
<1> QED
  BY <1>2, <1>4, ClientDrops DEF ResendTimeout, server, history

\* HandleServerPacket.
LEMMA OnAckKeeps ==
  ASSUME IndInv, NEW c \in Clients, NEW m, NEW duplicate, OnAck(c, m, duplicate)
  PROVE  IndInv'
<1>1. TypeOK
  BY DEF IndInv
<1>2. /\ m_OutgoingTraversalPackets' \in [Clients -> SUBSET OutgoingTraversalPacketInfo]
      /\ \A d \in Clients : m_OutgoingTraversalPackets'[d] \subseteq m_OutgoingTraversalPackets[d]
  BY <1>1 DEF TypeOK, OnAck
<1>3. faults' \in Nat
  BY <1>1 DEF TypeOK, OnAck, Faulty
<1>4. toClient' \subseteq toClient
  BY DEF OnAck, Receive
<1>5. TypeOK'
  BY <1>1, <1>2, <1>3, <1>4 DEF TypeOK, OnAck, Receive, server
<1> QED
  BY <1>2, <1>4, <1>5, ClientDrops DEF OnAck, Receive, server

LEMMA OnNackKeeps ==
  ASSUME IndInv, NEW c \in Clients, NEW m, NEW duplicate, OnNack(c, m, duplicate)
  PROVE  IndInv'
<1>1. TypeOK
  BY DEF IndInv
<1>2. m_State' \in [Clients -> States]
  BY <1>1 DEF TypeOK, OnNack, States
<1>3. faults' \in Nat
  BY <1>1 DEF TypeOK, OnNack, Faulty
<1>4. toClient' \subseteq toClient
  BY DEF OnNack, Receive
<1>5. TypeOK'
  BY <1>1, <1>2, <1>3, <1>4 DEF TypeOK, OnNack, Receive, server
<1> QED
  BY <1>4, <1>5, ClientDrops DEF OnNack, Receive, server

\* A packet that a client acknowledges: an ack to a PleaseSendPacket is to the one that
\* the server holds under that id.
LEMMA ClientAcks ==
  ASSUME IndInv, TypeOK', NEW c \in Clients, NEW m \in toClient, NEW type \in Acks, NEW duplicate,
         NEW wrong, NEW outcome,
         Receive(c, m, duplicate), Faulty(wrong), Acknowledge(c, m, type, outcome),
         m.packet.type \notin Acks, UNCHANGED m_ConnectRequestId, punched \subseteq punched',
         \A i \in outgoingPackets :
           /\ i.packet = m.packet /\ i.dest = c /\ type = "Ack"
           /\ i.packet.type = "PleaseSendPacket"
           => Tried(i.dest, i.packet.arg, i.misc)'
  PROVE  IdsInv' /\ UpInv' /\ DownInv' /\ AckInv'
<1>1. TypeOK
  BY DEF IndInv
<1>2. /\ toClient' \subseteq toClient /\ m.to = c
      /\ \A n \in toServer' :
           n \in toServer \/ (n.from = c /\ n.packet.type = type /\ n.packet.id = m.packet.id)
  BY <1>1, Acknowledged
<1>3. /\ UNCHANGED <<nextId, outgoingPackets, connectedClients, given, asked>>
      /\ m_OutgoingTraversalPackets' = m_OutgoingTraversalPackets
  BY DEF Acknowledge, Receive, server
<1>4. nextId \in Nat /\ nextId' = nextId /\ nextId <= nextId'
  BY <1>1, <1>3 DEF TypeOK
<1>5. /\ \A d \in Clients : asked[d] # None =>
           asked'[d] = asked[d] /\ m_ConnectRequestId'[d] = m_ConnectRequestId[d]
      /\ \A d \in Clients : m_ConnectRequestId'[d] < nextId'
  BY <1>3, <1>4, RequestsKept
<1>6. m.packet.id < nextId'
  BY <1>4 DEF IndInv, IdsInv
<1>7. IdsInv' /\ UpInv' /\ DownInv'
  <2>1. \A n \in toServer' : n \in toServer \/ (n.packet.id < nextId' /\ Asks(n.from, n.packet)')
    <3> SUFFICES ASSUME NEW n \in toServer', n \notin toServer
                 PROVE  n.packet.id < nextId' /\ Asks(n.from, n.packet)'
      OBVIOUS
    <3>1. n.packet.type = type /\ n.packet.id = m.packet.id /\ type # "ConnectPlease"
      BY <1>2 DEF Acks
    <3> QED
      BY <1>6, <3>1 DEF Asks
  <2>2. \A d \in Clients : \A i \in m_OutgoingTraversalPackets'[d] :
          \/ \E k \in m_OutgoingTraversalPackets[d] : i.packet = k.packet
          \/ i.packet.id < nextId' /\ i.packet.type \notin Acks /\ Asks(d, i.packet)'
    BY <1>3
  <2> QED
    BY <1>2, <1>3, <1>4, <1>5, <2>1, <2>2, ClientStep
<1>8. AckInv'
  <2> SUFFICES ASSUME NEW n \in toServer', NEW i \in outgoingPackets,
                      n.packet.type = "Ack", n.packet.id = i.packet.id,
                      i.packet.type = "PleaseSendPacket"
               PROVE  Tried(i.dest, i.packet.arg, i.misc)'
    BY <1>3 DEF AckInv
  <2>1. CASE n \in toServer
    <3>1. Tried(i.dest, i.packet.arg, i.misc)
      BY <2>1 DEF IndInv, AckInv
    <3> QED
      BY <3>1 DEF Tried
  <2>2. CASE n \notin toServer
    <3>1. type = "Ack" /\ m.packet.id = i.packet.id
      BY <1>2, <2>2
    <3>2. i.packet = m.packet /\ i.dest = c
      BY <1>2, <3>1 DEF IndInv, IdsInv
    <3> QED
      BY <3>1, <3>2
  <2> QED
    BY <2>1, <2>2
<1> QED
  BY <1>7, <1>8

LEMMA OnHelloKeeps ==
  ASSUME IndInv, NEW c \in Clients, NEW m \in toClient, NEW duplicate, NEW outcome,
         OnHelloFromServer(c, m, duplicate, outcome)
  PROVE  IndInv'
<1>1. /\ TypeOK /\ Receive(c, m, duplicate) /\ Faulty(duplicate \/ outcome # "sent")
      /\ Acknowledge(c, m, "Ack", outcome) /\ "Ack" \in Acks
  BY DEF IndInv, OnHelloFromServer, Acks
<1>2. /\ toServer' \subseteq UpMessages /\ toClient' \subseteq toClient /\ m.to = c
      /\ faults' \in Nat
  BY <1>1, Acknowledged
<1>3. /\ m.packet.type = "HelloFromServer" /\ m.packet.type \notin Acks
      /\ UNCHANGED <<m_ConnectRequestId, m_PendingConnect, told, punched, asked, given>>
  BY DEF OnHelloFromServer, Acknowledge, Receive, Acks
<1>4. m.packet.arg \in HostIds
  BY <1>3 DEF IndInv, DownInv, Tells
<1>5. TypeOK'
  <2>1. m_State' \in [Clients -> States]
    <3>1. StateAfter("Connected", outcome) \in States /\ StateAfter(m_State[c], outcome) \in States
      BY <1>1, After DEF States, TypeOK
    <3> QED
      BY <1>1, <3>1 DEF TypeOK, OnHelloFromServer
  <2>2. m_HostId' \in [Clients -> HostIds \union {None}]
    BY <1>1, <1>4 DEF TypeOK, OnHelloFromServer
  <2> QED
    BY <1>1, <1>2, <1>3, <2>1, <2>2 DEF TypeOK, Acknowledge, Receive, server
<1>6. ToldInv'
  BY <1>3, ToldKept
<1>7. \A i \in outgoingPackets : i.packet = m.packet => i.packet.type # "PleaseSendPacket"
  BY <1>3
<1>8. punched \subseteq punched'
  BY <1>3
<1>9. IdsInv' /\ UpInv' /\ DownInv' /\ AckInv'
  BY <1>1, <1>3, <1>5, <1>7, <1>8, ClientAcks
<1> QED
  BY <1>5, <1>6, <1>9 DEF IndInv

\* The punch comes with the ack, and later than the request.
LEMMA OnPleaseKeeps ==
  ASSUME IndInv, NEW c \in Clients, NEW m \in toClient, NEW duplicate, NEW sends \in BOOLEAN,
         NEW outcome, OnPleaseSendPacket(c, m, duplicate, sends, outcome)
  PROVE  IndInv'
<1> DEFINE type == SendOk(m.packet.arg)
           punch == [from |-> c, to |-> m.packet.arg, after |-> nextId, sent |-> sends]
<1>1. /\ TypeOK /\ Receive(c, m, duplicate) /\ Faulty(duplicate \/ ~sends \/ outcome # "sent")
      /\ Acknowledge(c, m, type, outcome) /\ type \in Acks
  BY DEF IndInv, OnPleaseSendPacket, Acks, SendOk
<1>2. /\ toServer' \subseteq UpMessages /\ toClient' \subseteq toClient /\ m.to = c
      /\ faults' \in Nat
  BY <1>1, Acknowledged
<1>3. /\ m.packet.type = "PleaseSendPacket" /\ m.packet.type \notin Acks
      /\ UNCHANGED <<m_HostId, m_ConnectRequestId, m_PendingConnect, told, asked, given>>
  BY DEF OnPleaseSendPacket, Acknowledge, Receive, Acks
<1>4. punched' = punched \/ punched' = punched \union {punch}
  BY DEF OnPleaseSendPacket
<1>5. type = "Ack" => punch \in punched'
  BY DEF OnPleaseSendPacket, SendOk
<1>6. m.packet.arg \in Clients /\ nextId \in Nat
  BY <1>1, <1>3 DEF IndInv, DownInv, Tells, TypeOK
<1>7. punch \in Punches /\ punch.from = c /\ punch.to = m.packet.arg /\ punch.after = nextId
  BY <1>6 DEF Punches
<1> HIDE DEF type, punch
<1>8. punched' \subseteq Punches /\ punched \subseteq punched'
  BY <1>1, <1>4, <1>7 DEF TypeOK
<1>9. TypeOK'
  <2>1. m_State' \in [Clients -> States]
    BY <1>1, After DEF TypeOK, OnPleaseSendPacket
  <2> QED
    BY <1>1, <1>2, <1>3, <1>8, <2>1 DEF TypeOK, Acknowledge, Receive, server
<1>10. ASSUME NEW i \in outgoingPackets, i.packet = m.packet, i.dest = c, type = "Ack",
              i.packet.type = "PleaseSendPacket"
       PROVE  Tried(i.dest, i.packet.arg, i.misc)'
  <2>1. i.misc = m_ConnectRequestId[i.packet.arg]
    BY <1>10 DEF IndInv, DownInv
  <2>2. m_ConnectRequestId[i.packet.arg] < nextId /\ m_ConnectRequestId[i.packet.arg] \in Nat
    BY <1>1, <1>6, <1>10 DEF IndInv, IdsInv, TypeOK
  <2>3. punch \in punched' /\ punch.after > i.misc
    BY <1>5, <1>6, <1>7, <1>10, <2>1, <2>2
  <2> QED
    BY <1>7, <1>10, <2>3 DEF Tried
<1>11. ToldInv'
  BY <1>3, <1>8, ToldKept
<1>12. IdsInv' /\ UpInv' /\ DownInv' /\ AckInv'
  BY <1>1, <1>3, <1>8, <1>9, <1>10, ClientAcks
<1> QED
  BY <1>9, <1>11, <1>12 DEF IndInv

LEMMA OnAnswerKeeps ==
  ASSUME IndInv, NEW c \in Clients, NEW m \in toClient, NEW duplicate, NEW outcome,
         OnConnectAnswer(c, m, duplicate, outcome)
  PROVE  IndInv'
<1> DEFINE answer == [times |-> told[c].times + 1, type |-> m.packet.type, arg |-> m.packet.arg,
                      req |-> m.packet.req]
<1>1. /\ TypeOK /\ Receive(c, m, duplicate) /\ Faulty(duplicate \/ outcome # "sent")
      /\ Acknowledge(c, m, "Ack", outcome) /\ "Ack" \in Acks
  BY DEF IndInv, OnConnectAnswer, Acks
<1>2. /\ toServer' \subseteq UpMessages /\ toClient' \subseteq toClient /\ m.to = c
      /\ faults' \in Nat
  BY <1>1, Acknowledged
<1>3. /\ m.packet.type \in {"ConnectReady", "ConnectFailed"} /\ m.packet.type \notin Acks
      /\ UNCHANGED <<m_HostId, m_ConnectRequestId, punched, asked, given>>
  BY DEF OnConnectAnswer, Acknowledge, Receive, Acks
<1>4. m.packet \in Packets
  BY <1>1, DownFields DEF TypeOK
<1>5. m.packet.arg \in Args /\ m.packet.req \in Nat
  BY <1>4, PacketFields
<1>6. told[c] \in Answers
  BY <1>1 DEF TypeOK
<1>7. told[c].times \in Nat
  BY <1>6 DEF Answers
<1>8. /\ answer \in Answers /\ answer.times = told[c].times + 1 /\ answer.type = m.packet.type
      /\ answer.arg = m.packet.arg /\ answer.req = m.packet.req
  <2>1. told[c].times + 1 \in Nat
    BY <1>7
  <2>2. m.packet.type \in {"", "ConnectReady", "ConnectFailed"}
    BY <1>3
  <2> QED
    BY <1>5, <2>1, <2>2 DEF Answers
<1>9. \/ UNCHANGED <<m_PendingConnect, told>>
      \/ /\ Awaited(c, m.packet)
         /\ m_PendingConnect' = [m_PendingConnect EXCEPT ![c] = FALSE]
         /\ told' = [told EXCEPT ![c] = answer]
  BY DEF OnConnectAnswer
<1> HIDE DEF answer
<1>10. TypeOK'
  <2>1. m_State' \in [Clients -> States]
    BY <1>1, After DEF TypeOK, OnConnectAnswer
  <2>2. m_PendingConnect' \in [Clients -> BOOLEAN] /\ told' \in [Clients -> Answers]
    BY <1>1, <1>8, <1>9 DEF TypeOK
  <2> QED
    BY <1>1, <1>2, <1>3, <2>1, <2>2 DEF TypeOK, Acknowledge, Receive, server
<1>11. ToldInv'
  <2>1. CASE UNCHANGED <<m_PendingConnect, told>>
    BY <1>3, <2>1, ToldKept
  <2>2. CASE /\ Awaited(c, m.packet)
             /\ m_PendingConnect' = [m_PendingConnect EXCEPT ![c] = FALSE]
             /\ told' = [told EXCEPT ![c] = answer]
    <3> SUFFICES ASSUME NEW d \in Clients
                 PROVE  /\ told'[d].times <= 1
                        /\ m_PendingConnect'[d] => told'[d].times = 0
                        /\ asked[d] = None => told'[d].times = 0 /\ ~m_PendingConnect'[d]
                        /\ told'[d].times = 1 => told'[d].req = m_ConnectRequestId[d]
                        /\ told'[d].times = 1 /\ told'[d].type = "ConnectReady" =>
                             /\ <<asked[d], told'[d].arg>> \in given
                             /\ Tried(told'[d].arg, d, m_ConnectRequestId[d])
      BY <1>3 DEF ToldInv, Tried
    <3>1. CASE d = c
      <4>1. told'[c] = answer /\ ~m_PendingConnect'[c]
        BY <1>1, <2>2 DEF TypeOK
      <4>2. m_PendingConnect[c] /\ m.packet.req = m_ConnectRequestId[c]
        BY <2>2 DEF Awaited
      <4>3. told[c].times = 0 /\ asked[c] # None
        BY <4>2 DEF IndInv, ToldInv
      <4>4. answer.times = 1 /\ answer.times <= 1
        BY <1>8, <4>3
      <4>5. Tells(c, m.packet)
        BY <1>2 DEF IndInv, DownInv
      <4>6. m.packet.type = "ConnectReady" =>
              <<asked[c], m.packet.arg>> \in given /\ Tried(m.packet.arg, c, m.packet.req)
        BY <4>5 DEF Tells
      <4> QED
        BY <1>8, <3>1, <4>1, <4>2, <4>3, <4>4, <4>6
    <3>2. CASE d # c
      <4>1. told'[d] = told[d] /\ m_PendingConnect'[d] = m_PendingConnect[d]
        BY <1>1, <2>2, <3>2 DEF TypeOK
      <4> QED
        BY <4>1 DEF IndInv, ToldInv
    <3> QED
      BY <3>1, <3>2
  <2> QED
    BY <1>9, <2>1, <2>2
<1>12. \A i \in outgoingPackets : i.packet = m.packet => i.packet.type # "PleaseSendPacket"
  BY <1>3
<1>13. punched \subseteq punched'
  BY <1>3
<1>14. IdsInv' /\ UpInv' /\ DownInv' /\ AckInv'
  BY <1>1, <1>3, <1>10, <1>12, <1>13, ClientAcks
<1> QED
  BY <1>10, <1>11, <1>14 DEF IndInv

\* The server.  What a turn takes from the network and what it sends.
LEMMA TurnTypes ==
  ASSUME TypeOK, NEW m \in toServer, NEW duplicate, HandlePacket(m, duplicate),
         nextId' \in Nat \ {0}, faults' \in Nat, outgoingPackets' \subseteq OutgoingPacketInfo,
         connectedClients' \in [HostIds -> Clients \union {None}], stuck' \in BOOLEAN,
         toClient' \subseteq DownMessages, given' \subseteq HostIds \X Clients
  PROVE  TypeOK' /\ toServer' \subseteq toServer
<1>1. toServer' \subseteq toServer
  BY DEF HandlePacket
<1> QED
  BY <1>1 DEF TypeOK, HandlePacket, client

\* A turn that allocates one packet, sends it, and acks or not.
LEMMA ServerAllocates ==
  ASSUME IndInv, TypeOK', NEW reply \in OutgoingPacketInfo, reply.packet.id = nextId,
         nextId' = nextId + 1,
         UNCHANGED <<client, asked, told, punched>>,
         given \subseteq given', toServer' \subseteq toServer,
         \A h \in HostIds : connectedClients'[h] # None => <<h, connectedClients'[h]>> \in given',
         reply \in outgoingPackets', outgoingPackets' \subseteq outgoingPackets \union {reply},
         \A m \in toClient' :
           \/ m \in toClient
           \/ m.packet.type \in Acks /\ m.packet.id < nextId
           \/ m = Down(reply),
         Tells(reply.dest, reply.packet)',
         reply.packet.type = "PleaseSendPacket" => reply.misc = m_ConnectRequestId[reply.packet.arg]
  PROVE  IndInv'
<1>1. nextId \in Nat /\ nextId <= nextId' /\ nextId < nextId'
  BY DEF IndInv, TypeOK
<1>2. UNCHANGED <<asked, told, m_ConnectRequestId, m_PendingConnect, punched,
                  m_OutgoingTraversalPackets>>
  BY DEF client
<1>3. Down(reply).to = reply.dest /\ Down(reply).packet = reply.packet
  BY InfoFields
<1>4. ASSUME NEW m \in toClient', m \notin toClient
      PROVE  \/ m.packet.type \in Acks /\ m.packet.id < nextId'
             \/ \E i \in outgoingPackets' : m.packet = i.packet /\ m.to = i.dest
  <2>1. CASE m.packet.type \in Acks /\ m.packet.id < nextId
    <3>1. m.packet.id \in Nat
      BY DownFields, PacketFields DEF TypeOK
    <3> QED
      BY <1>1, <2>1, <3>1
  <2>2. CASE m = Down(reply)
    BY <1>3, <2>2
  <2> QED
    BY <1>4, <2>1, <2>2
<1>5. ASSUME NEW i \in outgoingPackets', i # reply PROVE i \in outgoingPackets
  BY <1>5
<1>6. \A i \in outgoingPackets' :
        \/ \E k \in outgoingPackets : i.packet = k.packet /\ i.dest = k.dest /\ i.misc = k.misc
        \/ /\ i.packet.id = nextId /\ nextId < nextId' /\ Tells(i.dest, i.packet)'
           /\ i.packet.type = "PleaseSendPacket" => i.misc = m_ConnectRequestId'[i.packet.arg]
  <2> SUFFICES ASSUME NEW i \in outgoingPackets', i \notin outgoingPackets
               PROVE  /\ i.packet.id = nextId /\ nextId < nextId' /\ Tells(i.dest, i.packet)'
                      /\ i.packet.type = "PleaseSendPacket" =>
                           i.misc = m_ConnectRequestId'[i.packet.arg]
    OBVIOUS
  <2>1. i = reply
    BY <1>5
  <2> QED
    BY <1>1, <1>2, <2>1
<1>7. ASSUME NEW i \in outgoingPackets', NEW k \in outgoingPackets', i.packet.id = k.packet.id
      PROVE  i = k
  <2>1. \A n \in outgoingPackets : n.packet.id < nextId /\ n.packet.id # nextId
    <3> SUFFICES ASSUME NEW n \in outgoingPackets
                 PROVE  n.packet.id < nextId /\ n.packet.id # nextId
      OBVIOUS
    <3>1. n.packet.id \in Nat /\ n.packet.id < nextId
      BY InfoFields, PacketFields DEF IndInv, TypeOK, IdsInv
    <3> QED
      BY <1>1, <3>1
  <2>2. CASE i \in outgoingPackets /\ k \in outgoingPackets
    BY <1>7, <2>2 DEF IndInv, IdsInv
  <2> QED
    BY <1>5, <1>7, <2>1, <2>2
<1>8. IdsInv' /\ UpInv' /\ DownInv' /\ AckInv' /\ ToldInv'
  <2>1. \A m \in toClient' :
          \/ m \in toClient
          \/ m.packet.type \in Acks /\ m.packet.id < nextId'
          \/ \E i \in outgoingPackets' : m.packet = i.packet /\ m.to = i.dest
    BY <1>4
  <2>2. \A i, k \in outgoingPackets' : i.packet.id = k.packet.id => i = k
    BY <1>7
  <2> QED
    BY <1>1, <1>2, <1>6, <2>1, <2>2, ServerStep
<1> QED
  BY <1>8 DEF IndInv

\* One that allocates nothing.
LEMMA ServerKeeps ==
  ASSUME IndInv, TypeOK', nextId' = nextId, UNCHANGED <<client, asked, told, punched, given>>,
         toServer' \subseteq toServer,
         \A h \in HostIds : connectedClients'[h] \in {None, connectedClients[h]},
         outgoingPackets' \subseteq outgoingPackets,
         \A m \in toClient' : m \in toClient \/ (m.packet.type \in Acks /\ m.packet.id < nextId)
  PROVE  IndInv'
<1>1. nextId \in Nat /\ nextId <= nextId'
  BY DEF IndInv, TypeOK
<1>2. /\ UNCHANGED <<asked, told, m_ConnectRequestId, m_PendingConnect, punched,
                     m_OutgoingTraversalPackets>>
      /\ given \subseteq given'
  BY DEF client
<1>3. \A h \in HostIds : connectedClients'[h] # None => <<h, connectedClients'[h]>> \in given'
  BY DEF IndInv, DownInv
<1>4. \A m \in toClient' :
        \/ m \in toClient
        \/ m.packet.type \in Acks /\ m.packet.id < nextId'
        \/ \E i \in outgoingPackets' : m.packet = i.packet /\ m.to = i.dest
  OBVIOUS
<1>5. \A i \in outgoingPackets' :
        \/ \E k \in outgoingPackets : i.packet = k.packet /\ i.dest = k.dest /\ i.misc = k.misc
        \/ /\ i.packet.id = nextId /\ nextId < nextId' /\ Tells(i.dest, i.packet)'
           /\ i.packet.type = "PleaseSendPacket" => i.misc = m_ConnectRequestId'[i.packet.arg]
  OBVIOUS
<1>6. \A i, k \in outgoingPackets' : i.packet.id = k.packet.id => i = k
  BY DEF IndInv, IdsInv
<1>7. IdsInv' /\ UpInv' /\ DownInv' /\ AckInv' /\ ToldInv'
  BY <1>1, <1>2, <1>3, <1>4, <1>5, <1>6, ServerStep
<1> QED
  BY <1>7 DEF IndInv

LEMMA AckPleaseKeeps ==
  ASSUME IndInv, NEW m \in toServer, NEW info \in outgoingPackets, NEW duplicate,
         AckPlease(m, info, duplicate)
  PROVE  IndInv'
<1> DEFINE joiner == info.packet.arg
<1> PICK reply : reply = Relay(m, info)
  OBVIOUS
<1>1. TypeOK /\ HandlePacket(m, duplicate) /\ Send({Down(reply)}, duplicate)
  BY DEF IndInv, AckPlease
<1>2. info.packet.type = "PleaseSendPacket" /\ info.packet.id = m.packet.id
  BY DEF AckPlease
<1>3. /\ joiner \in Clients /\ asked[joiner] # None /\ <<asked[joiner], info.dest>> \in given
      /\ info.misc = m_ConnectRequestId[joiner]
  BY <1>2 DEF IndInv, DownInv, Tells
<1>4. info.dest \in Clients /\ info.misc \in Nat /\ info.dest \in Args /\ "ClientFailure" \in Args
  BY <1>1, InfoFields DEF TypeOK, Args, Reasons
<1>5. /\ reply \in OutgoingPacketInfo /\ reply.packet.id = nextId /\ reply.dest = joiner
      /\ reply.packet.req = info.misc
      /\ \/ m.packet.type = "Ack" /\ reply.packet.type = "ConnectReady" /\ reply.packet.arg = info.dest
         \/ reply.packet.type = "ConnectFailed"
  <2>1. CASE m.packet.type = "Ack"
    <3>1. reply = AllocPacket("ConnectReady", info.dest, info.misc, 0, joiner)
      BY <2>1 DEF Relay, Ready
    <3>2. "ConnectReady" \in PacketTypes
      BY DEF PacketTypes
    <3> QED
      BY <1>1, <1>3, <1>4, <2>1, <3>1, <3>2, IsAllocated
  <2>2. CASE m.packet.type # "Ack"
    <3>1. reply = AllocPacket("ConnectFailed", "ClientFailure", info.misc, 0, joiner)
      BY <2>2 DEF Relay, Failed
    <3>2. "ConnectFailed" \in PacketTypes
      BY DEF PacketTypes
    <3> QED
      BY <1>1, <1>3, <1>4, <3>1, <3>2, IsAllocated
  <2> QED
    BY <2>1, <2>2
<1>6. /\ outgoingPackets' = (outgoingPackets \ {info}) \union {reply} /\ nextId' = nextId + 1
      /\ UNCHANGED <<connectedClients, stuck, given, client, asked, told, punched>>
  BY <1>1 DEF AckPlease, HandlePacket
<1>7. toClient' \subseteq toClient \union {Down(reply)} /\ faults' \in Nat
  BY <1>1, Delivered
<1>8. TypeOK' /\ toServer' \subseteq toServer
  <2>1. nextId' \in Nat \ {0} /\ outgoingPackets' \subseteq OutgoingPacketInfo
    BY <1>1, <1>5, <1>6 DEF TypeOK
  <2>2. toClient' \subseteq DownMessages
    BY <1>1, <1>5, <1>7, InfoFields DEF TypeOK
  <2>3. /\ connectedClients' \in [HostIds -> Clients \union {None}] /\ stuck' \in BOOLEAN
        /\ given' \subseteq HostIds \X Clients
    BY <1>1, <1>6 DEF TypeOK
  <2> QED
    BY <1>1, <1>7, <2>1, <2>2, <2>3, TurnTypes
<1>9. Tells(reply.dest, reply.packet)'
  <2>1. UNCHANGED <<asked, given, punched, m_ConnectRequestId>>
    BY <1>6 DEF client
  <2>2. m.packet.type = "Ack" => Tried(info.dest, joiner, info.misc)
    BY <1>2 DEF IndInv, AckInv
  <2>3. CASE m.packet.type = "Ack" /\ reply.packet.type = "ConnectReady" /\ reply.packet.arg = info.dest
    <3>1. Tried(info.dest, joiner, info.misc)'
      BY <2>1, <2>2, <2>3 DEF Tried
    <3> QED
      BY <1>3, <1>5, <2>1, <2>3, <3>1 DEF Tells
  <2>4. CASE reply.packet.type = "ConnectFailed"
    BY <2>4 DEF Tells
  <2> QED
    BY <1>5, <2>3, <2>4
<1>10. \A h \in HostIds : connectedClients'[h] # None => <<h, connectedClients'[h]>> \in given'
  BY <1>6 DEF IndInv, DownInv
<1>11. \A n \in toClient' :
         \/ n \in toClient
         \/ n.packet.type \in Acks /\ n.packet.id < nextId
         \/ n = Down(reply)
  BY <1>7
<1>12. reply.packet.type # "PleaseSendPacket" /\ given \subseteq given'
  BY <1>5, <1>6
<1>13. reply \in outgoingPackets' /\ outgoingPackets' \subseteq outgoingPackets \union {reply}
  BY <1>6
<1> QED
  BY <1>5, <1>6, <1>8, <1>9, <1>10, <1>11, <1>12, <1>13, ServerAllocates

LEMMA AckOtherKeeps ==
  ASSUME IndInv, NEW m \in toServer, NEW duplicate, AckOther(m, duplicate)
  PROVE  IndInv'
<1>1. TypeOK /\ HandlePacket(m, duplicate)
  BY DEF IndInv, AckOther
<1>2. /\ outgoingPackets' \subseteq outgoingPackets
      /\ UNCHANGED <<connectedClients, stuck, given, toClient, nextId, client, asked, told, punched>>
  BY <1>1 DEF AckOther, HandlePacket
<1>3. faults' \in Nat
  BY <1>1 DEF AckOther, Faulty, TypeOK
<1>4. TypeOK' /\ toServer' \subseteq toServer
  <2>1. /\ nextId' \in Nat \ {0} /\ outgoingPackets' \subseteq OutgoingPacketInfo
        /\ connectedClients' \in [HostIds -> Clients \union {None}] /\ stuck' \in BOOLEAN
        /\ toClient' \subseteq DownMessages /\ given' \subseteq HostIds \X Clients
    BY <1>1, <1>2 DEF TypeOK
  <2> QED
    BY <1>1, <1>3, <2>1, TurnTypes
<1> QED
  BY <1>2, <1>4, ServerKeeps

LEMMA ServerPingKeeps ==
  ASSUME IndInv, NEW m \in toServer, NEW duplicate, Ping(m, duplicate)
  PROVE  IndInv'
<1> DEFINE type == IF connectedClients[m.packet.arg] = None THEN "Nack" ELSE "Ack"
<1>1. TypeOK /\ HandlePacket(m, duplicate) /\ Send({AckOf(m, type)}, duplicate) /\ type \in Acks
  BY DEF IndInv, Ping, Acks
<1> HIDE DEF type
<1>2. UNCHANGED <<server, given, nextId, client, asked, told, punched>>
  BY <1>1 DEF Ping, HandlePacket
<1>3. /\ AckOf(m, type) \in DownMessages /\ AckOf(m, type).packet.type = type
      /\ AckOf(m, type).packet.id = m.packet.id
  BY <1>1, IsAckOf
<1>4. toClient' \subseteq toClient \union {AckOf(m, type)} /\ faults' \in Nat
  BY <1>1, Delivered
<1>5. TypeOK' /\ toServer' \subseteq toServer
  <2>1. toClient' \subseteq DownMessages
    BY <1>1, <1>3, <1>4 DEF TypeOK
  <2>2. /\ nextId' \in Nat \ {0} /\ outgoingPackets' \subseteq OutgoingPacketInfo
        /\ connectedClients' \in [HostIds -> Clients \union {None}] /\ stuck' \in BOOLEAN
        /\ given' \subseteq HostIds \X Clients
    BY <1>1, <1>2 DEF TypeOK, server
  <2> QED
    BY <1>1, <1>4, <2>1, <2>2, TurnTypes
<1>6. m.packet.id < nextId
  BY DEF IndInv, IdsInv
<1>7. \A n \in toClient' : n \in toClient \/ (n.packet.type \in Acks /\ n.packet.id < nextId)
  BY <1>1, <1>3, <1>4, <1>6
<1>8. outgoingPackets' = outgoingPackets /\ connectedClients' = connectedClients
  BY <1>2 DEF server
<1> QED
  BY <1>2, <1>5, <1>7, <1>8, ServerKeeps

LEMMA HelloKeeps ==
  ASSUME IndInv, NEW m \in toServer, NEW host \in HostIds, NEW duplicate, Hello(m, host, duplicate)
  PROVE  IndInv'
<1> PICK reply : reply = AllocPacket("HelloFromServer", host, 0, 0, m.from)
  OBVIOUS
<1>1. TypeOK /\ HandlePacket(m, duplicate)
  BY DEF IndInv, Hello
<1>2. m.from \in Clients /\ host \in Args /\ "HelloFromServer" \in PacketTypes
  BY <1>1, UpFields DEF TypeOK, Args, PacketTypes
<1>3. /\ reply \in OutgoingPacketInfo /\ reply.packet.id = nextId
      /\ reply.packet.type = "HelloFromServer" /\ reply.packet.arg = host
  BY <1>1, <1>2, IsAllocated
<1>4. /\ outgoingPackets' = outgoingPackets \union {reply} /\ nextId' = nextId + 1
      /\ UNCHANGED <<client, asked, told, punched>>
  BY <1>1 DEF Hello, HandlePacket
<1>5. /\ AckOf(m, "Ack") \in DownMessages /\ AckOf(m, "Ack").packet.type = "Ack"
      /\ AckOf(m, "Ack").packet.id = m.packet.id
  BY <1>1, IsAckOf DEF Acks
<1>6. \/ /\ connectedClients' = [connectedClients EXCEPT ![host] = m.from]
         /\ given' = given \union {<<host, m.from>>}
         /\ Send({AckOf(m, "Ack"), Down(reply)}, duplicate)
         /\ stuck' = stuck
      \/ stuck' = TRUE /\ Faulty(TRUE) /\ UNCHANGED <<connectedClients, given, toClient>>
  BY DEF Hello
<1>7. toClient' \subseteq toClient \union {AckOf(m, "Ack"), Down(reply)} /\ faults' \in Nat
  <2>1. Send({AckOf(m, "Ack"), Down(reply)}, duplicate) \/ (toClient' = toClient /\ Faulty(TRUE))
    BY <1>6
  <2>2. Faulty(TRUE) => faults' \in Nat
    BY <1>1 DEF Faulty, TypeOK
  <2> QED
    BY <1>1, <2>1, <2>2, Delivered
<1>8. TypeOK' /\ toServer' \subseteq toServer
  <2>1. nextId' \in Nat \ {0} /\ outgoingPackets' \subseteq OutgoingPacketInfo
    BY <1>1, <1>3, <1>4 DEF TypeOK
  <2>2. toClient' \subseteq DownMessages
    BY <1>1, <1>3, <1>5, <1>7, InfoFields DEF TypeOK
  <2>3. connectedClients' \in [HostIds -> Clients \union {None}] /\ given' \subseteq HostIds \X Clients
    <3>1. connectedClients \in [HostIds -> Clients \union {None}] /\ given \subseteq HostIds \X Clients
      BY <1>1 DEF TypeOK
    <3>2. \/ connectedClients' = [connectedClients EXCEPT ![host] = m.from]
          \/ connectedClients' = connectedClients
      BY <1>6
    <3>3. given' \subseteq given \union {<<host, m.from>>}
      BY <1>6
    <3> QED
      BY <1>2, <3>1, <3>2, <3>3
  <2>4. stuck' \in BOOLEAN
    BY <1>1, <1>6 DEF TypeOK
  <2> QED
    BY <1>1, <1>7, <2>1, <2>2, <2>3, <2>4, TurnTypes
<1>9. Tells(reply.dest, reply.packet)'
  BY <1>3 DEF Tells
<1>10. given \subseteq given'
  BY <1>6
<1>11. ASSUME NEW h \in HostIds, connectedClients'[h] # None
       PROVE  <<h, connectedClients'[h]>> \in given'
  <2>1. CASE connectedClients'[h] = connectedClients[h]
    BY <1>10, <1>11, <2>1 DEF IndInv, DownInv
  <2>2. CASE h = host /\ connectedClients'[h] = m.from /\ given' = given \union {<<host, m.from>>}
    BY <2>2
  <2> QED
    BY <1>1, <1>6, <2>1, <2>2 DEF TypeOK
<1>12. m.packet.id < nextId
  BY DEF IndInv, IdsInv
<1>13. \A n \in toClient' :
         \/ n \in toClient
         \/ n.packet.type \in Acks /\ n.packet.id < nextId
         \/ n = Down(reply)
  BY <1>5, <1>7, <1>12 DEF Acks
<1>14. /\ reply.packet.type # "PleaseSendPacket"
       /\ reply \in outgoingPackets' /\ outgoingPackets' \subseteq outgoingPackets \union {reply}
  BY <1>3, <1>4
<1> QED
  BY <1>3, <1>4, <1>8, <1>9, <1>10, <1>11, <1>13, <1>14, ServerAllocates

LEMMA ConnectPleaseKeeps ==
  ASSUME IndInv, NEW m \in toServer, NEW duplicate, ConnectPlease(m, duplicate)
  PROVE  IndInv'
<1> PICK host : host = connectedClients[m.packet.arg]
  OBVIOUS
<1> PICK reply : reply = IF host = None THEN NoSuchClient(m) ELSE Please(m, host)
  OBVIOUS
<1>1. TypeOK /\ HandlePacket(m, duplicate) /\ Send({AckOf(m, "Ack"), Down(reply)}, duplicate)
  BY DEF IndInv, ConnectPlease
<1>2. m.from \in Clients /\ m.packet \in Packets
  BY <1>1, UpFields DEF TypeOK
<1>3. m.packet.id \in Nat /\ m.packet.id < nextId /\ nextId \in Nat
  BY <1>1, <1>2, PacketFields DEF IndInv, IdsInv, TypeOK
<1>4. /\ asked[m.from] # None /\ m.packet.id = m_ConnectRequestId[m.from]
      /\ m.packet.arg = asked[m.from]
  BY DEF IndInv, UpInv, Asks, ConnectPlease
<1>5. asked[m.from] \in HostIds
  BY <1>1, <1>2, <1>4 DEF TypeOK
<1>6. host # None => host \in Clients /\ <<asked[m.from], host>> \in given
  BY <1>1, <1>4, <1>5 DEF TypeOK, IndInv, DownInv
<1>7. /\ reply \in OutgoingPacketInfo /\ reply.packet.id = nextId
      /\ \/ reply.packet.type = "ConnectFailed"
         \/ /\ host # None /\ reply.packet.type = "PleaseSendPacket"
            /\ reply.packet.arg = m.from /\ reply.misc = m.packet.id /\ reply.dest = host
  <2>1. CASE host = None
    <3>1. reply = AllocPacket("ConnectFailed", "NoSuchClient", m.packet.id, 0, m.from)
      BY <2>1 DEF NoSuchClient
    <3>2. "ConnectFailed" \in PacketTypes /\ "NoSuchClient" \in Args
      BY DEF PacketTypes, Args, Reasons
    <3> QED
      BY <1>1, <1>2, <1>3, <3>1, <3>2, IsAllocated
  <2>2. CASE host # None
    <3>1. reply = AllocPacket("PleaseSendPacket", m.from, 0, m.packet.id, host)
      BY <2>2 DEF Please
    <3>2. "PleaseSendPacket" \in PacketTypes /\ m.from \in Args
      BY <1>2 DEF PacketTypes, Args
    <3> QED
      BY <1>1, <1>3, <1>6, <2>2, <3>1, <3>2, IsAllocated
  <2> QED
    BY <2>1, <2>2
<1>8. /\ outgoingPackets' = outgoingPackets \union {reply} /\ nextId' = nextId + 1
      /\ UNCHANGED <<connectedClients, stuck, given, client, asked, told, punched>>
  BY <1>1 DEF ConnectPlease, HandlePacket
<1>9. /\ AckOf(m, "Ack") \in DownMessages /\ AckOf(m, "Ack").packet.type = "Ack"
      /\ AckOf(m, "Ack").packet.id = m.packet.id
  BY <1>1, IsAckOf DEF Acks
<1>10. toClient' \subseteq toClient \union {AckOf(m, "Ack"), Down(reply)} /\ faults' \in Nat
  BY <1>1, Delivered
<1>11. TypeOK' /\ toServer' \subseteq toServer
  <2>1. nextId' \in Nat \ {0} /\ outgoingPackets' \subseteq OutgoingPacketInfo
    BY <1>1, <1>7, <1>8 DEF TypeOK
  <2>2. toClient' \subseteq DownMessages
    BY <1>1, <1>7, <1>9, <1>10, InfoFields DEF TypeOK
  <2>3. /\ connectedClients' \in [HostIds -> Clients \union {None}] /\ stuck' \in BOOLEAN
        /\ given' \subseteq HostIds \X Clients
    BY <1>1, <1>8 DEF TypeOK
  <2> QED
    BY <1>1, <1>10, <2>1, <2>2, <2>3, TurnTypes
<1>12. UNCHANGED <<asked, given, punched, m_ConnectRequestId>>
  BY <1>8 DEF client
<1>13. Tells(reply.dest, reply.packet)'
  <2>1. CASE reply.packet.type = "ConnectFailed"
    BY <2>1 DEF Tells
  <2>2. CASE /\ host # None /\ reply.packet.type = "PleaseSendPacket"
             /\ reply.packet.arg = m.from /\ reply.misc = m.packet.id /\ reply.dest = host
    BY <1>2, <1>3, <1>4, <1>6, <1>7, <1>12, <2>2 DEF Tells
  <2> QED
    BY <1>7, <2>1, <2>2
<1>14. \A h \in HostIds : connectedClients'[h] # None => <<h, connectedClients'[h]>> \in given'
  BY <1>8 DEF IndInv, DownInv
<1>15. \A n \in toClient' :
         \/ n \in toClient
         \/ n.packet.type \in Acks /\ n.packet.id < nextId
         \/ n = Down(reply)
  BY <1>3, <1>9, <1>10 DEF Acks
<1>16. reply.packet.type = "PleaseSendPacket" => reply.misc = m_ConnectRequestId[reply.packet.arg]
  BY <1>4, <1>7
<1>17. /\ given \subseteq given' /\ reply \in outgoingPackets'
       /\ outgoingPackets' \subseteq outgoingPackets \union {reply}
  BY <1>8
<1> QED
  BY <1>7, <1>8, <1>11, <1>13, <1>14, <1>15, <1>16, <1>17, ServerAllocates

\* ResendPackets.
LEMMA SendPacketKeeps ==
  ASSUME IndInv, NEW info \in outgoingPackets, SendPacket(info)
  PROVE  IndInv'
<1> PICK again : again = [info EXCEPT !.tries = @ + 1]
  OBVIOUS
<1>1. TypeOK /\ Send({Down(info)}, Late(info.packet))
  BY DEF IndInv, SendPacket
<1>2. info \in OutgoingPacketInfo
  BY <1>1 DEF TypeOK
<1>3. /\ info.tries + 1 \in Nat /\ Down(info) \in DownMessages
      /\ Down(info).to = info.dest /\ Down(info).packet = info.packet
  BY <1>2, InfoFields
<1>4. /\ again \in OutgoingPacketInfo /\ again.packet = info.packet /\ again.misc = info.misc
      /\ again.dest = info.dest
  BY <1>2, <1>3, Retried
<1>5. /\ outgoingPackets' = (outgoingPackets \ {info}) \union {again}
      /\ UNCHANGED <<client, connectedClients, stuck, toServer, nextId, history>>
  BY DEF SendPacket
<1>6. toClient' \subseteq toClient \union {Down(info)} /\ faults' \in Nat
  BY <1>1, Delivered
<1>7. TypeOK'
  <2>1. outgoingPackets' \subseteq OutgoingPacketInfo /\ toClient' \subseteq DownMessages
    BY <1>1, <1>3, <1>4, <1>5, <1>6 DEF TypeOK
  <2> QED
    BY <1>1, <1>6, <2>1 DEF TypeOK, SendPacket, client, history
<1>8. /\ UNCHANGED <<asked, told, m_ConnectRequestId, m_PendingConnect, punched,
                     m_OutgoingTraversalPackets>>
      /\ given' = given
  BY <1>5 DEF client, history
<1>9. nextId \in Nat /\ nextId <= nextId'
  BY <1>1, <1>5 DEF TypeOK
<1>10. \A h \in HostIds : connectedClients'[h] # None => <<h, connectedClients'[h]>> \in given'
  BY <1>5, <1>8 DEF IndInv, DownInv
<1>11. \A m \in toClient' :
         \/ m \in toClient
         \/ m.packet.type \in Acks /\ m.packet.id < nextId'
         \/ \E i \in outgoingPackets' : m.packet = i.packet /\ m.to = i.dest
  <2> SUFFICES ASSUME NEW m \in toClient', m \notin toClient
               PROVE  \E i \in outgoingPackets' : m.packet = i.packet /\ m.to = i.dest
    OBVIOUS
  <2>1. m = Down(info)
    BY <1>6
  <2> QED
    BY <1>3, <1>4, <1>5, <2>1
<1>12. ASSUME NEW i \in outgoingPackets'
       PROVE  \E k \in outgoingPackets :
                /\ i.packet = k.packet /\ i.dest = k.dest /\ i.misc = k.misc
                /\ i = k \/ (i = again /\ k = info)
  BY <1>4, <1>5
<1>13. ASSUME NEW i \in outgoingPackets', NEW k \in outgoingPackets', i.packet.id = k.packet.id
       PROVE  i = k
  <2>1. ASSUME NEW n \in outgoingPackets, n.packet.id = info.packet.id PROVE n = info
    BY <2>1 DEF IndInv, IdsInv
  <2>2. CASE i = again
    BY <1>4, <1>5, <1>13, <2>1, <2>2
  <2>3. CASE k = again
    BY <1>4, <1>5, <1>13, <2>1, <2>3
  <2>4. CASE i \in outgoingPackets /\ k \in outgoingPackets
    BY <1>13, <2>4 DEF IndInv, IdsInv
  <2> QED
    BY <1>5, <2>2, <2>3, <2>4
<1>14. IdsInv' /\ UpInv' /\ DownInv' /\ AckInv' /\ ToldInv'
  <2>1. \A i \in outgoingPackets' :
          \/ \E k \in outgoingPackets : i.packet = k.packet /\ i.dest = k.dest /\ i.misc = k.misc
          \/ /\ i.packet.id = nextId /\ nextId < nextId' /\ Tells(i.dest, i.packet)'
             /\ i.packet.type = "PleaseSendPacket" => i.misc = m_ConnectRequestId'[i.packet.arg]
    BY <1>12
  <2>2. \A i, k \in outgoingPackets' : i.packet.id = k.packet.id => i = k
    BY <1>13
  <2>3. given \subseteq given' /\ toServer' \subseteq toServer
    BY <1>5, <1>8
  <2> QED
    BY <1>7, <1>8, <1>9, <1>10, <1>11, <2>1, <2>2, <2>3, ServerStep
<1> QED
  BY <1>7, <1>14 DEF IndInv

LEMMA GiveUpKeeps ==
  ASSUME IndInv, NEW info \in outgoingPackets, GiveUp(info)
  PROVE  IndInv'
<1>1. TypeOK
  BY DEF IndInv
<1>2. /\ faults' \in Nat
      /\ UNCHANGED <<client, connectedClients, given, toServer, toClient, asked, told, punched>>
  BY <1>1 DEF GiveUp, Faulty, TypeOK, history
<1>3. ASSUME nextId' \in Nat \ {0}, outgoingPackets' \subseteq OutgoingPacketInfo
      PROVE  TypeOK'
  BY <1>1, <1>2, <1>3 DEF TypeOK, GiveUp, client, history
<1>4. CASE info.packet.type = "PleaseSendPacket"
  <2> PICK fail :
        fail = AllocPacket("ConnectFailed", "ClientDidntRespond", info.misc, 0, info.packet.arg)
    OBVIOUS
  <2> PICK reply : reply = [fail EXCEPT !.tries = 0]
    OBVIOUS
  <2>1. info.packet.arg \in Clients
    BY <1>4 DEF IndInv, DownInv, Tells
  <2>2. /\ info.misc \in Nat /\ "ConnectFailed" \in PacketTypes
        /\ "ClientDidntRespond" \in Args
    BY <1>1, InfoFields DEF TypeOK, PacketTypes, Args, Reasons
  <2>3. /\ fail \in OutgoingPacketInfo /\ fail.packet.type = "ConnectFailed"
        /\ fail.packet.id = nextId
    BY <1>1, <2>1, <2>2, IsAllocated
  <2>4. outgoingPackets' = (outgoingPackets \ {info}) \union {reply} /\ nextId' = nextId + 1
    BY <1>4 DEF GiveUp
  <2>5. reply \in OutgoingPacketInfo /\ reply.packet = fail.packet
    BY <2>3, Retried
  <2>6. TypeOK'
    BY <1>1, <1>3, <2>4, <2>5 DEF TypeOK
  <2>7. reply.packet.type = "ConnectFailed" /\ reply.packet.id = nextId
    BY <2>3, <2>5
  <2>8. Tells(reply.dest, reply.packet)'
    BY <2>7 DEF Tells
  <2>9. \A h \in HostIds : connectedClients'[h] # None => <<h, connectedClients'[h]>> \in given'
    BY <1>2 DEF IndInv, DownInv
  <2>10. /\ given \subseteq given' /\ toServer' \subseteq toServer /\ reply \in outgoingPackets'
         /\ outgoingPackets' \subseteq outgoingPackets \union {reply}
    BY <1>2, <2>4
  <2>11. \A m \in toClient' :
           \/ m \in toClient
           \/ m.packet.type \in Acks /\ m.packet.id < nextId
           \/ m = Down(reply)
    BY <1>2
  <2>12. reply.packet.type # "PleaseSendPacket"
    BY <2>7
  <2> QED
    BY <1>2, <2>4, <2>5, <2>6, <2>7, <2>8, <2>9, <2>10, <2>11, <2>12, ServerAllocates
<1>5. CASE info.packet.type # "PleaseSendPacket"
  <2>1. outgoingPackets' = outgoingPackets \ {info} /\ nextId' = nextId
    BY <1>5 DEF GiveUp
  <2>2. TypeOK'
    BY <1>1, <1>3, <2>1 DEF TypeOK
  <2> QED
    BY <1>2, <2>1, <2>2, ServerKeeps
<1> QED
  BY <1>4, <1>5

LEMMA EvictKeeps ==
  ASSUME IndInv, NEW host \in HostIds, Evict(host)
  PROVE  IndInv'
<1>1. TypeOK
  BY DEF IndInv
<1>2. /\ connectedClients' = [connectedClients EXCEPT ![host] = None]
      /\ UNCHANGED <<client, outgoingPackets, toServer, toClient, nextId, history>>
  BY DEF Evict
<1>3. /\ connectedClients' \in [HostIds -> Clients \union {None}]
      /\ \A h \in HostIds : connectedClients'[h] \in {None, connectedClients[h]}
  BY <1>1, <1>2 DEF TypeOK
<1>4. faults' \in Nat
  BY <1>1 DEF Evict, Faulty, TypeOK
<1>5. TypeOK'
  BY <1>1, <1>3, <1>4 DEF TypeOK, Evict, client, history
<1> QED
  BY <1>2, <1>3, <1>5, ServerKeeps DEF history

LEMMA RestartKeeps ==
  ASSUME IndInv, Restart
  PROVE  IndInv'
<1>1. TypeOK
  BY DEF IndInv
<1>2. /\ connectedClients' \in [HostIds -> Clients \union {None}]
      /\ \A h \in HostIds : connectedClients'[h] \in {None, connectedClients[h]}
  BY DEF Restart
<1>3. faults' \in Nat
  BY <1>1 DEF Restart, Faulty, TypeOK
<1>4. stuck' \in BOOLEAN /\ crashed' \in BOOLEAN
  BY DEF Restart
<1>5. TypeOK'
  BY <1>1, <1>2, <1>3, <1>4 DEF TypeOK, Restart, client
<1> QED
  BY <1>2, <1>5, ServerKeeps DEF Restart

\* Together.
LEMMA Step == ASSUME IndInv, [Next]_vars PROVE IndInv'
<1>1. CASE UNCHANGED vars
  <2>1. TypeOK'
    BY <1>1 DEF IndInv, TypeOK, vars, client, server, history
  <2>2. UNCHANGED <<client, server, toServer, toClient, nextId, history>>
    BY <1>1 DEF vars
  <2> QED
    BY <2>1, <2>2, ServerKeeps DEF server, history
<1>2. ASSUME NEW c \in Clients, ClientStarts(c) PROVE IndInv'
  BY <1>2, ReconnectKeeps, PingKeeps, ConnectKeeps DEF ClientStarts
<1>3. ASSUME NEW c \in Clients, HandleResends(c) PROVE IndInv'
  BY <1>3, ResendKeeps, TimeoutKeeps DEF HandleResends
<1>4. ASSUME NEW c \in Clients, NEW duplicate \in BOOLEAN, HandleServerPacket(c, duplicate)
      PROVE  IndInv'
  BY <1>4, OnAckKeeps, OnNackKeeps, OnHelloKeeps, OnPleaseKeeps, OnAnswerKeeps
     DEF HandleServerPacket
<1>5. ASSUME NEW duplicate \in BOOLEAN, ServerTurn(duplicate) PROVE IndInv'
  BY <1>5, AckPleaseKeeps, AckOtherKeeps, ServerPingKeeps, HelloKeeps, ConnectPleaseKeeps
     DEF ServerTurn
<1>6. CASE ResendPackets
  BY <1>6, SendPacketKeeps, GiveUpKeeps DEF ResendPackets
<1>7. CASE \E host \in HostIds : Evict(host)
  BY <1>7, EvictKeeps
<1> QED
  BY <1>1, <1>2, <1>3, <1>4, <1>5, <1>6, <1>7, RestartKeeps DEF Next

\* At the start nothing is on the way and nobody has asked.
LEMMA Start == ASSUME Init PROVE IndInv
<1> USE ClientsAssumption, HostIdsAssumption
<1>1. PICK on \in SUBSET Clients :
        /\ m_State = [c \in Clients |-> IF c \in on THEN "Connected" ELSE "Failure"]
        /\ m_HostId = [c \in Clients |-> IF c \in on THEN FirstIds[c] ELSE None]
        /\ \A h \in HostIds, c \in Clients : connectedClients[h] = c <=> c \in on /\ FirstIds[c] = h
        /\ given = {<<FirstIds[c], c>> : c \in on}
  BY DEF Init
<1>2. /\ m_PendingConnect = [c \in Clients |-> FALSE]
      /\ m_ConnectRequestId = [c \in Clients |-> 0]
      /\ m_OutgoingTraversalPackets = [c \in Clients |-> {}]
      /\ isIPV6 \in SUBSET IPV6
      /\ outgoingPackets = {} /\ stuck = FALSE
      /\ connectedClients \in [HostIds -> Clients \union {None}]
      /\ toServer = {} /\ toClient = {}
      /\ nextId = 1 /\ packets = 0 /\ faults = 0
      /\ asked = [c \in Clients |-> None]
      /\ told = [c \in Clients |-> [times |-> 0, type |-> "", arg |-> None, req |-> 0]]
      /\ punched = {} /\ crashed = FALSE
  BY DEF Init
<1>3. TypeOK
  <2>1. m_State \in [Clients -> States] /\ m_HostId \in [Clients -> HostIds \union {None}]
    BY <1>1 DEF States
  <2>2. given \subseteq HostIds \X Clients
    BY <1>1
  <2>3. told \in [Clients -> Answers]
    BY <1>2 DEF Answers, Args
  <2>4. /\ m_PendingConnect \in [Clients -> BOOLEAN] /\ m_ConnectRequestId \in [Clients -> Nat]
        /\ m_OutgoingTraversalPackets \in [Clients -> SUBSET OutgoingTraversalPacketInfo]
        /\ asked \in [Clients -> HostIds \union {None}]
    BY <1>2
  <2>5. /\ outgoingPackets \subseteq OutgoingPacketInfo /\ toServer \subseteq UpMessages
        /\ toClient \subseteq DownMessages /\ punched \subseteq Punches
    BY <1>2
  <2>6. nextId \in Nat \ {0} /\ packets \in Nat /\ faults \in Nat
    <3>1. nextId = 1 /\ packets = 0 /\ faults = 0
      BY <1>2
    <3> QED
      BY <3>1
  <2>7. /\ stuck \in BOOLEAN /\ crashed \in BOOLEAN /\ isIPV6 \subseteq IPV6
        /\ connectedClients \in [HostIds -> Clients \union {None}]
    BY <1>2, Zenon
  <2> QED
    BY <2>1, <2>2, <2>3, <2>4, <2>5, <2>6, <2>7 DEF TypeOK
<1>4. IdsInv
  <2>1. /\ nextId = 1
        /\ \A c \in Clients : m_ConnectRequestId[c] = 0 /\ m_OutgoingTraversalPackets[c] = {}
    BY <1>2
  <2>2. toServer = {} /\ toClient = {} /\ outgoingPackets = {}
    BY <1>2
  <2> QED
    BY <2>1, <2>2 DEF IdsInv
<1>5. UpInv /\ AckInv
  BY <1>2 DEF UpInv, AckInv
<1>6. DownInv
  <2>1. ASSUME NEW h \in HostIds, connectedClients[h] # None
        PROVE  <<h, connectedClients[h]>> \in given
    <3>1. connectedClients[h] \in Clients
      BY <1>2, <2>1
    <3>2. connectedClients[h] \in on /\ FirstIds[connectedClients[h]] = h
      BY <1>1, <3>1
    <3> QED
      BY <1>1, <3>2
  <2> QED
    BY <1>2, <2>1 DEF DownInv
<1>7. ToldInv
  <2>1. \A c \in Clients : told[c].times = 0
    BY <1>2
  <2>2. \A c \in Clients : ~m_PendingConnect[c]
    BY <1>2, Zenon
  <2>3. ASSUME NEW c \in Clients PROVE told[c].times <= 1 /\ told[c].times # 1
    <3>1. told[c].times = 0
      BY <2>1
    <3> QED
      BY <3>1
  <2> QED
    BY <2>1, <2>2, <2>3 DEF ToldInv
<1> QED
  BY <1>3, <1>4, <1>5, <1>6, <1>7 DEF IndInv

\* Invariance: whatever is lost, late, duplicated or forgotten, the packets on the way and
\* in the lists of both sides are about requests that were made (IndInv).
THEOREM Invariance == Spec => []IndInv
  BY Start, Step, PTL DEF Spec

\* What ToldInv says of one client, whose answers are counted in natural numbers.
LEMMA ToldOne ==
  ASSUME IndInv, NEW c \in Clients
  PROVE  /\ told[c].times \in Nat /\ told[c].times <= 1
         /\ m_PendingConnect[c] => told[c].times = 0
         /\ told[c].times = 1 => told[c].req = m_ConnectRequestId[c]
         /\ told[c].times = 1 /\ told[c].type = "ConnectReady" =>
              <<asked[c], told[c].arg>> \in given /\ Tried(told[c].arg, c, m_ConnectRequestId[c])
<1>1. told[c] \in Answers
  BY DEF IndInv, TypeOK
<1>2. told[c].times \in Nat
  BY <1>1 DEF Answers
<1> QED
  BY <1>2 DEF IndInv, ToldInv

\* A joiner told to connect was given the host it asked for, which has sent it a packet since,
\* or tried to.
THEOREM ReadyIsTried == Spec => []ReadyMeansTried
<1>1. ASSUME IndInv PROVE ReadyMeansTried
  <2> SUFFICES ASSUME NEW c \in Clients, told[c].times > 0, told[c].type = "ConnectReady"
               PROVE  /\ <<asked[c], told[c].arg>> \in given
                      /\ Tried(told[c].arg, c, m_ConnectRequestId[c])
    BY DEF ReadyMeansTried
  <2>1. told[c].times \in Nat /\ told[c].times <= 1
    BY ToldOne, <1>1
  <2>2. told[c].times = 1
    BY <2>1
  <2> QED
    BY ToldOne, <1>1, <2>2
<1> QED
  BY Invariance, <1>1, PTL

\* A ConnectToClient has at most one answer, its own.
THEOREM RequestIsAnsweredOnce == Spec => []AnswersTheRequest
<1>1. ASSUME IndInv PROVE AnswersTheRequest
  <2>1. ASSUME NEW c \in Clients
        PROVE  /\ told[c].times <= 1
               /\ told[c].times = 1 => ~m_PendingConnect[c] /\ told[c].req = m_ConnectRequestId[c]
    <3>1. told[c].times <= 1 /\ (told[c].times = 1 => told[c].req = m_ConnectRequestId[c])
      BY ToldOne, <1>1
    <3>2. told[c].times = 1 => told[c].times # 0
      OBVIOUS
    <3>3. told[c].times # 0 => ~m_PendingConnect[c]
      BY ToldOne, <1>1
    <3> QED
      BY <3>1, <3>2, <3>3
  <2> QED
    BY <2>1 DEF AnswersTheRequest
<1> QED
  BY Invariance, <1>1, PTL

=============================================================================
