------------------------------- MODULE Packet --------------------------------
(***************************************************************************)
(* What the network code says to whom: the Ethernet, ARP, IPv4 and ICMP    *)
(* handlers of src/src/net.c and the checksum they compute.  A handler     *)
(* yields the frames it gives to net_send; Net models the queues.          *)
(*                                                                         *)
(* A byte has Base values instead of 256, an IP address is 2 of them       *)
(* instead of 4, a MAC address is a value of its own.  Fields of two bytes *)
(* are kept as they are on the wire; the processor is little-endian.       *)
(***************************************************************************)
EXTENDS Integers, Sequences, SequencesExt

CONSTANTS Base, net_mac, my_ip, broadcast_mac, gateway_ip

ASSUME PacketAssumption == Base \in Nat /\ Base > 8 /\ my_ip # gateway_ip

Half == Base * Base          \* number of values of a uint16_t

\* The sizes of the packed structs.
EthernetLen == 14
ArpLen == 28
Ipv4Len == 20

load16(b) == b[1] + Base * b[2]
store16(x) == <<x % Base, x \div Base>>
ntohs(x) == (x \div Base) + Base * (x % Base)

ARP == 8 * Base + 6
IPV4 == 8 * Base
------------------------------------------------------------------------------
\* while (acc >> 16) acc = (acc & 0xffff) + (acc >> 16).
Carry[acc \in Nat] ==
  IF acc \div Half = 0 THEN acc ELSE Carry[(acc % Half) + (acc \div Half)]

Sum(seq) == FoldLeft(LAMBDA x, y : x + y, 0, seq)

MutChecksum(data, length) ==
  Half - 1 - Carry[Sum([i \in 1 .. length \div 2 |-> Base * data[2 * i - 1] + data[2 * i]])]

\* The sum of 16-bit words, an odd byte as the high half of one, complemented.
calculate_checksum(data, length) ==
  LET words == Sum([i \in 1 .. length \div 2 |-> Base * data[2 * i - 1] + data[2 * i]])
      odd == IF length % 2 = 1 THEN Base * data[length] ELSE 0
  IN  Half - 1 - Carry[words + odd]
------------------------------------------------------------------------------
Frame(dst, src, type, payload, len) ==
  [dst_mac |-> dst, src_mac |-> src, ethertype |-> store16(ntohs(type)),
   payload |-> payload, len |-> len]

Arp(opcode, sender_mac, sender_ip, target_mac, target_ip) ==
  [opcode |-> store16(ntohs(opcode)), sender_mac |-> sender_mac, sender_ip |-> sender_ip,
   target_mac |-> target_mac, target_ip |-> target_ip]

\* host holds net_mac and my_ip.
arp_handle(host, arp, len, src_mac) ==
  IF len < ArpLen \/ ntohs(load16(arp.opcode)) # 1 \/ arp.target_ip # host.ip THEN <<>>
  ELSE <<Frame(src_mac, host.mac, ARP,
               Arp(2, host.mac, host.ip, arp.sender_mac, arp.sender_ip), EthernetLen + ArpLen)>>

\* payload: the bytes after the fixed header, icmp in the code.  The reply
\* is made in place; what follows ip->length is not sent.
ipv4_handle(host, ip, len, src_mac) ==
  LET length == ntohs(load16(ip.length))
      zeroed == [ip.payload EXCEPT ![1] = 0, ![3] = 0, ![4] = 0]
      csum == store16(ntohs(calculate_checksum(zeroed, length - ip.ihl * 4)))
      icmp == [zeroed EXCEPT ![3] = csum[1], ![4] = csum[2]]
      reply == [ip EXCEPT !.src_ip = host.ip, !.dst_ip = ip.src_ip,
                          !.payload = SubSeq(icmp, 1, length - Ipv4Len)]
  IN  IF len < Ipv4Len \/ ip.dst_ip # host.ip \/ ip.protocol # 1 \/ ip.payload[1] # 8 THEN <<>>
      ELSE <<Frame(src_mac, host.mac, IPV4, reply, EthernetLen + length)>>

ethernet_handle_packet(host, eth) ==
  LET type == ntohs(load16(eth.ethertype))
  IN  IF eth.len < EthernetLen THEN <<>>
      ELSE IF type = ARP
           THEN arp_handle(host, eth.payload, eth.len - EthernetLen, eth.src_mac)
      ELSE IF type = IPV4
           THEN ipv4_handle(host, eth.payload, eth.len - EthernetLen, eth.src_mac)
      ELSE <<>>

Me == [mac |-> net_mac, ip |-> my_ip]

\* memset of target_mac: the address 0, written NoMac.
NoMac == "NoMac"
arp_request_gateway ==
  Frame(broadcast_mac, net_mac, ARP, Arp(1, net_mac, my_ip, NoMac, gateway_ip),
        EthernetLen + ArpLen)
------------------------------------------------------------------------------
\* The sum a receiver forms over an IPv4 header: ident, flags and ttl are one
\* word here, rest.
HeaderSum(ip) ==
  Carry[ip.ihl + Base * load16(ip.length) + ip.rest + ip.protocol + ip.checksum
          + ip.src_ip + ip.dst_ip]

\* What a receiver asks of a message: its words, an odd byte completed with 0,
\* add up to a multiple of 65535 that is not 0.
Accepted(data) ==
  LET total == Sum([i \in DOMAIN data |-> IF i % 2 = 1 THEN Base * data[i] ELSE data[i]])
  IN  total > 0 /\ total % (Half - 1) = 0

\* An answer goes to the station and the address that asked, comes from this
\* host, and is never answered in turn, whoever the asker is, so that two
\* hosts with this code cannot keep each other busy.
AnswersOnce(eth) ==
  \A k \in DOMAIN ethernet_handle_packet(Me, eth) :
    LET reply == ethernet_handle_packet(Me, eth)[k]
        ip == ntohs(load16(eth.ethertype)) = IPV4
        asker == [mac |-> eth.src_mac,
                  ip |-> IF ip THEN eth.payload.src_ip ELSE eth.payload.sender_ip]
    IN  /\ k = 1
        /\ reply.dst_mac = asker.mac /\ reply.src_mac = net_mac
        /\ reply.ethertype = eth.ethertype
        /\ IF ip THEN reply.payload.src_ip = my_ip /\ reply.payload.dst_ip = asker.ip
                 ELSE /\ <<reply.payload.sender_mac, reply.payload.sender_ip>> = <<net_mac, my_ip>>
                      /\ reply.payload.target_ip = asker.ip
        /\ ethernet_handle_packet(asker, reply) = <<>>

\* The checksum of an echo reply without IP options is the one its receiver
\* computes, also for odd lengths and for padded frames; the data come back as
\* they were sent; and the header checksum, which is not computed again,
\* still fits because the addresses only change places.
EchoVerifies(eth) ==
  \A k \in DOMAIN ethernet_handle_packet(Me, eth) :
    LET ip == ethernet_handle_packet(Me, eth)[k].payload
    IN  ntohs(load16(eth.ethertype)) = IPV4 /\ eth.payload.ihl = 5 =>
          /\ Accepted(ip.payload)
          /\ Len(ip.payload) = ntohs(load16(ip.length)) - Ipv4Len
          /\ \A i \in DOMAIN ip.payload : i \notin {1, 3, 4} => ip.payload[i] = eth.payload.payload[i]
          /\ HeaderSum(ip) = HeaderSum(eth.payload)

\* The request for the gateway is one that a gateway with this code answers,
\* and the answer tells this host the gateway's station, mac.
GatewayAnswers(mac) ==
  LET out == ethernet_handle_packet([mac |-> mac, ip |-> gateway_ip], arp_request_gateway)
  IN  /\ Len(out) = 1
      /\ out[1].dst_mac = net_mac
      /\ out[1].payload.sender_mac = mac /\ out[1].payload.sender_ip = gateway_ip
      /\ ethernet_handle_packet(Me, out[1]) = <<>>
==============================================================================
