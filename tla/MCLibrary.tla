------------------------------ MODULE MCLibrary ------------------------------
(***************************************************************************)
(* The parts without a partner, checked side by side in one run: part says *)
(* which one a behaviour is about, the variables of the others stay at     *)
(* their initial values.  The pure functions take their argument from      *)
(* input, which ranges over all of a bounded set.                          *)
(***************************************************************************)
EXTENDS PageScan, Convert, CString, Packet, ThreadAttr, Clock, Spinlock

CONSTANTS MaxText          \* bound: length of the texts given to atoi
VARIABLES part, input

Char == {0, 9, MINUS, BLANK, LETTER}

\* Stations "a" and "b"; ethertypes, opcodes and lengths just right and not.
Mac == {"a", "b"}
ArpFrames ==
  {[dst_mac |-> net_mac, src_mac |-> src, ethertype |-> <<8, 6>>, len |-> len,
    payload |-> [opcode |-> op, sender_mac |-> mac, sender_ip |-> ip,
                 target_mac |-> "NoMac", target_ip |-> target]] :
     src \in Mac, mac \in Mac, op \in {<<0, 1>>, <<0, 2>>, <<1, 0>>}, ip \in {3, gateway_ip},
     target \in {my_ip, gateway_ip}, len \in {13, 41, 42, 60}}

\* ICMP messages with up to 3 bytes of data and a frame padded or not.
Icmp ==
  {<<type, 0, c, c>> \o data : type \in {0, 8}, c \in {0, 15},
                               data \in UNION {[1 .. n -> {0, 7, 15}] : n \in 0 .. 3}}
Ipv4Frame(src, ihl, protocol, ip, dst, icmp, pad, short) ==
  LET options == [k \in 1 .. 4 * (ihl - 5) |-> 1]
      length == Ipv4Len + Len(options \o icmp)
  IN  [dst_mac |-> net_mac, src_mac |-> src, ethertype |-> <<8, 0>>,
       len |-> IF short THEN EthernetLen + Ipv4Len - 1 ELSE EthernetLen + length + Len(pad),
       payload |-> [ihl |-> ihl, length |-> <<length \div Base, length % Base>>, rest |-> 200,
                    protocol |-> protocol, checksum |-> 77, src_ip |-> ip, dst_ip |-> dst,
                    payload |-> options \o icmp \o pad]]
Ipv4Frames ==
  {Ipv4Frame("a", 5, 1, ip, my_ip, icmp, pad, FALSE) :
     ip \in {3, 255}, icmp \in Icmp, pad \in {<<>>, <<9>>, <<9, 9>>}}
  \cup {Ipv4Frame("b", ihl, protocol, 3, dst, <<8, 0, 0, 0>>, <<>>, short) :
     ihl \in {5, 6}, protocol \in {1, 6}, dst \in {my_ip, gateway_ip}, short \in BOOLEAN}
Unknown == [dst_mac |-> net_mac, src_mac |-> "a", ethertype |-> <<6, 8>>, len |-> 60, payload |-> <<>>]

Inputs(p) ==
  CASE p = "number" -> Int_
    [] p = "text"   -> UNION {[1 .. n -> Char] : n \in 0 .. MaxText}
    [] p = "memory" -> [Ptr -> Byte]
    [] p = "packet" -> ArpFrames \cup Ipv4Frames \cup {Unknown}
    [] OTHER        -> {NULL}

ScanIdle == free = {} /\ num_pages = 0 /\ i = 0 /\ free_run = 0 /\ start_idx = NULL /\ done = FALSE
ClockIdle == cntpct = 0 /\ rtc = [dr |-> 0, lag |-> 0] /\ boot_epoch = 0 /\ since = -1

LibInit ==
  /\ part \in {"number", "text", "memory", "packet", "scan", "attr", "clock", "lock"}
  /\ input \in Inputs(part)
  /\ IF part = "scan" THEN Init ELSE ScanIdle
  /\ IF part = "clock" THEN ClockInit ELSE ClockIdle
  /\ AttrInit /\ SpinInit

LibNext ==
  /\ \/ part = "scan" /\ Next /\ UNCHANGED <<attrVars, clockVars, spinVars>>
     \/ part = "attr" /\ AttrNext /\ UNCHANGED <<vars, clockVars, spinVars>>
     \/ part = "clock" /\ ClockNext /\ UNCHANGED <<vars, attrVars, spinVars>>
     \/ part = "lock" /\ SpinNext /\ UNCHANGED <<vars, attrVars, clockVars>>
  /\ UNCHANGED <<part, input>>

LibSpec == LibInit /\ [][LibNext]_<<part, input, vars, attrVars, clockVars, spinVars>>
------------------------------------------------------------------------------
\* printd, printlu, printx of stdio.c and atoi of stdlib.c: a printed number
\* reads back as itself, and atoi gives the number in front of any text.
NumbersReadBack ==
  /\ part = "number" => PrintedReadsBack(input)
  /\ part = "text" => AtoiReadsFront(input)

\* The functions of string.c that write copy and join exactly what they should,
\* over every memory, place, length and overlap, with the limits that
\* JoinsExact states for strncat and strlcat.
CopiesAreExact == part = "memory" => CopiesExact(input) /\ JoinsExact(input)

\* The functions of string.c that search and compare find the right place and
\* order texts; strtok_r takes a text apart without losing or repeating a token.
TextsAreExact ==
  part = "memory" => SearchesExact(input) /\ OrderExact(input) /\ TokensExact(input)

\* ethernet_handle_packet of net.c answers the one who asked, only once, and
\* with an echo reply that its receiver accepts; a gateway answers its request.
RepliesAreRight ==
  part = "packet" =>
    AnswersOnce(input) /\ EchoVerifies(input) /\ GatewayAnswers(input.src_mac)
==============================================================================
