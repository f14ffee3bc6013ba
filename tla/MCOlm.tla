------------------------------- MODULE MCOlm --------------------------------
(* Small setups: the ARP offload alone and before or after the filters,    *)
(* with masks that differ; every port and range of four bits.              *)
EXTENDS Olm

Arp(awake, sleep) == [given |-> TRUE, awake |-> awake, sleep |-> sleep]
NoArp == [given |-> FALSE, awake |-> {}, sleep |-> {}]

Port(id, bits, port, range, direction, proto) ==
    [feature |-> "PORTNUM", id |-> id, bits |-> bits, port |-> port, range |-> range,
     direction |-> direction, proto |-> proto]

OfEach ==
    {Port(1, {"SLEEP"}, 4, 3, "DEST", "TCP"), Port(2, {"WAKE", "SLEEP"}, 2, 0, "SOURCE", "UDP"),
     [feature |-> "ETHTYPE", id |-> 3, bits |-> {"WAKE", "DISCARD"}, type |-> "ARP"],
     [feature |-> "IPTYPE", id |-> 4, bits |-> {}, type |-> "UDP"]}

WithFilters(fs) == [list |-> <<"PF">>, arp |-> NoArp, filters |-> fs]

PortSetups ==
    {WithFilters({Port(1, bits, p, r, IF "DISCARD" \in bits THEN "SOURCE" ELSE "DEST", "TCP")}) :
        p \in Numbers, r \in Numbers, bits \in {{"WAKE"}, {"WAKE", "DISCARD"}}}

MCSetups ==
    PortSetups \cup
    {[list |-> <<"ARP", "PF">>, filters |-> OfEach,
      arp |-> Arp({"SNOOP"}, {"HOST_AUTO_REPLY"})],
     [list |-> <<"PF", "ARP">>, filters |-> OfEach, arp |-> NoArp],
     [list |-> <<"ARP">>, filters |-> {}, arp |-> Arp({}, {"PEER_AUTO_REPLY", "SNOOP"})],
     [list |-> <<>>, filters |-> {}, arp |-> NoArp]}
=============================================================================
