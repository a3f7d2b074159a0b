----------------------------- MODULE MCNetStack ----------------------------
(* Two stacks and a stranger who asks in the name of any of them, or of     *)
(* everyone.                                                                *)
EXTENDS NetStack

MCMac == [h \in Host |-> IF h = 1 THEN "m1" ELSE "m2"]
MCIp == [h \in Host |-> IF h = 1 THEN "ip1" ELSE "ip2"]

Stranger == "m9"
Asking(to, from) ==
  [kind : {"arp"}, dest : {Everyone}, src : {Stranger}, operation : {1, 2, 3},
   senderhost : {Stranger}, senderip : from, targethost : {Nobody}, targetip : to]
Echo(data) ==
  {[kind |-> "icmp", dest |-> d, src |-> Stranger, from |-> f, to |-> t, type |-> ECHOREQUEST,
    data |-> w, checksum |-> internet_checksum_generate(<<ECHOREQUEST>> \o w)] :
     d \in {"m1", Everyone}, f \in {"ip2", NetBroadcast}, t \in {"ip1", NetBroadcast}, w \in data}
Others ==
  {[kind |-> "junk", dest |-> Everyone, src |-> Stranger],
   [kind |-> "udp", dest |-> "m2", src |-> Stranger, from |-> "ip1", to |-> "ip2"],
   [kind |-> "icmp", dest |-> "m1", src |-> Stranger, from |-> "ip2", to |-> "ip1", type |-> ECHOREQUEST,
    data |-> <<1>>, checksum |-> 1]}
MCStrange == Asking({"ip1", "ip9"}, {"ip2", "ip9"}) \cup Echo({<<15, 8, 8>>, <<2, 15, 15>>}) \cup Others
=============================================================================
