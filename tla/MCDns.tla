------------------------------- MODULE MCDns -------------------------------
(* Names of up to three labels of one byte, hashed so that names collide;   *)
(* every short packet, and longer ones in which a name points at another.   *)
EXTENDS DnsServer, TLC

CONSTANTS MaxData, MaxHash

MCName == UNION {[1..n -> {<<b>> : b \in 0..(Radix - 1)}] : n \in 0..3}
RECURSIVE Digits(_)
Digits(name) == IF name = << >> THEN 0 ELSE Head(name)[1] + 2 * Digits(Tail(name))
MCHash == [n \in MCName |-> Digits(n) % MaxHash]
MCQType == 1 :> "A" @@ 2 :> "NS" @@ 3 :> "TXT"
MCRRType == {"A", "NS", "CNAME", "TXT"}

a == <<<<1>>>>
b == <<<<2>>>>
ab == <<<<1>>, <<2>>>>
root == << >>
Address(n) == [name |-> n, type |-> "A", whole |-> TRUE]
ShortAddress(n) == [name |-> n, type |-> "A", whole |-> FALSE]
NS(n) == [name |-> n, type |-> "NS", whole |-> TRUE]
CNAME(n) == [name |-> n, type |-> "CNAME", whole |-> TRUE]
MCZones == {<<Address(a)>>, <<Address(a), NS(a)>>, <<ShortAddress(b), Address(b), NS(a)>>,
            <<NS(a), CNAME(a), Address(root), Address(ab)>>,
            <<Address(b), Address(b), Address(a)>>}

Short == [count : {1}, data : UNION {[1..n -> 0..(Radix - 1)] : n \in 1..MaxData}]
Two == [count : {2}, data : {<<1, 1, 0, 1>> \o d : d \in [1..4 -> 0..(Radix - 1)]}]
Pointing == [count : {2}, data : {<<1, 1, 0, 2, 1, 2, Radix - 1, p, 1>> : p \in 0..(Radix - 1)}]
MCPackets == Short \cup Two \cup Pointing \cup {[count |-> 0, data |-> << >>]}

(* The fourth name points at the third, past the offsets one digit has.    *)
MCFarPackets == {[count |-> 4, data |-> <<1, 1, 0, 1, 1, 2, 0, 1, 1, 3, 0, 1, Radix - 1, 0, 1>>]}
=============================================================================
