------------------------------ MODULE NetStack -----------------------------
(***************************************************************************)
(* The user-space network stack (network/tunclient.cc) with the checksums   *)
(* of parse.cc: several of them, and strangers, on one wire.  A stack reads  *)
(* one frame at a time, parses it, answers an ARP or an echo request, notes  *)
(* the sender of an ARP frame, and releases its arena.                      *)
(*                                                                         *)
(* The wire is the kernel's (tap devices on one bridge): a frame reaches any *)
(* of the other taps or none, and a full queue drops it.                    *)
(***************************************************************************)
EXTENDS Integers, Sequences, FiniteSets, SequencesExt

CONSTANTS Host, Mac, Ip,        \* the stacks, and the addresses of each
          NetBroadcast,         \* ip.broadcast; they are on one network
          Word,                 \* the number of values of a 16 bit word
          Strange,              \* the frames strangers send
          MaxStrange, MaxWire   \* bounds: how many they send, what a tap queues

ASSUME StackAssumption == Host # {} /\ Word \in Nat \ (0..8) /\ MaxWire \in Nat \ {0}

(* No stranger's frame says it is from a stack.  What an echo message        *)
(* carries is 16 bit words.                                                 *)
ASSUME WireAssumption ==
  /\ \A f \in Strange : \A h \in Host : f.src # Mac[h]
  /\ \A f \in Strange : f.kind = "icmp" => f.data \in Seq(0..(Word - 1))

VARIABLES wire,         \* for each stack, the frames at its tap
          pc,           \* "read", "parse", "process", "learn", "release"
          frame,        \* the frame read last
          arp,          \* the table, without the time: address -> MAC
          held,         \* whether the arena is allocated
          left          \* how many frames strangers may still send

vars == <<wire, pc, frame, arp, held, left>>

Everyone == "ff:ff"             \* six bytes of 0xFF
IP_BROADCAST == "255.255"
Nobody == "00:00"               \* "All 0 when unused"
NoFrame == [kind |-> "none"]

With(f, g) == [x \in DOMAIN f \cup DOMAIN g |-> IF x \in DOMAIN f THEN f[x] ELSE g[x]]

-----------------------------------------------------------------------------
(* internet_checksum: the sum of the words, with what it carries out added   *)
(* until nothing is carried.                                                *)
Sum(words) ==
  LET s[n \in 0..Len(words)] == IF n = 0 THEN 0 ELSE s[n - 1] + words[n] IN s[Len(words)]
Fold(s) == (s % Word) + (s \div Word)
checksum_FoldsOnce(words) == Fold(Sum(words))       \* mutant
checksum(words) ==
  LET s[n \in 0..Sum(words)] == IF n < Word THEN n ELSE s[Fold(n)] IN s[Sum(words)]
internet_checksum_parse(words) == checksum(words) = Word - 1
internet_checksum_generate(words) == (Word - 1 - checksum(words)) % Word

(* An echo message is its type, its data, and the checksum over all of it.   *)
ECHOREQUEST == 8
ECHORESPONSE == 0
Message(m) == <<m.type>> \o m.data
Checked(m) == Append(Message(m), m.checksum)

(* What parse_ethernet makes of a frame.  Frames with the optional VLAN      *)
(* header are left out: no stack sends one.                                 *)
Parses(f) == /\ f.kind \in {"arp", "udp", "icmp"}
             /\ f.kind = "arp" => f.operation \in {1, 2}
             /\ f.kind = "icmp" => /\ f.type \in {ECHOREQUEST, ECHORESPONSE}
                                   /\ internet_checksum_parse(Checked(f))

-----------------------------------------------------------------------------
Init ==
  /\ wire = [h \in Host |-> << >>]
  /\ pc = [h \in Host |-> "read"]
  /\ frame = [h \in Host |-> NoFrame]
  /\ arp = [h \in Host |-> << >>]
  /\ held = [h \in Host |-> FALSE]
  /\ left = MaxStrange

Go(h, where) == pc' = [pc EXCEPT ![h] = where]

(* The kernel.                                                             *)
Delivered(f, others) ==
  \E taps \in SUBSET {g \in others : Len(wire[g]) < MaxWire} :
    wire' = [g \in Host |-> IF g \in taps THEN Append(wire[g], f) ELSE wire[g]]

StrangerSends ==
  /\ left > 0 /\ left' = left - 1
  /\ \E f \in Strange : Delivered(f, Host)
  /\ UNCHANGED <<pc, frame, arp, held>>

(* The loop of main: read, then NailArena_init.                             *)
Read(h) ==
  /\ pc[h] = "read" /\ wire[h] # << >>
  /\ frame' = [frame EXCEPT ![h] = Head(wire[h])]
  /\ wire' = [wire EXCEPT ![h] = Tail(@)]
  /\ held' = [held EXCEPT ![h] = TRUE]
  /\ Go(h, "parse")
  /\ UNCHANGED <<arp, left>>

Parsed(h) ==
  /\ pc[h] = "parse"
  /\ Go(h, IF Parses(frame[h]) THEN "process" ELSE "release")
  /\ UNCHANGED <<wire, frame, arp, held, left>>

OutOfMemory(h) ==               \* the longjmp out of the parser
  /\ pc[h] = "parse"
  /\ held' = [held EXCEPT ![h] = FALSE]
  /\ frame' = [frame EXCEPT ![h] = NoFrame]
  /\ Go(h, "read")
  /\ UNCHANGED <<wire, arp, left>>

Release(h) ==
  /\ pc[h] = "release"
  /\ held' = [held EXCEPT ![h] = FALSE]
  /\ frame' = [frame EXCEPT ![h] = NoFrame]
  /\ Go(h, "read")
  /\ UNCHANGED <<wire, arp, left>>

(* prepare_ethernet and send_frame: an ARP answer goes to the MAC it names,  *)
(* what is sent by IP to everyone.  The result of gen_ethernet is not used.  *)
ethernet(h, p) ==
  IF p.kind = "arp" THEN With(p, [dest |-> p.targethost, src |-> p.senderhost])
  ELSE With(p, [dest |-> Everyone, src |-> Mac[h]])
send_frame(h, p) == Delivered(ethernet(h, p), Host \ {h})

-----------------------------------------------------------------------------
(* process_frame, process_arp, process_ip, process_icmp.                    *)
Towards(h) == frame[h].dest \in {Mac[h], Everyone}
Processing(h, kind) == pc[h] = "process" /\ Towards(h) /\ frame[h].kind = kind

ArpAnswer(h, f) ==
  [kind |-> "arp", operation |-> 2, senderhost |-> Mac[h], senderip |-> Ip[h],
   targethost |-> f.senderhost, targetip |-> f.senderip]

AnswerArp(h) ==
  /\ Processing(h, "arp")
  /\ frame[h].operation = 1 /\ frame[h].targetip = Ip[h]
  /\ send_frame(h, ArpAnswer(h, frame[h]))
  /\ Go(h, "learn")
  /\ UNCHANGED <<frame, arp, held, left>>

HearArp(h) ==
  /\ Processing(h, "arp")
  /\ frame[h].operation = 1 => frame[h].targetip # Ip[h]
  /\ Go(h, "learn")
  /\ UNCHANGED <<wire, frame, arp, held, left>>

(* The entry is filled in a copy: what reaches the table is a new, empty one. *)
update_arp(h) ==
  /\ pc[h] = "learn"
  /\ arp' = [arp EXCEPT ![h] = With(@, [ip \in {frame[h].senderip} |-> Nobody])]
  /\ Go(h, "release")
  /\ UNCHANGED <<wire, frame, held, left>>

ForUs(h) == frame[h].to \in {Ip[h], NetBroadcast, IP_BROADCAST}

EchoAnswer(h, f) ==
  LET m == [type |-> ECHORESPONSE, data |-> f.data]
  IN [kind |-> "icmp", from |-> Ip[h], to |-> f.from, type |-> m.type, data |-> m.data,
      checksum |-> internet_checksum_generate(Message(m))]

Asks_AnyEcho(f) == f.kind = "icmp"      \* mutant: answers are answered, too
Asks(f) == f.kind = "icmp" /\ f.type = ECHOREQUEST

AnswerEcho(h) ==
  /\ Processing(h, "icmp") /\ ForUs(h) /\ Asks(frame[h])
  /\ send_frame(h, EchoAnswer(h, frame[h]))
  /\ Go(h, "release")
  /\ UNCHANGED <<frame, arp, held, left>>

Ignore(h) ==
  /\ pc[h] = "process"
  /\ \/ ~Towards(h)
     \/ frame[h].kind = "udp"
     \/ frame[h].kind = "icmp" /\ ~(ForUs(h) /\ Asks(frame[h]))
  /\ Go(h, "release")
  /\ UNCHANGED <<wire, frame, arp, held, left>>

Turn(h) ==
  \/ Read(h) \/ Parsed(h) \/ OutOfMemory(h) \/ Release(h)
  \/ AnswerArp(h) \/ HearArp(h) \/ update_arp(h) \/ AnswerEcho(h) \/ Ignore(h)
Next == StrangerSends \/ \E h \in Host : Turn(h)
(* A process whose read has a frame, or that has one, runs on.              *)
Spec == Init /\ [][Next]_vars /\ \A h \in Host : WF_vars(Turn(h))

-----------------------------------------------------------------------------
Macs == {Mac[h] : h \in Host}
OnWire == UNION {ToSet(wire[h]) : h \in Host}

(* However strangers set the stacks upon one another, and whatever is lost,  *)
(* they come to rest: no answer is answered, and a frame sent to everyone is *)
(* not the start of a storm.                                                *)
WireFallsSilent == <>[](\A h \in Host : wire[h] = << >> /\ pc[h] = "read")

(* What a stack sends, a stack accepts: the checksum over a changed message  *)
(* is right again, whatever its words add up to.                            *)
SentParses == \A f \in OnWire : f.src \in Macs => Parses(f)

(* Whoever a stack has answered an ARP request of is in its table with an    *)
(* address, which is "All 0 when unused" (tunclient.cc:68) only, before the  *)
(* next frame is read.  It fails, and no run checks it: update_arp fills a   *)
(* copy of the entry.                                                       *)
LearnsWhomItAnswers ==
  \A f \in OnWire, h \in Host : f.kind = "arp" /\ f.src = Mac[h] =>
    \/ f.targetip \in DOMAIN arp[h] /\ arp[h][f.targetip] # Nobody
    \/ pc[h] = "learn" /\ frame[h].senderip = f.targetip
=============================================================================
