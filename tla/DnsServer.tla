----------------------------- MODULE DnsServer -----------------------------
(***************************************************************************)
(* The name server (examples/dns/server.c): main loads the zone, then takes *)
(* one packet at a time: parse_dnspacket, which decompresses every name     *)
(* (DnsCompress.tla), dns_respond, which looks every question up in the     *)
(* zone's table (ZoneTable.tla), sendto.  An arena that runs out of memory  *)
(* jumps back to the top of the loop.                                       *)
(*                                                                         *)
(* A packet is the number of questions its header announces and the bytes   *)
(* behind the header; a question is a name and one byte for its type.       *)
(***************************************************************************)
EXTENDS ZoneTable, DnsCompress, FiniteSets

CONSTANTS Packets,      \* the packets that may arrive: [count, data]
          QType         \* the type each byte asks for, for the bytes that name one

ASSUME PacketAssumption ==
  /\ Radix \in Nat \ {0} /\ Radix % 4 = 0
  /\ Packets \subseteq [count : Nat, data : Seq(0..(Radix - 1))]
  /\ \A b \in DOMAIN QType : QType[b] \in RRType

VARIABLES pc,           \* "load", "recv", "parse", "name", "respond", "lookup", "send"
          count,        \* question count of the packet
          questions,    \* of the message parsed so far
          responses,    \* the response's: definitions, one for each question
          rcode,
          held          \* allocations of this turn that have not been released
serverVars == <<msg, pc, count, questions, responses, rcode, held>>
vars == <<tableVars, nameVars, serverVars>>

MaxLabel == Radix \div 4

-----------------------------------------------------------------------------
(* labels, on the decompressed stream: labels of 1 to 64 bytes up to a zero. *)
LabelsOf(bytes) ==
  LET from[i \in 1..(Len(bytes) + 1)] ==
        IF i > Len(bytes) THEN [ok |-> FALSE]
        ELSE IF bytes[i] = 0 THEN [ok |-> TRUE, labels |-> << >>]
        ELSE IF bytes[i] > MaxLabel \/ i + bytes[i] > Len(bytes) THEN [ok |-> FALSE]
        ELSE LET r == from[i + bytes[i] + 1]
             IN IF r.ok THEN [r EXCEPT !.labels = <<SubSeq(bytes, i + 1, i + bytes[i])>> \o @] ELSE r
  IN from[1]

Init ==
  /\ TableInit /\ NameInit
  /\ pc = "load" /\ msg = << >> /\ count = 0 /\ questions = << >>
  /\ responses = << >> /\ rcode = 0 /\ held = {}

LoadZone ==
  /\ pc = "load"
  /\ Fill
  /\ pc' = IF status' = "idle" THEN "recv" ELSE "load"
  /\ UNCHANGED <<nameVars, msg, count, questions, responses, rcode, held>>

(* What a turn of the loop leaves: its locals go, its allocations stay.     *)
TurnEnds(left) ==
  /\ pc' = "recv" /\ held' = left
  /\ msg' = << >> /\ count' = 0 /\ questions' = << >> /\ responses' = << >> /\ rcode' = 0
  /\ loop' = "idle" /\ begin' = 0 /\ pos' = 0 /\ cur' = 0 /\ first' = TRUE /\ size' = 0 /\ out' = << >>

(* recvfrom; setjmp; the arena and the output stream.                       *)
Receive ==
  /\ pc = "recv"
  /\ \E p \in Packets : msg' = p.data /\ count' = p.count
  /\ held' = {"arena", "out"}
  /\ pc' = "parse"
  /\ UNCHANGED <<tableVars, nameVars, questions, responses, rcode>>

(* parse_dnspacket.                                                        *)
ParseName ==
  /\ pc = "parse" /\ Len(questions) < count
  /\ dnscompress_parse
  /\ pc' = "name"
  /\ UNCHANGED <<tableVars, count, questions, responses, rcode, held>>
ParsingName ==
  /\ pc = "name"
  /\ FollowName
  /\ UNCHANGED <<tableVars, pc, count, questions, responses, rcode, held>>

QuestionOK == LabelsOf(out).ok /\ Inside(cur) /\ Byte(cur) \in DOMAIN QType
ParsedQuestion ==
  /\ pc = "name" /\ loop = "done" /\ QuestionOK
  /\ questions' = Append(questions, [name |-> LabelsOf(out).labels, type |-> QType[Byte(cur)]])
  /\ cur' = cur + 1
  /\ loop' = "idle" /\ pc' = "parse"
  /\ UNCHANGED <<tableVars, msg, begin, pos, first, size, out, count, responses, rcode, held>>

(* "Invalid packet; ignoring": arena and out are not released.              *)
BadQuestion == pc = "name" /\ (loop = "failed" \/ (loop = "done" /\ ~QuestionOK))
BadEnd == pc = "parse" /\ Len(questions) = count /\ cur # Len(msg)
Ignore ==
  /\ BadQuestion \/ BadEnd
  /\ TurnEnds(held)
  /\ UNCHANGED tableVars

ParsedMessage ==
  /\ pc = "parse" /\ Len(questions) = count /\ cur = Len(msg)
  /\ pc' = "respond"
  /\ UNCHANGED <<tableVars, nameVars, msg, count, questions, responses, rcode, held>>

-----------------------------------------------------------------------------
(* dns_respond.                                                            *)
RespondTo ==
  /\ pc = "respond" /\ Len(responses) < count
  /\ Lookup(questions[Len(responses) + 1])
  /\ pc' = "lookup"
  /\ UNCHANGED <<nameVars, msg, count, questions, responses, rcode, held>>
Probing ==
  /\ pc = "lookup"
  /\ Probe
  /\ UNCHANGED <<nameVars, serverVars>>

(* What is not an address has its data in an output stream nobody releases. *)
Success ==
  /\ pc = "lookup" /\ status = "hit"
  /\ responses' = Append(responses, table[entry])
  /\ held' = IF zone[table[entry]].type = "A" THEN held ELSE held \cup {"rdata"}
  /\ LookupEnds
  /\ pc' = "respond"
  /\ UNCHANGED <<nameVars, msg, count, questions, rcode>>

(* One question without an answer: no responses, NXDOMAIN.                  *)
NoAnswer_KeepsOthers ==         \* mutant: the answers found so far stay
  /\ pc = "lookup" /\ status = "miss"
  /\ rcode' = 3
  /\ LookupEnds
  /\ pc' = "send"
  /\ UNCHANGED <<nameVars, msg, count, questions, responses, held>>
NoAnswer ==
  /\ pc = "lookup" /\ status = "miss"
  /\ responses' = << >> /\ rcode' = 3
  /\ LookupEnds
  /\ pc' = "send"
  /\ UNCHANGED <<nameVars, msg, count, questions, held>>

Responded ==
  /\ pc = "respond" /\ Len(responses) = count
  /\ pc' = "send"
  /\ UNCHANGED <<tableVars, nameVars, msg, count, questions, responses, rcode, held>>

Send ==
  /\ pc = "send"
  /\ TurnEnds(held \ {"arena", "out"})
  /\ UNCHANGED tableVars

(* n_malloc finds no memory for a name, a message, an answer: the arena is  *)
(* released, the output stream is not, and whatever was going on is left.   *)
OutOfMemory ==
  /\ pc \in {"parse", "name", "respond", "lookup"}
  /\ TurnEnds(held \ {"arena"})
  /\ LookupEnds \/ (status = "idle" /\ UNCHANGED tableVars)

Parse == ParseName \/ ParsingName \/ ParsedQuestion \/ Ignore \/ ParsedMessage
Respond == RespondTo \/ Probing \/ Success \/ NoAnswer \/ Responded
Next == LoadZone \/ Receive \/ Parse \/ Respond \/ Send \/ OutOfMemory

(* The process runs: a turn that can go on does.  Packets need not arrive.  *)
Fairness == WF_vars(LoadZone) /\ WF_vars(Parse) /\ WF_vars(Respond) /\ WF_vars(Send)
Spec == Init /\ [][Next]_vars /\ Fairness

-----------------------------------------------------------------------------
(* What is sent answers each question, in order, with a definition that fits *)
(* it, or says NXDOMAIN and answers none, when one of them has no answer.    *)
Fitting(q) == {d \in DOMAIN zone : Service!Fits(zone[d], q)}
AnswersAllOrNone ==
  pc = "send" =>
    IF \A i \in DOMAIN questions : Fitting(questions[i]) # {}
    THEN /\ rcode = 0 /\ Len(responses) = count
         /\ \A i \in DOMAIN responses : responses[i] \in Fitting(questions[i])
    ELSE rcode = 3 /\ responses = << >>

(* Every packet that arrives is done with, one way or another: no name, no  *)
(* probe holds the server up.  Names must end, which the RFC asks of them,  *)
(* and the zone must have a second definition.                              *)
NamesEnd == \A p \in 0..(Len(msg) - 1) : NameAt(p, p).prior
EveryPacketEnds == (pc = "parse" /\ NamesEnd /\ Len(zone) > 1) ~> (pc = "recv")
=============================================================================
