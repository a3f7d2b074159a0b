----------------------------- MODULE ZoneTable -----------------------------
(***************************************************************************)
(* The zone of the name server (examples/dns/server.c): zone_hashtable puts *)
(* the definitions of the zone file into an open-addressed hash table, and  *)
(* dns_respond probes it for each question.  A slot holds a definition by   *)
(* its number in the zone file; 0 is a null def.                            *)
(*                                                                         *)
(* Every turn of a probing loop is a step, because the loops end only at an *)
(* empty slot and the table of a zone of one definition has none.           *)
(***************************************************************************)
EXTENDS Naturals, Sequences

CONSTANTS Name,         \* the names: of definitions and of questions
          RRType,       \* "A", "NS", "MX", "CNAME" and the types the server does not know
          Hash,         \* domain_hash, the same function on the bytes of either
          Zones         \* the zone files

Definition == [name : Name, type : RRType, whole : BOOLEAN]
Question == [name : Name, type : RRType]

ASSUME ZoneAssumption ==
  /\ Hash \in [Name -> Nat]
  /\ Zones \subseteq Seq(Definition) \ {<< >>}      \* a zone is many1 definition

VARIABLES zone,         \* the definitions; whole: an address of at least four numbers
          table,        \* the slots
          inserted,     \* how many definitions are in it
          status,       \* "filling", "placing", "idle", "looking", "hit", "miss"
          entry,        \* the slot being probed
          query         \* the question

tableVars == <<zone, table, inserted, status, entry, query>>

-----------------------------------------------------------------------------
hashsize_Full(z) == Len(z)     \* mutant: no slot stays empty
hashsize(z) == (3 * Len(z)) \div 2
Slots == 0..(hashsize(zone) - 1)
Home(name) == Hash[name] % hashsize(zone)
Successor(e) == (e + 1) % hashsize(zone)

Unasked == [name |-> zone[1].name, type |-> zone[1].type]     \* while there is no question

TableInit ==
  /\ zone \in Zones
  /\ table = [s \in Slots |-> 0]
  /\ inserted = 0 /\ status = "filling" /\ entry = 0
  /\ query = Unasked

StartPlacing_NotModulo ==      \* mutant: the probe starts at the raw hash
  /\ status = "filling" /\ inserted < Len(zone)
  /\ entry' = Hash[zone[inserted + 1].name]
  /\ status' = "placing"
  /\ UNCHANGED <<zone, table, inserted, query>>
StartPlacing ==
  /\ status = "filling" /\ inserted < Len(zone)
  /\ entry' = Home(zone[inserted + 1].name)
  /\ status' = "placing"
  /\ UNCHANGED <<zone, table, inserted, query>>

PassTaken_Twice ==             \* mutant: a slot is skipped
  /\ status = "placing" /\ table[entry] # 0
  /\ entry' = Successor(Successor(entry))
  /\ UNCHANGED <<zone, table, inserted, status, query>>
PassTaken ==
  /\ status = "placing" /\ table[entry] # 0
  /\ entry' = Successor(entry)
  /\ UNCHANGED <<zone, table, inserted, status, query>>

Place_Backwards ==              \* mutant: definitions enter the table last to first
  /\ status = "placing" /\ table[entry] = 0
  /\ table' = [table EXCEPT ![entry] = Len(zone) - inserted]
  /\ inserted' = inserted + 1
  /\ status' = "filling"
  /\ UNCHANGED <<zone, entry, query>>
Place_Overwrites ==            \* mutant: the first probe does not look
  /\ status = "placing"
  /\ table' = [table EXCEPT ![entry] = inserted + 1]
  /\ inserted' = inserted + 1
  /\ status' = "filling"
  /\ UNCHANGED <<zone, entry, query>>
Place ==
  /\ status = "placing" /\ table[entry] = 0
  /\ table' = [table EXCEPT ![entry] = inserted + 1]
  /\ inserted' = inserted + 1
  /\ status' = "filling"
  /\ UNCHANGED <<zone, entry, query>>

Filled ==
  /\ status = "filling" /\ inserted = Len(zone)
  /\ status' = "idle" /\ entry' = 0
  /\ UNCHANGED <<zone, table, inserted, query>>

-----------------------------------------------------------------------------
(* dns_respond, for one question.  The hash is compared before the name; an *)
(* address of fewer than four numbers is passed over when the answer has    *)
(* been begun already, which only costs memory.                             *)
Answers(def, q) ==
  /\ Hash[def.name] = Hash[q.name]
  /\ def.name = q.name
  /\ def.type = "CNAME" \/ def.type = q.type
  /\ def.type = "A" => def.whole

Lookup(q) ==
  /\ status = "idle"
  /\ query' = q
  /\ entry' = Home(q.name)
  /\ status' = "looking"
  /\ UNCHANGED <<zone, table, inserted>>

PassOver ==
  /\ status = "looking" /\ table[entry] # 0
  /\ ~Answers(zone[table[entry]], query)
  /\ entry' = Successor(entry)
  /\ UNCHANGED <<zone, table, inserted, status, query>>

Found ==
  /\ status = "looking" /\ table[entry] # 0
  /\ Answers(zone[table[entry]], query)
  /\ status' = "hit"
  /\ UNCHANGED <<zone, table, inserted, entry, query>>

NotFound ==
  /\ status = "looking" /\ table[entry] = 0
  /\ status' = "miss"
  /\ UNCHANGED <<zone, table, inserted, entry, query>>

(* The caller goes on to its next question, or is left by a longjmp.       *)
LookupEnds ==
  /\ status \in {"looking", "hit", "miss"}
  /\ status' = "idle" /\ entry' = 0 /\ query' = Unasked
  /\ UNCHANGED <<zone, table, inserted>>

Fill == StartPlacing \/ PassTaken \/ Place \/ Filled
Probe == PassOver \/ Found \/ NotFound
TableNext == Fill \/ Probe \/ LookupEnds \/ \E q \in Question : Lookup(q)
TableSpec == TableInit /\ [][TableNext]_tableVars

-----------------------------------------------------------------------------
TableTypeOK ==
  /\ zone \in Zones
  /\ inserted \in 0..Len(zone)
  /\ table \in [Slots -> 0..inserted]
  /\ status \in {"filling", "placing", "idle", "looking", "hit", "miss"}
  /\ entry \in Slots \cup {0}
  /\ query \in Question

(* The slots a probe that started at h has passed when it is at e.          *)
Passed(h, e) == IF h <= e THEN h..(e - 1) ELSE (h..(hashsize(zone) - 1)) \cup (0..(e - 1))
HomeOf(s) == Home(zone[table[s]].name)
Taken(s) == table[s] # 0

(* Probing finds what was placed: between a definition's home and its slot  *)
(* every slot is taken, so no probe for its name stops short of it; of two  *)
(* definitions of one name the earlier one is met first.                    *)
ProbeReaches ==
  \A s \in Slots : Taken(s) =>
    /\ \A t \in Passed(HomeOf(s), s) : Taken(t)
    /\ \A t \in Slots :
         Taken(t) /\ table[t] < table[s] /\ zone[table[t]].name = zone[table[s]].name
           => t \in Passed(HomeOf(s), s)

(* Every definition that was inserted is in exactly one slot.               *)
EachPlacedOnce ==
  /\ \A d \in 1..inserted : \E s \in Slots : table[s] = d
  /\ \A s, t \in Slots : Taken(s) /\ table[s] = table[t] => s = t

(* The table implements the name service: what it answers a question with   *)
(* is the first definition of the zone that fits.                           *)
Service == INSTANCE NameService WITH
  phase <- IF status \in {"filling", "placing"} THEN "loading"
           ELSE IF status = "idle" THEN "ready"
           ELSE IF status = "looking" THEN "asked"
           ELSE status,
  asked <- query,
  answer <- IF status = "hit" THEN table[entry] ELSE 0
ServesNames == Service!Spec
=============================================================================
