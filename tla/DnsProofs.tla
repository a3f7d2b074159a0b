----------------------------- MODULE DnsProofs -----------------------------
(***************************************************************************)
(* For every zone, every hash function and every number of definitions:     *)
(* the hash table of the name server (ZoneTable.tla) keeps every definition *)
(* within reach of its probes, and implements the name service.             *)
(* For every packet, every zone and every number of byte values: the loop   *)
(* of dnscompress_parse that copies a name (DnsCompress.tla) reads no byte  *)
(* outside the message and writes none behind what the loop before it       *)
(* measured, whatever the name server (DnsServer.tla) does in between.  And  *)
(* what the server sends for a message answers all of its questions or none, *)
(* from a table that serves names as it should; and a name is decompressed   *)
(* to its labels, wherever the code's offsets are those of the RFC.          *)
(***************************************************************************)
EXTENDS DnsServer, Arithmetic, SequenceTheorems

-----------------------------------------------------------------------------
(* The hash table.                                                         *)

(* While a definition is being placed, and while a question is looked up,   *)
(* every slot the probe has passed is taken; what was passed over does not  *)
(* answer; a probe that ends at an empty slot has missed nothing.           *)
PlacingInv ==
  status = "placing" =>
    /\ inserted < Len(zone)
    /\ entry \in Slots
    /\ \A t \in Passed(Home(zone[inserted + 1].name), entry) : Taken(t)
LookingInv ==
  status \in {"looking", "hit"} =>
    /\ entry \in Slots
    /\ \A t \in Passed(Home(query.name), entry) : Taken(t) /\ ~Answers(zone[table[t]], query)
HitInv == status = "hit" => Taken(entry) /\ Answers(zone[table[entry]], query)
MissInv == status = "miss" => \A d \in 1..Len(zone) : ~Answers(zone[d], query)
LoadedInv == status \notin {"filling", "placing"} => inserted = Len(zone)

TableInv ==
  /\ TableTypeOK /\ ProbeReaches /\ EachPlacedOnce
  /\ PlacingInv /\ LookingInv /\ HitInv /\ MissInv /\ LoadedInv

-----------------------------------------------------------------------------
LEMMA SlotArithmetic ==
  ASSUME NEW n \in Nat \ {0}
  PROVE  /\ \A x \in Nat : x % n \in 0..(n - 1)
         /\ \A e \in 0..(n - 1) : (e + 1) % n = IF e + 1 = n THEN 0 ELSE e + 1
  OBVIOUS

LEMMA ZoneFacts ==
  ASSUME zone \in Zones
  PROVE  /\ zone \in Seq(Definition) /\ Len(zone) \in Nat \ {0}
         /\ hashsize(zone) \in Nat \ {0}
         /\ \A d \in 1..Len(zone) : zone[d] \in Definition
         /\ \A name \in Name : Home(name) \in Slots
         /\ 0 \in Slots
         /\ Unasked \in Question
<1>1. zone \in Seq(Definition) /\ Len(zone) \in Nat \ {0}
  BY ZoneAssumption
<1>2. hashsize(zone) \in Nat \ {0}
  BY <1>1 DEF hashsize
<1>3. \A d \in 1..Len(zone) : zone[d] \in Definition
  BY <1>1
<1>4. \A name \in Name : Home(name) \in Slots
  BY <1>2, ZoneAssumption, SlotArithmetic DEF Home, Slots
<1>5. Unasked \in Question
  BY <1>1, <1>3 DEF Unasked, Question, Definition
<1> QED BY <1>1, <1>2, <1>3, <1>4, <1>5 DEF Slots

(* The probe sequence from a home: it starts with nothing passed, a turn of *)
(* the loop passes one more slot, and of two slots one comes first.         *)
LEMMA ProbeSequence ==
  ASSUME zone \in Zones, NEW h \in Slots, NEW e \in Slots
  PROVE  /\ Passed(h, h) = {}
         /\ Successor(e) \in Slots
         /\ Passed(h, Successor(e)) \subseteq Passed(h, e) \cup {e}
         /\ Passed(h, e) \subseteq Slots
         /\ \A s \in Slots : e # s => e \in Passed(h, s) \/ s \in Passed(h, e)
<1> DEFINE n == hashsize(zone)
<1>1. n \in Nat \ {0}
  BY ZoneFacts
<1>2. Successor(e) = IF e + 1 = n THEN 0 ELSE e + 1
  BY <1>1, SlotArithmetic DEF Successor, Slots
<1> QED BY <1>1, <1>2 DEF Passed, Slots

-----------------------------------------------------------------------------
LEMMA InitTable == TableInit => TableInv
<1> SUFFICES ASSUME TableInit PROVE TableInv
  OBVIOUS
<1> USE DEF TableInit
<1>1. TableTypeOK
  BY ZoneFacts DEF TableTypeOK, Slots
<1>2. ProbeReaches /\ EachPlacedOnce
  BY DEF ProbeReaches, EachPlacedOnce, Taken, Slots
<1> QED BY <1>1, <1>2 DEF TableInv, PlacingInv, LookingInv, HitInv, MissInv, LoadedInv

LEMMA StartPlacingKeeps == TableInv /\ StartPlacing => TableInv'
<1> SUFFICES ASSUME TableInv, StartPlacing PROVE TableInv'
  OBVIOUS
<1> USE DEF StartPlacing
<1> DEFINE h == Home(zone[inserted + 1].name)
<1>1. TableTypeOK /\ zone \in Zones
  BY DEF TableInv, TableTypeOK
<1>2. h \in Slots
  BY <1>1, ZoneFacts DEF TableTypeOK, Definition
<1>3. TableTypeOK'
  BY <1>1, <1>2 DEF TableTypeOK, Slots
<1>4. PlacingInv'
  BY <1>1, <1>2, ProbeSequence DEF PlacingInv, Home, Slots, Passed, Taken
<1>5. (ProbeReaches /\ EachPlacedOnce)'
  BY DEF TableInv, ProbeReaches, EachPlacedOnce, Taken, HomeOf, Home, Slots, Passed
<1> QED BY <1>3, <1>4, <1>5 DEF TableInv, LookingInv, HitInv, MissInv, LoadedInv

(* The facts about the table that only Place changes. *)
LEMMA TableKeeps ==
  ASSUME ProbeReaches, EachPlacedOnce, UNCHANGED <<zone, table, inserted>>
  PROVE  ProbeReaches' /\ EachPlacedOnce'
  BY DEF ProbeReaches, EachPlacedOnce, Taken, HomeOf, Home, Slots, Passed

LEMMA PassTakenKeeps == TableInv /\ PassTaken => TableInv'
<1> SUFFICES ASSUME TableInv, PassTaken PROVE TableInv'
  OBVIOUS
<1> USE DEF PassTaken
<1> DEFINE h == Home(zone[inserted + 1].name)
<1>1. /\ TableTypeOK /\ zone \in Zones /\ inserted < Len(zone) /\ inserted \in Nat
      /\ entry \in Slots
  BY ZoneFacts DEF TableInv, TableTypeOK, PlacingInv
<1>2. h \in Slots
  BY <1>1, ZoneFacts DEF Definition
<1>3. Successor(entry) \in Slots /\ Passed(h, Successor(entry)) \subseteq Passed(h, entry) \cup {entry}
  BY <1>1, <1>2, ProbeSequence
<1>4. TableTypeOK'
  BY <1>1, <1>3 DEF TableTypeOK, Slots
<1>5. \A t \in Passed(h, Successor(entry)) : Taken(t)
  BY <1>3 DEF TableInv, PlacingInv, Taken
<1>6. PlacingInv'
  BY <1>1, <1>3, <1>5 DEF PlacingInv, Taken, Home, Slots, Passed
<1>7. (ProbeReaches /\ EachPlacedOnce)'
  BY TableKeeps DEF TableInv
<1> QED BY <1>4, <1>6, <1>7 DEF TableInv, LookingInv, HitInv, MissInv, LoadedInv

LEMMA PlaceKeeps == TableInv /\ Place => TableInv'
<1> SUFFICES ASSUME TableInv, Place PROVE TableInv'
  OBVIOUS
<1> USE DEF Place
<1> DEFINE new == inserted + 1
           h == Home(zone[new].name)
<1>1. /\ TableTypeOK /\ zone \in Zones /\ inserted < Len(zone) /\ entry \in Slots
      /\ inserted \in Nat /\ table \in [Slots -> 0..inserted] /\ ~Taken(entry)
  BY ZoneFacts DEF TableInv, TableTypeOK, PlacingInv, Taken
<1>2. h \in Slots
  <2>1. new \in 1..Len(zone)
    <3>1. Len(zone) \in Nat /\ inserted \in Nat /\ inserted < Len(zone)
      BY <1>1, ZoneFacts
    <3> QED BY <3>1
  <2>2. zone[new].name \in Name
    <3>1. zone[new] \in Definition
      BY <1>1, <2>1, ZoneFacts
    <3> QED BY <3>1 DEF Definition
  <2>3. Home(zone[new].name) \in Slots
    BY <1>1, <2>2, ZoneFacts
  <2> QED BY <2>3
<1>3. zone' = zone /\ inserted' = new /\ table' = [table EXCEPT ![entry] = new]
  BY <1>1
<1>4. TableTypeOK'
  BY <1>1, <1>3, ZoneFacts DEF TableTypeOK, Slots
<1>5. \A s \in Slots : Taken(s)' <=> (Taken(s) \/ s = entry)
  BY <1>1, <1>3 DEF Taken
<1>6. \A s \in Slots : Taken(s) => s # entry /\ table'[s] = table[s] /\ HomeOf(s)' = HomeOf(s)
  BY <1>1, <1>3 DEF Taken, HomeOf, Home
<1>7. table'[entry] = new /\ HomeOf(entry)' = h
  BY <1>1, <1>3 DEF HomeOf, Home
<1>8. \A a, b : Passed(a, b)' = Passed(a, b)
  BY <1>3 DEF Passed
<1>9. \A t \in Passed(h, entry) : Taken(t)
  BY DEF TableInv, PlacingInv
<1>10. ProbeReaches'
  <2> SUFFICES ASSUME NEW s \in Slots, Taken(s)'
               PROVE  /\ \A t \in Passed(HomeOf(s)', s) : Taken(t)'
                      /\ \A t \in Slots :
                           Taken(t)' /\ table'[t] < table'[s]
                             /\ zone[table'[t]].name = zone[table'[s]].name
                           => t \in Passed(HomeOf(s)', s)
    BY <1>3, <1>8 DEF ProbeReaches, Slots
  <2>1. CASE s = entry
    <3>1. \A t \in Passed(h, entry) : Taken(t)'
      BY <1>1, <1>2, <1>5, <1>9, ProbeSequence
    <3>2. ASSUME NEW t \in Slots, Taken(t)', table'[t] < new,
                 zone[table'[t]].name = zone[new].name
          PROVE  t \in Passed(h, entry)
      <4>1. t # entry /\ Taken(t) /\ table'[t] = table[t]
        BY <3>2, <1>5, <1>6, <1>7, <1>1
      <4>2. HomeOf(t) = h
        BY <3>2, <4>1 DEF HomeOf, Home
      <4>3. entry \notin Passed(h, t)
        BY <4>1, <4>2, <1>1 DEF TableInv, ProbeReaches
      <4> QED BY <4>1, <4>3, <1>1, <1>2, ProbeSequence
    <3> QED BY <2>1, <3>1, <3>2, <1>7
  <2>2. CASE s # entry
    <3>1. Taken(s) /\ table'[s] = table[s] /\ HomeOf(s)' = HomeOf(s) /\ HomeOf(s) \in Slots
      <4>1. Taken(s)
        BY <2>2, <1>5
      <4>2. table[s] \in 1..Len(zone)
        BY <4>1, <1>1, ZoneFacts DEF Taken
      <4> QED BY <4>1, <4>2, <1>6, <1>1, ZoneFacts DEF HomeOf, Definition
    <3>2. \A t \in Passed(HomeOf(s), s) : Taken(t)'
      BY <3>1, <1>1, <1>5, ProbeSequence DEF TableInv, ProbeReaches
    <3>3. ASSUME NEW t \in Slots, Taken(t)', table'[t] < table[s],
                 zone[table'[t]].name = zone[table[s]].name
          PROVE  t \in Passed(HomeOf(s), s)
      <4>1. t # entry
        BY <3>3, <1>1, <1>7
      <4>2. Taken(t) /\ table'[t] = table[t]
        BY <3>3, <4>1, <1>5, <1>6
      <4> QED BY <3>1, <3>3, <4>2 DEF TableInv, ProbeReaches
    <3> QED BY <3>1, <3>2, <3>3
  <2> QED BY <2>1, <2>2
<1>11. EachPlacedOnce'
  <2>1. ASSUME NEW d \in 1..new PROVE \E s \in Slots : table'[s] = d
    <3>1. CASE d = new
      BY <3>1, <1>1, <1>7
    <3>2. CASE d # new
      <4>1. PICK s \in Slots : table[s] = d
        BY <3>2, <1>1 DEF TableInv, EachPlacedOnce
      <4>2. Taken(s)
        BY <4>1 DEF Taken
      <4> QED BY <4>1, <4>2, <1>6
    <3> QED BY <3>1, <3>2
  <2>2. ASSUME NEW s \in Slots, NEW t \in Slots, Taken(s)', table'[s] = table'[t]
        PROVE  s = t
    <3>1. table[s] # new /\ table[t] # new
      BY <1>1
    <3>2. s = entry <=> t = entry
      BY <2>2, <3>1, <1>1, <1>3
    <3>3. s # entry => Taken(s) /\ table[s] = table[t]
      BY <2>2, <3>2, <1>1, <1>3, <1>5
    <3> QED BY <3>2, <3>3 DEF TableInv, EachPlacedOnce
  <2> QED BY <2>1, <2>2, <1>3 DEF EachPlacedOnce, Slots
<1> QED BY <1>4, <1>10, <1>11 DEF TableInv, PlacingInv, LookingInv, HitInv, MissInv, LoadedInv

LEMMA FilledKeeps == TableInv /\ Filled => TableInv'
<1> SUFFICES ASSUME TableInv, Filled PROVE TableInv'
  OBVIOUS
<1> USE DEF Filled
<1>1. TableTypeOK'
  BY DEF TableInv, TableTypeOK, Slots
<1>2. (ProbeReaches /\ EachPlacedOnce)'
  BY TableKeeps DEF TableInv
<1> QED BY <1>1, <1>2 DEF TableInv, PlacingInv, LookingInv, HitInv, MissInv, LoadedInv

LEMMA LookupKeeps == ASSUME NEW q \in Question PROVE TableInv /\ Lookup(q) => TableInv'
<1> SUFFICES ASSUME TableInv, Lookup(q) PROVE TableInv'
  OBVIOUS
<1> USE DEF Lookup
<1>1. TableTypeOK /\ zone \in Zones /\ inserted = Len(zone)
  BY DEF TableInv, TableTypeOK, LoadedInv
<1>2. Home(q.name) \in Slots
  BY <1>1, ZoneFacts DEF Question
<1>3. TableTypeOK'
  BY <1>1, <1>2 DEF TableTypeOK, Slots
<1>4. LookingInv'
  BY <1>1, <1>2, ProbeSequence DEF LookingInv, Home, Slots, Passed
<1>5. (ProbeReaches /\ EachPlacedOnce)'
  BY TableKeeps DEF TableInv
<1> QED BY <1>1, <1>3, <1>4, <1>5 DEF TableInv, PlacingInv, HitInv, MissInv, LoadedInv

LEMMA PassOverKeeps == TableInv /\ PassOver => TableInv'
<1> SUFFICES ASSUME TableInv, PassOver PROVE TableInv'
  OBVIOUS
<1> USE DEF PassOver
<1> DEFINE h == Home(query.name)
<1>1. TableTypeOK /\ zone \in Zones /\ entry \in Slots /\ inserted = Len(zone)
  BY DEF TableInv, TableTypeOK, LookingInv, LoadedInv
<1>2. h \in Slots
  BY <1>1, ZoneFacts DEF TableTypeOK, Question
<1>3. Successor(entry) \in Slots /\ Passed(h, Successor(entry)) \subseteq Passed(h, entry) \cup {entry}
  BY <1>1, <1>2, ProbeSequence
<1>4. TableTypeOK'
  BY <1>1, <1>3 DEF TableTypeOK, Slots
<1>5. \A t \in Passed(h, Successor(entry)) : Taken(t) /\ ~Answers(zone[table[t]], query)
  BY <1>3 DEF TableInv, LookingInv, Taken
<1>6. LookingInv'
  BY <1>3, <1>5 DEF LookingInv, Taken, Answers, Home, Slots, Passed
<1>7. (ProbeReaches /\ EachPlacedOnce)'
  BY TableKeeps DEF TableInv
<1> QED BY <1>1, <1>4, <1>6, <1>7 DEF TableInv, PlacingInv, HitInv, MissInv, LoadedInv

LEMMA FoundKeeps == TableInv /\ Found => TableInv'
<1> SUFFICES ASSUME TableInv, Found PROVE TableInv'
  OBVIOUS
<1> USE DEF Found
<1>1. TableTypeOK'
  BY DEF TableInv, TableTypeOK, Slots
<1>2. (ProbeReaches /\ EachPlacedOnce)'
  BY TableKeeps DEF TableInv
<1>3. LookingInv' /\ HitInv'
  BY DEF TableInv, LookingInv, HitInv, Taken, Answers, Home, Slots, Passed
<1> QED BY <1>1, <1>2, <1>3 DEF TableInv, PlacingInv, MissInv, LoadedInv

(* The probe's slot is empty: no definition that answers can lie behind it. *)
LEMMA EmptySlotMeansNone ==
  ASSUME TableInv, status = "looking", table[entry] = 0
  PROVE  \A d \in 1..Len(zone) : ~Answers(zone[d], query)
<1> SUFFICES ASSUME NEW d \in 1..Len(zone), Answers(zone[d], query) PROVE FALSE
  OBVIOUS
<1> DEFINE h == Home(query.name)
<1>1. /\ TableTypeOK /\ zone \in Zones /\ entry \in Slots /\ inserted = Len(zone)
      /\ ~Taken(entry)
  BY DEF TableInv, TableTypeOK, LookingInv, LoadedInv, Taken
<1>2. h \in Slots
  BY <1>1, ZoneFacts DEF TableTypeOK, Question
<1>3. PICK s \in Slots : table[s] = d
  BY <1>1 DEF TableInv, EachPlacedOnce
<1>4. Taken(s) /\ HomeOf(s) = h /\ s # entry
  BY <1>1, <1>3 DEF Taken, HomeOf, Answers
<1>5. entry \notin Passed(h, s)
  BY <1>1, <1>4 DEF TableInv, ProbeReaches
<1>6. s \in Passed(h, entry)
  BY <1>1, <1>2, <1>4, <1>5, ProbeSequence
<1> QED BY <1>3, <1>6 DEF TableInv, LookingInv

LEMMA NotFoundKeeps == TableInv /\ NotFound => TableInv'
<1> SUFFICES ASSUME TableInv, NotFound PROVE TableInv'
  OBVIOUS
<1> USE DEF NotFound
<1>1. TableTypeOK'
  BY DEF TableInv, TableTypeOK, Slots
<1>2. (ProbeReaches /\ EachPlacedOnce)'
  BY TableKeeps DEF TableInv
<1>3. MissInv'
  BY EmptySlotMeansNone DEF MissInv, Answers
<1> QED BY <1>1, <1>2, <1>3 DEF TableInv, PlacingInv, LookingInv, HitInv, LoadedInv

LEMMA LookupEndsKeeps == TableInv /\ LookupEnds => TableInv'
<1> SUFFICES ASSUME TableInv, LookupEnds PROVE TableInv'
  OBVIOUS
<1> USE DEF LookupEnds
<1>1. TableTypeOK'
  BY ZoneFacts DEF TableInv, TableTypeOK, Slots
<1>2. (ProbeReaches /\ EachPlacedOnce)'
  BY TableKeeps DEF TableInv
<1> QED BY <1>1, <1>2 DEF TableInv, PlacingInv, LookingInv, HitInv, MissInv, LoadedInv

LEMMA StutterKeeps == TableInv /\ UNCHANGED tableVars => TableInv'
  BY DEF TableInv, tableVars, TableTypeOK, ProbeReaches, EachPlacedOnce, PlacingInv, LookingInv,
         HitInv, MissInv, LoadedInv, Taken, HomeOf, Home, Slots, Passed, Answers

LEMMA NextKeeps == TableInv /\ [TableNext]_tableVars => TableInv'
  BY StartPlacingKeeps, PassTakenKeeps, PlaceKeeps, FilledKeeps, LookupKeeps, PassOverKeeps,
     FoundKeeps, NotFoundKeeps, LookupEndsKeeps, StutterKeeps DEF TableNext, Fill, Probe

-----------------------------------------------------------------------------
(* The inductive invariant holds in every state of the table.              *)
THEOREM TableInvariant == TableSpec => []TableInv
  BY InitTable, NextKeeps, PTL DEF TableSpec

(* The table's variables keep their types: no slot outside the table is     *)
(* probed, no slot names a definition that has not been inserted.           *)
THEOREM TableTypes == TableSpec => []TableTypeOK
<1>1. TableInv => TableTypeOK
  BY DEF TableInv
<1> QED BY <1>1, TableInvariant, PTL

(* Whatever collides, every definition stays within reach of its probes,    *)
(* the earlier ones of a name first.                                        *)
THEOREM DefinitionsReachable == TableSpec => []ProbeReaches
<1>1. TableInv => ProbeReaches
  BY DEF TableInv
<1> QED BY <1>1, TableInvariant, PTL

(* No definition is lost or entered twice.                                 *)
THEOREM DefinitionsPlaced == TableSpec => []EachPlacedOnce
<1>1. TableInv => EachPlacedOnce
  BY DEF TableInv
<1> QED BY <1>1, TableInvariant, PTL

-----------------------------------------------------------------------------
(* The hash says nothing the names do not: what the probe takes for an      *)
(* answer is what the service calls one.                                    *)
LEMMA AnswersAreFitting ==
  \A d \in DOMAIN zone : Answers(zone[d], query) <=> d \in Service!Fitting(query)
  BY DEF Answers, Service!Fitting, Service!Fits

(* Where a probe stops, nothing of the zone that fits comes before it.      *)
LEMMA FirstIsFound ==
  ASSUME TableInv, status = "looking", Taken(entry), Answers(zone[table[entry]], query),
         NEW d \in DOMAIN zone, Answers(zone[d], query)
  PROVE  table[entry] <= d
<1> SUFFICES ASSUME d < table[entry] PROVE FALSE
  <2>1. /\ TableTypeOK /\ entry \in Slots /\ zone \in Zones
    BY DEF TableInv, TableTypeOK, LookingInv
  <2>2. table[entry] \in Nat /\ d \in Nat
    BY <2>1, ZoneFacts DEF TableTypeOK
  <2> QED BY <2>2
<1> DEFINE h == Home(query.name)
<1>1. /\ TableTypeOK /\ zone \in Zones /\ entry \in Slots /\ inserted = Len(zone)
  BY DEF TableInv, TableTypeOK, LookingInv, LoadedInv
<1>2. h \in Slots
  BY <1>1, ZoneFacts DEF TableTypeOK, Question
<1>3. d \in 1..Len(zone)
  BY <1>1, ZoneFacts
<1>4. PICK s \in Slots : table[s] = d
  BY <1>1, <1>3 DEF TableInv, EachPlacedOnce
<1>5. Taken(s) /\ s # entry /\ HomeOf(entry) = h
  BY <1>1, <1>3, <1>4 DEF Taken, HomeOf, Answers
<1>6. zone[table[s]].name = zone[table[entry]].name
  BY <1>4 DEF Answers
<1>7. s \in Passed(h, entry)
  BY <1>1, <1>4, <1>5, <1>6 DEF TableInv, ProbeReaches
<1> QED BY <1>4, <1>7 DEF TableInv, LookingInv

LEMMA ServiceInit == TableInit => Service!Init
<1> SUFFICES ASSUME TableInit PROVE Service!Init
  OBVIOUS
<1>1. zone \in Seq(Service!Definition) \ {<< >>}
  BY ZoneAssumption DEF TableInit, Definition, Service!Definition
<1> QED BY <1>1 DEF TableInit, Service!Init, Service!Unasked, Unasked

LEMMA ServiceStep ==
  TableInv /\ TableInv' /\ [TableNext]_tableVars => [Service!Next]_(Service!vars)
<1> SUFFICES ASSUME TableInv, TableInv', [TableNext]_tableVars
             PROVE  Service!Next \/ UNCHANGED Service!vars
  OBVIOUS
<1>1. CASE StartPlacing \/ PassTaken \/ Place \/ PassOver
  BY <1>1 DEF StartPlacing, PassTaken, Place, PassOver, Service!vars
<1>2. CASE Filled
  BY <1>2 DEF Filled, Service!Next, Service!Load
<1>3. CASE \E q \in Question : Lookup(q)
  <2>1. query' \in Service!Question
    BY <1>3 DEF Lookup, Question, Service!Question
  <2> QED BY <1>3, <2>1 DEF Lookup, Service!Next, Service!Ask
<1>4. CASE Found
  <2>1. table[entry] \in DOMAIN zone
    BY <1>4, ZoneFacts DEF Found, TableInv, TableTypeOK, LookingInv
  <2>2. table[entry] \in Service!Fitting(query)
    BY <1>4, <2>1, AnswersAreFitting DEF Found
  <2>3. \A d \in Service!Fitting(query) : table[entry] <= d
    BY <1>4, FirstIsFound, AnswersAreFitting DEF Found, Taken, Service!Fitting
  <2> QED BY <1>4, <2>2, <2>3 DEF Found, Service!Next, Service!Hit
<1>5. CASE NotFound
  <2>1. zone \in Seq(Definition) /\ DOMAIN zone = 1..Len(zone)
    BY ZoneFacts DEF TableInv, TableTypeOK
  <2>2. Service!Fitting(query) = {}
    BY <1>5, <2>1, EmptySlotMeansNone, AnswersAreFitting DEF NotFound, Service!Fitting
  <2> QED BY <1>5, <2>2 DEF NotFound, Service!Next, Service!Miss
<1>6. CASE LookupEnds
  BY <1>6 DEF LookupEnds, Service!Next, Service!Done, Service!Unasked, Unasked
<1>7. CASE UNCHANGED tableVars
  BY <1>7 DEF tableVars, Service!vars
<1> QED BY <1>1, <1>2, <1>3, <1>4, <1>5, <1>6, <1>7 DEF TableNext, Fill, Probe

(* The hash table implements the name service: for every zone and every     *)
(* hash function a question is answered with the first definition of the    *)
(* zone file that fits it, and goes unanswered only if none does.           *)
THEOREM TableServesNames == TableSpec => ServesNames
<1>1. TableInit => Service!Init
  BY ServiceInit
<1>2. TableInv /\ TableInv' /\ [TableNext]_tableVars => [Service!Next]_(Service!vars)
  BY ServiceStep
<1> QED BY <1>1, <1>2, TableInvariant, PTL DEF TableSpec, ServesNames, Service!Spec

-----------------------------------------------------------------------------
(* Names, and the server.                                                  *)
(* A mark is a position the first loop has been at, and what it had counted *)
(* there.  NextMark is where a turn of either loop goes from it.            *)
Marks == Nat \X Nat
NextMark(v) == IF IsPointer(Byte(v[1])) THEN <<Target(v[1]), v[2] + 1>>
               ELSE <<v[1] + 1 + Byte(v[1]), v[2] + 1 + Byte(v[1])>>

(* The first loop went through v: it was no end, and what it read was there. *)
Passable(v) ==
  /\ Inside(v[1]) /\ Byte(v[1]) # 0
  /\ IsPointer(Byte(v[1])) => Inside(v[1] + 1)

(* V is the trail of the first loop: from the beginning of the name each    *)
(* mark leads to another one of V, and the last one is <<p, n>>.            *)
Trail(V, p, n) ==
  /\ <<begin, 0>> \in V
  /\ \A v \in V : /\ v[2] <= n
                  /\ v # <<p, n>> => Passable(v) /\ NextMark(v) \in V

(* The first loop leaves a trail; the second one walks along it, and has    *)
(* copied no more than the first one had counted at the same mark.          *)
MeasureInv ==
  loop = "measure" =>
    /\ out = << >>
    /\ \E V \in SUBSET Marks : <<pos, size>> \in V /\ Trail(V, pos, size)
CopyInv ==
  loop = "copy" =>
    \E V \in SUBSET Marks, e \in Nat, n \in Nat, c \in Nat :
      /\ Trail(V, e, n)
      /\ Inside(e) /\ Byte(e) = 0 /\ size = n + 1
      /\ <<pos, c>> \in V /\ Len(out) <= c

NameTypeOK ==
  /\ msg \in Seq(0..(Radix - 1))
  /\ begin \in Nat /\ pos \in Nat /\ cur \in Nat /\ size \in Nat
  /\ out \in Seq(0..(Radix - 1))
  /\ loop \in {"idle", "measure", "copy", "done", "failed"}

(* The message stays while a name is parsed: a packet comes in between.     *)
TurnInv == pc # "name" => loop = "idle"

NameInv == NameTypeOK /\ TurnInv /\ MeasureInv /\ CopyInv

-----------------------------------------------------------------------------
LEMMA ByteType ==
  ASSUME NameTypeOK, NEW p \in Nat, Inside(p)
  PROVE  Byte(p) \in 0..(Radix - 1) /\ Byte(p) \in Nat
<1>1. p + 1 \in 1..Len(msg) /\ Radix \in Nat
  BY PacketAssumption DEF NameTypeOK, Inside
<1> QED BY <1>1 DEF NameTypeOK, Byte

LEMMA MarksStay ==
  ASSUME UNCHANGED msg
  PROVE  \A v : (Passable(v)' <=> Passable(v)) /\ NextMark(v)' = NextMark(v)
  BY DEF Passable, NextMark, Inside, Byte, IsPointer, Target

LEMMA TrailStays ==
  ASSUME NEW V, NEW p, NEW n, UNCHANGED <<msg, begin>>, Trail(V, p, n)
  PROVE  Trail(V, p, n)'
  BY MarksStay DEF Trail

LEMMA InitName == Init => NameInv
<1> SUFFICES ASSUME Init PROVE NameInv
  OBVIOUS
<1> QED BY DEF Init, NameInit, NameInv, NameTypeOK, TurnInv, MeasureInv, CopyInv

(* An idle loop has nothing to keep. *)
LEMMA IdleKeeps == NameTypeOK' /\ loop' = "idle" => NameInv'
  BY DEF NameInv, TurnInv, MeasureInv, CopyInv

LEMMA UnchangedKeeps ==
  ASSUME NameInv, UNCHANGED <<nameVars, msg>>, pc' # "name" => loop = "idle"
  PROVE  NameInv'
<1>1. NameTypeOK' /\ TurnInv'
  BY DEF NameInv, NameTypeOK, TurnInv, nameVars
<1>2. MeasureInv'
  BY MarksStay DEF NameInv, MeasureInv, Trail, nameVars
<1>3. ASSUME loop' = "copy" PROVE CopyInv'
  <2>1. PICK V \in SUBSET Marks, e \in Nat, n \in Nat, c \in Nat :
          /\ Trail(V, e, n)
          /\ Inside(e) /\ Byte(e) = 0 /\ size = n + 1
          /\ <<pos, c>> \in V /\ Len(out) <= c
    BY <1>3 DEF NameInv, CopyInv, nameVars
  <2>2. Trail(V, e, n)'
    BY <2>1, TrailStays DEF nameVars
  <2> QED BY <2>1, <2>2 DEF CopyInv, Inside, Byte, nameVars
<1> QED BY <1>1, <1>2, <1>3 DEF NameInv, CopyInv

-----------------------------------------------------------------------------
LEMMA BeginKeeps == NameInv /\ ParseName => NameInv'
<1> SUFFICES ASSUME NameInv, ParseName PROVE NameInv'
  OBVIOUS
<1> USE DEF ParseName, dnscompress_parse
<1> DEFINE V == {<<cur, 0>>}
<1>1. NameTypeOK'
  BY DEF NameInv, NameTypeOK
<1>2. V \in SUBSET Marks
  BY DEF NameInv, NameTypeOK, Marks
<1>3. <<pos', size'>> \in V /\ Trail(V, pos, size)'
  BY DEF Trail
<1>4. MeasureInv'
  BY <1>2, <1>3 DEF MeasureInv
<1> QED BY <1>1, <1>4 DEF NameInv, TurnInv, CopyInv

(* A turn of the first loop that goes on adds a mark to its trail.          *)
LEMMA TrailGrows ==
  ASSUME NameInv, loop = "measure", Passable(<<pos, size>>),
         UNCHANGED <<msg, begin, loop, out>>, <<pos', size'>> = NextMark(<<pos, size>>)
  PROVE  MeasureInv'
<1>1. NameTypeOK
  BY DEF NameInv
<1>2. Byte(pos) \in Nat
  BY <1>1, ByteType DEF NameTypeOK, Passable
<1>3. IsPointer(Byte(pos)) => Target(pos) \in Nat
  BY <1>1, ByteType DEF NameTypeOK, Passable, Target
<1>4. pos' \in Nat /\ size' \in Nat /\ size' > size
  BY <1>1, <1>2, <1>3 DEF NameTypeOK, NextMark
<1>5. PICK V \in SUBSET Marks : <<pos, size>> \in V /\ Trail(V, pos, size)
  BY DEF NameInv, MeasureInv
<1>w. PICK W : W = V \cup {<<pos', size'>>}
  OBVIOUS
<1>6. W \in SUBSET Marks
  BY <1>4, <1>w DEF Marks
<1>7. ASSUME NEW v \in W
      PROVE  /\ v[2] <= size'
             /\ v # <<pos', size'>> => Passable(v) /\ NextMark(v) \in W
  <2>1. CASE v = <<pos', size'>>
    BY <2>1, <1>4
  <2>2. CASE v = <<pos, size>>
    BY <2>2, <1>1, <1>4, <1>w DEF NameTypeOK
  <2>3. CASE v \in V /\ v # <<pos, size>>
    <3>1. v[2] \in Nat
      BY <2>3 DEF Marks
    <3>2. v[2] <= size /\ Passable(v) /\ NextMark(v) \in V
      BY <2>3, <1>5 DEF Trail
    <3> QED BY <3>1, <3>2, <1>1, <1>4, <1>w DEF NameTypeOK
  <2> QED BY <2>1, <2>2, <2>3, <1>w
<1>8. PICK e, n : e = pos' /\ n = size'
  OBVIOUS
<1>9. Trail(W, e, n)
  BY <1>5, <1>7, <1>8, <1>w DEF Trail
<1>10. Trail(W, e, n)'
  BY <1>9, TrailStays
<1>11. <<pos', size'>> \in W
  BY <1>w
<1> QED BY <1>6, <1>8, <1>10, <1>11 DEF NameInv, MeasureInv

LEMMA MeasureLabelKeeps == NameInv /\ pc' = pc /\ MeasureLabel => NameInv'
<1> SUFFICES ASSUME NameInv, pc' = pc, MeasureLabel PROVE NameInv'
  OBVIOUS
<1> USE DEF MeasureLabel
<1>1. Byte(pos) \in Nat
  BY ByteType DEF NameInv, NameTypeOK
<1>2. NameTypeOK'
  BY <1>1 DEF NameInv, NameTypeOK
<1>3. MeasureInv'
  BY TrailGrows DEF Passable, NextMark
<1> QED BY <1>2, <1>3 DEF NameInv, TurnInv, CopyInv

LEMMA MeasurePointerKeeps == NameInv /\ pc' = pc /\ MeasurePointer => NameInv'
<1> SUFFICES ASSUME NameInv, pc' = pc, MeasurePointer PROVE NameInv'
  OBVIOUS
<1> USE DEF MeasurePointer, Leave
<1>1. Target(pos) \in Nat
  BY ByteType DEF NameInv, NameTypeOK, Target
<1>2. NameTypeOK'
  BY <1>1 DEF NameInv, NameTypeOK
<1>3. Byte(pos) # 0
  BY PacketAssumption, ByteType DEF NameInv, NameTypeOK, IsPointer
<1>4. MeasureInv'
  BY <1>3, TrailGrows DEF Passable, NextMark
<1> QED BY <1>2, <1>4 DEF NameInv, TurnInv, CopyInv

(* The second loop starts where the trail does, with nothing copied.        *)
LEMMA MeasureEndKeeps == NameInv /\ pc' = pc /\ MeasureEnd => NameInv'
<1> SUFFICES ASSUME NameInv, pc' = pc, MeasureEnd PROVE NameInv'
  OBVIOUS
<1> USE DEF MeasureEnd, Leave
<1>1. NameTypeOK'
  BY DEF NameInv, NameTypeOK
<1>2. PICK V \in SUBSET Marks : <<pos, size>> \in V /\ Trail(V, pos, size)
  BY DEF NameInv, MeasureInv
<1>3. pos \in Nat /\ size \in Nat /\ Len(out) = 0 /\ <<begin, 0>> \in V
  BY <1>2 DEF NameInv, NameTypeOK, MeasureInv, Trail
<1>4. PICK e \in Nat, n \in Nat : e = pos /\ n = size
  BY <1>3
<1>5. Trail(V, e, n)'
  BY <1>2, <1>4, TrailStays
<1>6. CopyInv'
  BY <1>3, <1>4, <1>5 DEF CopyInv, Inside, Byte
<1> QED BY <1>1, <1>6 DEF NameInv, TurnInv, MeasureInv

-----------------------------------------------------------------------------
(* Where the second loop stands, and where its next turn leads, the first   *)
(* loop has been: there is a byte to read.                                  *)
LEMMA CopyOnTrail ==
  ASSUME NameInv, loop = "copy"
  PROVE  \E V \in SUBSET Marks, e \in Nat, n \in Nat, c \in Nat :
           /\ Trail(V, e, n)
           /\ Inside(e) /\ Byte(e) = 0 /\ size = n + 1
           /\ <<pos, c>> \in V /\ Len(out) <= c /\ c <= n
           /\ \A v \in V : Inside(v[1])
           /\ Byte(pos) # 0 => Passable(<<pos, c>>) /\ NextMark(<<pos, c>>) \in V
<1>1. PICK V \in SUBSET Marks, e \in Nat, n \in Nat, c \in Nat :
        /\ Trail(V, e, n)
        /\ Inside(e) /\ Byte(e) = 0 /\ size = n + 1
        /\ <<pos, c>> \in V /\ Len(out) <= c
  BY DEF NameInv, CopyInv
<1>2. c <= n
  BY <1>1 DEF Trail
<1>3. \A v \in V : Inside(v[1])
  BY <1>1 DEF Trail, Passable
<1>4. Byte(pos) # 0 => Passable(<<pos, c>>) /\ NextMark(<<pos, c>>) \in V
  BY <1>1 DEF Trail
<1> QED BY <1>1, <1>2, <1>3, <1>4

LEMMA FailsKeeps == NameInv /\ pc' = pc /\ (MeasureFails \/ CopyFails) => NameInv'
  BY DEF MeasureFails, CopyFails, NameInv, NameTypeOK, TurnInv, MeasureInv, CopyInv

LEMMA CopyPointerKeeps == NameInv /\ pc' = pc /\ CopyPointer => NameInv'
<1> SUFFICES ASSUME NameInv, pc' = pc, CopyPointer PROVE NameInv'
  OBVIOUS
<1> USE DEF CopyPointer
<1>1. PICK V \in SUBSET Marks, e \in Nat, n \in Nat, c \in Nat :
        /\ Trail(V, e, n)
        /\ Inside(e) /\ Byte(e) = 0 /\ size = n + 1
        /\ <<pos, c>> \in V /\ Len(out) <= c /\ c <= n
        /\ \A v \in V : Inside(v[1])
        /\ Byte(pos) # 0 => Passable(<<pos, c>>) /\ NextMark(<<pos, c>>) \in V
  BY CopyOnTrail
<1>2. Byte(pos) # 0
  BY PacketAssumption, ByteType DEF NameInv, NameTypeOK, IsPointer
<1>3. Inside(pos + 1) /\ <<Target(pos), c + 1>> \in V
  BY <1>1, <1>2 DEF Passable, NextMark
<1>4. pos' = Target(pos) /\ loop' = loop
  BY <1>3
<1>5. NameTypeOK'
  BY <1>3, <1>4 DEF NameInv, NameTypeOK, Marks
<1>6. Trail(V, e, n)'
  BY <1>1, TrailStays
<1>7. Len(out) <= c + 1 /\ c + 1 \in Nat
  BY <1>1 DEF NameInv, NameTypeOK
<1>8. CopyInv'
  BY <1>1, <1>3, <1>4, <1>6, <1>7 DEF CopyInv, Inside, Byte
<1> QED BY <1>4, <1>5, <1>8 DEF NameInv, TurnInv, MeasureInv

LEMMA CopyLabelKeeps == NameInv /\ pc' = pc /\ CopyLabel => NameInv'
<1> SUFFICES ASSUME NameInv, pc' = pc, CopyLabel PROVE NameInv'
  OBVIOUS
<1> DEFINE behind == pos + 1 + Byte(pos)
<1>1. PICK V \in SUBSET Marks, e \in Nat, n \in Nat, c \in Nat :
        /\ Trail(V, e, n)
        /\ Inside(e) /\ Byte(e) = 0 /\ size = n + 1
        /\ <<pos, c>> \in V /\ Len(out) <= c /\ c <= n
        /\ \A v \in V : Inside(v[1])
        /\ Byte(pos) # 0 => Passable(<<pos, c>>) /\ NextMark(<<pos, c>>) \in V
  BY CopyOnTrail DEF CopyLabel
<1>2. /\ pos \in Nat /\ Byte(pos) \in Nat /\ Len(out) \in Nat /\ Len(msg) \in Nat /\ size \in Nat
      /\ msg \in Seq(0..(Radix - 1)) /\ out \in Seq(0..(Radix - 1))
  BY ByteType DEF CopyLabel, NameInv, NameTypeOK
<1>3. Byte(pos) # 0 => <<behind, c + 1 + Byte(pos)>> \in V
  BY <1>1 DEF CopyLabel, NextMark
<1>4. Byte(pos) # 0 => Inside(behind) /\ c + 1 + Byte(pos) <= n
  BY <1>1, <1>3 DEF Trail
<1>5. Inside(behind - 1) /\ Len(out) + 1 + Byte(pos) <= size
  <2>1. CASE Byte(pos) = 0
    BY <2>1, <1>1, <1>2 DEF Inside
  <2>2. CASE Byte(pos) # 0
    BY <2>2, <1>1, <1>2, <1>4 DEF Inside
  <2> QED BY <2>1, <2>2
<1>6. /\ out' = out \o SubSeq(msg, pos + 1, behind)
      /\ pos' = behind
      /\ loop' = IF Byte(pos) = 0 THEN "done" ELSE "copy"
  <2>1. ~(Len(out) + 1 + Byte(pos) > size)
    BY <1>2, <1>5
  <2> QED BY <1>5, <2>1 DEF CopyLabel
<1>7. /\ SubSeq(msg, pos + 1, behind) \in Seq(0..(Radix - 1))
      /\ Len(SubSeq(msg, pos + 1, behind)) = 1 + Byte(pos)
  <2>1. behind \in Nat /\ behind <= Len(msg) /\ pos + 1 <= behind
    BY <1>2, <1>5 DEF Inside
  <2>2. ASSUME NEW i \in (pos + 1)..behind PROVE msg[i] \in 0..(Radix - 1)
    <3>1. i \in 1..Len(msg)
      BY <1>2, <2>1
    <3> QED BY <1>2, <3>1, ElementOfSeq
  <2>3. behind - (pos + 1) + 1 = 1 + Byte(pos)
    BY <1>2
  <2> HIDE DEF behind
  <2> QED BY <1>2, <2>1, <2>2, <2>3, SubSeqProperties
<1>8. out' \in Seq(0..(Radix - 1)) /\ Len(out') = Len(out) + 1 + Byte(pos)
  <2> DEFINE label == SubSeq(msg, pos + 1, behind)
  <2>1. label \in Seq(0..(Radix - 1)) /\ Len(label) = 1 + Byte(pos) /\ out' = out \o label
    BY <1>6, <1>7
  <2> HIDE DEF label
  <2>2. out \o label \in Seq(0..(Radix - 1)) /\ Len(out \o label) = Len(out) + Len(label)
    BY <1>2, <2>1, ConcatProperties
  <2> QED BY <1>2, <2>1, <2>2
<1>9. NameTypeOK'
  <2>1. pos' \in Nat
    BY <1>2, <1>6
  <2>2. loop' \in {"done", "copy"}
    BY <1>6
  <2>3. UNCHANGED <<msg, begin, cur, size>>
    BY DEF CopyLabel
  <2> QED BY <1>8, <2>1, <2>2, <2>3 DEF NameInv, NameTypeOK
<1>10. ASSUME loop' = "copy" PROVE CopyInv'
  <2>1. Trail(V, e, n)'
    BY <1>1, TrailStays DEF CopyLabel
  <2>2. <<pos', c + 1 + Byte(pos)>> \in V /\ c + 1 + Byte(pos) \in Nat
    <3>1. Byte(pos) # 0
      BY <1>6, <1>10
    <3> QED BY <1>2, <1>3, <1>6, <3>1
  <2>3. Len(out') <= c + 1 + Byte(pos)
    BY <1>1, <1>2, <1>8
  <2> QED BY <1>1, <2>1, <2>2, <2>3 DEF CopyLabel, CopyInv, Inside, Byte
<1> QED BY <1>6, <1>9, <1>10 DEF CopyLabel, NameInv, TurnInv, MeasureInv, CopyInv

LEMMA FollowNameKeeps == NameInv /\ pc' = pc /\ FollowName => NameInv'
  BY FailsKeeps, MeasureLabelKeeps, MeasurePointerKeeps, MeasureEndKeeps,
     CopyPointerKeeps, CopyLabelKeeps DEF FollowName

-----------------------------------------------------------------------------
(* The rest of the server starts a name, gives it up, or leaves it alone.   *)
LEMMA ReceiveKeeps == NameInv /\ Receive => NameInv'
<1> SUFFICES ASSUME NameInv, Receive PROVE NameInv'
  OBVIOUS
<1>1. msg' \in Seq(0..(Radix - 1))
  BY PacketAssumption DEF Receive
<1>2. loop' = "idle"
  BY DEF Receive, NameInv, TurnInv, nameVars
<1>3. NameTypeOK'
  BY <1>1 DEF Receive, NameInv, NameTypeOK, nameVars
<1> QED BY <1>2, <1>3, IdleKeeps

LEMMA ParsedQuestionKeeps == NameInv /\ ParsedQuestion => NameInv'
<1> SUFFICES ASSUME NameInv, ParsedQuestion PROVE NameInv'
  OBVIOUS
<1>1. NameTypeOK' /\ loop' = "idle"
  BY DEF ParsedQuestion, NameInv, NameTypeOK
<1> QED BY <1>1, IdleKeeps

LEMMA TurnEndsKeeps == ASSUME NEW left PROVE NameInv /\ TurnEnds(left) => NameInv'
<1> SUFFICES ASSUME NameInv, TurnEnds(left) PROVE NameInv'
  OBVIOUS
<1>1. NameTypeOK' /\ loop' = "idle"
  BY DEF TurnEnds, NameTypeOK
<1> QED BY <1>1, IdleKeeps

LEMMA ServerKeeps == NameInv /\ [Next]_vars => NameInv'
<1> SUFFICES ASSUME NameInv, [Next]_vars PROVE NameInv'
  OBVIOUS
<1>1. CASE LoadZone \/ ParsedMessage \/ Respond \/ UNCHANGED vars
  <2>1. UNCHANGED <<nameVars, msg>> /\ (pc' # "name" => loop = "idle")
    BY <1>1 DEF LoadZone, ParsedMessage, Respond, RespondTo, Probing, Success, NoAnswer, Responded,
                vars, serverVars, NameInv, TurnInv
  <2> QED BY <2>1, UnchangedKeeps
<1>2. CASE Receive
  BY <1>2, ReceiveKeeps
<1>3. CASE ParseName
  BY <1>3, BeginKeeps
<1>4. CASE ParsingName
  BY <1>4, FollowNameKeeps DEF ParsingName
<1>5. CASE ParsedQuestion
  BY <1>5, ParsedQuestionKeeps
<1>6. CASE Ignore \/ Send \/ OutOfMemory
  BY <1>6, TurnEndsKeeps DEF Ignore, Send, OutOfMemory
<1> QED BY <1>1, <1>2, <1>3, <1>4, <1>5, <1>6 DEF Next, Parse

(* What the second loop of dnscompress_parse relies on the first one for    *)
(* holds of every packet, pointers that lead in circles included: it reads  *)
(* no byte outside the message and copies none behind the bytes measured.   *)
THEOREM NamesStayInside == Spec => []CopyStaysInside
<1>1. NameInv => CopyStaysInside
  BY DEF NameInv, NameTypeOK, CopyStaysInside
<1> QED BY <1>1, InitName, ServerKeeps, PTL DEF Spec

-----------------------------------------------------------------------------
(* Name holds every name a question can have: the table of the code is keyed *)
(* by any string.                                                           *)
EveryName == \A s \in Seq(0..(Radix - 1)) : LabelsOf(s).ok => LabelsOf(s).labels \in Name

(* The table is looked at for one question of the message after the other,  *)
(* and the definitions found so far fit the questions they are for.         *)
MessageInv ==
  /\ pc \in {"load", "recv", "parse", "name", "respond", "lookup", "send"}
  /\ count \in Nat /\ questions \in Seq(Question) /\ responses \in Seq(Nat)
  /\ pc \in {"respond", "lookup", "send"} => Len(questions) = count
  /\ pc \notin {"respond", "lookup", "send"} => responses = << >>
  /\ pc # "send" => rcode = 0
LookupInv ==
  /\ pc = "load" => status \in {"filling", "placing"}
  /\ pc \notin {"load", "lookup"} => status = "idle"
  /\ pc = "lookup" => /\ status \in {"looking", "hit", "miss"}
                      /\ Len(responses) < count /\ query = questions[Len(responses) + 1]
AnswerInv ==
  /\ Len(responses) <= Len(questions)
  /\ \A i \in 1..Len(responses) : responses[i] \in Fitting(questions[i])
  /\ pc = "send" => \/ rcode = 0 /\ Len(responses) = count
                    \/ /\ rcode = 3 /\ responses = << >>
                       /\ \E i \in 1..Len(questions) : Fitting(questions[i]) = {}
ServerInv == MessageInv /\ LookupInv /\ AnswerInv

LEMMA InitServer == Init => ServerInv
  BY DEF Init, TableInit, NameInit, ServerInv, MessageInv, LookupInv, AnswerInv

(* What a turn leaves is the state main's loop begins with.                 *)
LEMMA TurnEndsServer ==
  ASSUME NEW left, TurnEnds(left), status' = "idle"
  PROVE  ServerInv'
  BY DEF TurnEnds, ServerInv, MessageInv, LookupInv, AnswerInv

LEMMA LoadZoneServer == ServerInv /\ LoadZone => ServerInv'
<1> SUFFICES ASSUME ServerInv, LoadZone PROVE ServerInv'
  OBVIOUS
<1>1. UNCHANGED <<count, questions, responses, rcode>> /\ pc = "load" /\ responses = << >>
  BY DEF LoadZone, ServerInv, MessageInv
<1>2. pc' = IF status' = "idle" THEN "recv" ELSE "load"
  BY DEF LoadZone
<1>3. status' \in {"filling", "placing", "idle"}
  BY DEF LoadZone, Fill, StartPlacing, PassTaken, Place, Filled, ServerInv, LookupInv
<1>4. MessageInv'
  BY <1>1, <1>2 DEF ServerInv, MessageInv
<1>5. LookupInv'
  BY <1>2, <1>3 DEF LookupInv
<1>6. AnswerInv'
  BY <1>1, <1>2, EmptySeq DEF ServerInv, MessageInv, AnswerInv
<1> QED BY <1>4, <1>5, <1>6 DEF ServerInv

(* Steps of main that look at neither the table nor the answers.            *)
LEMMA QuietServer ==
  ASSUME ServerInv, UNCHANGED <<tableVars, count, questions, responses, rcode>>,
         \/ pc' = pc
         \/ pc \in {"recv", "parse", "name"} /\ pc' \in {"recv", "parse", "name"}
         \/ pc = "parse" /\ pc' = "respond" /\ Len(questions) = count
         \/ pc = "respond" /\ pc' = "send" /\ Len(responses) = count
  PROVE  ServerInv'
<1>1. MessageInv'
  BY DEF ServerInv, MessageInv
<1>2. LookupInv'
  BY DEF ServerInv, LookupInv, tableVars
<1>3. AnswerInv'
  BY DEF ServerInv, MessageInv, AnswerInv, Fitting, tableVars, Service!Fits
<1> QED BY <1>1, <1>2, <1>3 DEF ServerInv

LEMMA ReceiveServer == ServerInv /\ Receive => ServerInv'
<1> SUFFICES ASSUME ServerInv, Receive PROVE ServerInv'
  OBVIOUS
<1>1. PICK p \in Packets : count' = p.count
  BY DEF Receive
<1>2. count' \in Nat
  BY <1>1, PacketAssumption
<1>3. pc = "recv" /\ pc' = "parse" /\ UNCHANGED <<tableVars, questions, responses, rcode>>
  BY DEF Receive
<1>4. MessageInv'
  BY <1>2, <1>3 DEF ServerInv, MessageInv
<1>5. LookupInv'
  BY <1>3 DEF ServerInv, LookupInv, tableVars
<1>6. AnswerInv'
  BY <1>3 DEF ServerInv, AnswerInv, Fitting, tableVars
<1> QED BY <1>4, <1>5, <1>6 DEF ServerInv

(* A question that was parsed has a name and a type the table knows.        *)
LEMMA ParsedQuestionServer ==
  ASSUME EveryName PROVE NameInv /\ ServerInv /\ ParsedQuestion => ServerInv'
<1> SUFFICES ASSUME NameInv, ServerInv, ParsedQuestion PROVE ServerInv'
  OBVIOUS
<1>1. out \in Seq(0..(Radix - 1)) /\ LabelsOf(out).ok
  BY DEF ParsedQuestion, QuestionOK, NameInv, NameTypeOK
<1>2. LabelsOf(out).labels \in Name /\ QType[Byte(cur)] \in RRType
  BY <1>1, PacketAssumption DEF EveryName, ParsedQuestion, QuestionOK
<1> DEFINE q == [name |-> LabelsOf(out).labels, type |-> QType[Byte(cur)]]
<1>3. q \in Question
  BY <1>2 DEF Question
<1>4. questions' = Append(questions, q) /\ pc = "name" /\ pc' = "parse"
      /\ UNCHANGED <<tableVars, count, responses, rcode>>
  BY DEF ParsedQuestion
<1> HIDE DEF q
<1>5. questions' \in Seq(Question) /\ responses = << >>
  BY <1>3, <1>4, AppendProperties DEF ServerInv, MessageInv
<1>6. MessageInv'
  BY <1>4, <1>5 DEF ServerInv, MessageInv
<1>7. LookupInv'
  BY <1>4 DEF ServerInv, LookupInv, tableVars
<1>8. AnswerInv'
  BY <1>4, <1>5, EmptySeq, LenProperties DEF AnswerInv
<1> QED BY <1>6, <1>7, <1>8 DEF ServerInv

LEMMA RespondToServer == ServerInv /\ RespondTo => ServerInv'
<1> SUFFICES ASSUME ServerInv, RespondTo PROVE ServerInv'
  OBVIOUS
<1>1. /\ pc = "respond" /\ pc' = "lookup" /\ Len(responses) < count
      /\ UNCHANGED <<zone, table, count, questions, responses, rcode>>
      /\ status' = "looking" /\ query' = questions[Len(responses) + 1]
  BY DEF RespondTo, Lookup
<1>2. MessageInv'
  BY <1>1 DEF ServerInv, MessageInv
<1>3. LookupInv'
  BY <1>1 DEF LookupInv
<1>4. AnswerInv'
  BY <1>1 DEF ServerInv, AnswerInv, Fitting
<1> QED BY <1>2, <1>3, <1>4 DEF ServerInv

LEMMA ProbingServer == ServerInv /\ Probing => ServerInv'
<1> SUFFICES ASSUME ServerInv, Probing PROVE ServerInv'
  OBVIOUS
<1>1. /\ pc = "lookup" /\ UNCHANGED <<pc, zone, table, query, count, questions, responses, rcode>>
      /\ status' \in {"looking", "hit", "miss"}
  BY DEF Probing, Probe, PassOver, Found, NotFound, serverVars
<1>2. MessageInv'
  BY <1>1 DEF ServerInv, MessageInv
<1>3. LookupInv'
  BY <1>1 DEF ServerInv, LookupInv
<1>4. AnswerInv'
  BY <1>1 DEF ServerInv, AnswerInv, Fitting
<1> QED BY <1>2, <1>3, <1>4 DEF ServerInv

(* A hit is a definition that fits the question, and becomes its answer.    *)
LEMMA SuccessServer == TableInv /\ ServerInv /\ Success => ServerInv'
<1> SUFFICES ASSUME TableInv, ServerInv, Success PROVE ServerInv'
  OBVIOUS
<1>1. /\ pc = "lookup" /\ pc' = "respond" /\ status = "hit" /\ status' = "idle"
      /\ responses' = Append(responses, table[entry])
      /\ UNCHANGED <<zone, table, count, questions, rcode>>
  BY DEF Success, LookupEnds
<1>2. /\ Len(responses) < count /\ Len(questions) = count /\ query = questions[Len(responses) + 1]
      /\ responses \in Seq(Nat) /\ count \in Nat /\ questions \in Seq(Question)
  BY <1>1 DEF ServerInv, MessageInv, LookupInv
<1>3. table[entry] \in DOMAIN zone /\ table[entry] \in Nat
  BY <1>1, ZoneFacts DEF TableInv, TableTypeOK, LookingInv, HitInv, Taken
<1>4. table[entry] \in Fitting(query)
  BY <1>1, <1>3, AnswersAreFitting DEF TableInv, HitInv, Fitting, Service!Fitting
<1>5. /\ responses' \in Seq(Nat) /\ Len(responses') = Len(responses) + 1
      /\ \A i \in 1..Len(responses) : responses'[i] = responses[i]
      /\ responses'[Len(responses) + 1] = table[entry]
  BY <1>1, <1>2, <1>3, AppendProperties
<1>6. MessageInv'
  BY <1>1, <1>2, <1>5 DEF ServerInv, MessageInv
<1>7. LookupInv'
  BY <1>1 DEF LookupInv
<1>8. Len(responses') <= Len(questions)
  BY <1>2, <1>5, LenProperties
<1>9. ASSUME NEW i \in 1..Len(responses') PROVE responses'[i] \in Fitting(questions[i])
  <2>1. i \in 1..Len(responses) \/ i = Len(responses) + 1
    BY <1>2, <1>5, LenProperties
  <2>2. CASE i \in 1..Len(responses)
    BY <1>5, <2>2 DEF ServerInv, AnswerInv
  <2> QED BY <1>2, <1>4, <1>5, <2>1, <2>2
<1>10. AnswerInv'
  BY <1>1, <1>8, <1>9 DEF AnswerInv, Fitting
<1> QED BY <1>6, <1>7, <1>10 DEF ServerInv

(* A miss says of one question that no definition fits it.                  *)
LEMMA NoAnswerServer == TableInv /\ ServerInv /\ NoAnswer => ServerInv'
<1> SUFFICES ASSUME TableInv, ServerInv, NoAnswer PROVE ServerInv'
  OBVIOUS
<1>1. /\ pc = "lookup" /\ pc' = "send" /\ status = "miss" /\ status' = "idle"
      /\ responses' = << >> /\ rcode' = 3
      /\ UNCHANGED <<zone, table, count, questions>>
  BY DEF NoAnswer, LookupEnds
<1>2. /\ Len(responses) < count /\ Len(questions) = count /\ query = questions[Len(responses) + 1]
      /\ responses \in Seq(Nat) /\ count \in Nat /\ questions \in Seq(Question)
  BY <1>1 DEF ServerInv, MessageInv, LookupInv
<1>3. Fitting(query) = {}
  <2>1. DOMAIN zone = 1..Len(zone)
    BY ZoneFacts DEF TableInv, TableTypeOK
  <2> QED BY <1>1, <2>1, AnswersAreFitting DEF TableInv, MissInv, Fitting, Service!Fitting
<1>4. Len(responses) + 1 \in 1..Len(questions)
  BY <1>2, LenProperties
<1>5. MessageInv'
  BY <1>1, <1>2, EmptySeq DEF ServerInv, MessageInv
<1>6. LookupInv'
  BY <1>1 DEF LookupInv
<1>7. AnswerInv'
  <2>1. \E i \in 1..Len(questions) : Fitting(questions[i]) = {}
    BY <1>2, <1>3, <1>4
  <2>2. Len(responses') = 0 /\ Len(questions) \in Nat
    BY <1>1, <1>2, EmptySeq, LenProperties
  <2> QED BY <1>1, <2>1, <2>2 DEF AnswerInv, Fitting
<1> QED BY <1>5, <1>6, <1>7 DEF ServerInv

(* Whatever main does, the table does what TableSpec allows it.             *)
LEMMA ServerUsesTable == ServerInv /\ [Next]_vars => [TableNext]_tableVars
<1> SUFFICES ASSUME ServerInv, [Next]_vars PROVE TableNext \/ UNCHANGED tableVars
  OBVIOUS
<1>1. CASE RespondTo
  <2>1. Len(responses) + 1 \in 1..Len(questions)
    BY <1>1, LenProperties DEF RespondTo, ServerInv, MessageInv
  <2>2. questions[Len(responses) + 1] \in Question
    BY <2>1, ElementOfSeq DEF ServerInv, MessageInv
  <2> QED BY <1>1, <2>2 DEF RespondTo, TableNext
<1>2. CASE LoadZone \/ Probing \/ Success \/ NoAnswer \/ OutOfMemory
  BY <1>2 DEF LoadZone, Probing, Success, NoAnswer, OutOfMemory, TableNext
<1>3. CASE Receive \/ Parse \/ Responded \/ Send \/ UNCHANGED vars
  BY <1>3 DEF Receive, Parse, ParseName, ParsingName, ParsedQuestion, Ignore, ParsedMessage, Responded,
              Send, vars
<1> QED BY <1>1, <1>2, <1>3 DEF Next, Respond

LEMMA NextServer ==
  ASSUME EveryName PROVE NameInv /\ TableInv /\ ServerInv /\ [Next]_vars => ServerInv'
<1> SUFFICES ASSUME NameInv, TableInv, ServerInv, [Next]_vars PROVE ServerInv'
  OBVIOUS
<1>1. CASE ParseName \/ ParsingName \/ ParsedMessage \/ Responded \/ UNCHANGED vars
  BY <1>1, QuietServer DEF ParseName, ParsingName, ParsedMessage, Responded, vars, serverVars
<1>2. CASE Ignore \/ Send
  <2>1. status' = "idle"
    BY <1>2 DEF Ignore, BadQuestion, BadEnd, Send, ServerInv, LookupInv, tableVars
  <2> QED BY <1>2, <2>1, TurnEndsServer DEF Ignore, Send
<1>3. CASE OutOfMemory
  <2>1. status' = "idle"
    BY <1>3 DEF OutOfMemory, LookupEnds, tableVars
  <2> QED BY <1>3, <2>1, TurnEndsServer DEF OutOfMemory
<1> QED BY <1>1, <1>2, <1>3, LoadZoneServer, ReceiveServer, ParsedQuestionServer, RespondToServer,
           ProbingServer, SuccessServer, NoAnswerServer DEF Next, Parse, Respond

LEMMA ServerInvariant == ASSUME EveryName PROVE Spec => [](TableInv /\ ServerInv)
<1>1. Init => NameInv /\ TableInv /\ ServerInv
  BY InitName, InitTable, InitServer DEF Init
<1>2. NameInv /\ TableInv /\ ServerInv /\ [Next]_vars => (NameInv /\ TableInv /\ ServerInv)'
  BY ServerKeeps, ServerUsesTable, NextKeeps, NextServer
<1> QED BY <1>1, <1>2, PTL DEF Spec

(* What is sent answers each question with a definition that fits it, or    *)
(* says NXDOMAIN and answers none when one of them has no answer: whatever  *)
(* came before, and wherever the arena ran out of memory.                  *)
THEOREM AllAnswersOrNone == ASSUME EveryName PROVE Spec => []AnswersAllOrNone
<1>1. ServerInv => AnswersAllOrNone
  <2> SUFFICES ASSUME ServerInv, pc = "send"
               PROVE  IF \A i \in DOMAIN questions : Fitting(questions[i]) # {}
                      THEN /\ rcode = 0 /\ Len(responses) = count
                           /\ \A i \in DOMAIN responses : responses[i] \in Fitting(questions[i])
                      ELSE rcode = 3 /\ responses = << >>
    BY DEF AnswersAllOrNone
  <2>1. /\ DOMAIN questions = 1..Len(questions) /\ DOMAIN responses = 1..Len(responses)
        /\ Len(questions) = count
    BY DEF ServerInv, MessageInv
  <2>2. CASE rcode = 0 /\ Len(responses) = count
    BY <2>1, <2>2 DEF ServerInv, AnswerInv
  <2>3. CASE rcode # 0 \/ Len(responses) # count
    BY <2>1, <2>3 DEF ServerInv, AnswerInv
  <2> QED BY <2>2, <2>3
<1> QED BY <1>1, ServerInvariant, PTL

(* The server, arena and packets and all, uses its table as the table is    *)
(* meant to be used: it implements the name service.                       *)
THEOREM ServerServesNames == ASSUME EveryName PROVE Spec => ServesNames
<1>1. Init => TableInit
  BY DEF Init
<1>2. ServerInv /\ [Next]_vars => [TableNext]_tableVars
  BY ServerUsesTable
<1>3. Spec => TableSpec
  BY <1>1, <1>2, ServerInvariant, PTL DEF Spec, TableSpec
<1> QED BY <1>3, TableServesNames, PTL

-----------------------------------------------------------------------------
(* The reference definition of a name calls itself with a lesser start, or   *)
(* with the same one further on: Rank orders its arguments.                 *)
Positions == 0..(Len(msg) + Radix)
Starts == 0..Len(msg)
Message == msg \in Seq(0..(Radix - 1))
Rank(q, s) == s * (Len(msg) + Radix + 1) + (Len(msg) + Radix - q)

(* What NameAt says of a position, with f for what it says of the rest.      *)
NameBy(f, q, s) ==
  IF ~Inside(q) THEN [ok |-> FALSE, prior |-> TRUE]
  ELSE IF Byte(q) = 0 THEN [ok |-> TRUE, prior |-> TRUE, labels |-> <<0>>, next |-> q + 1]
  ELSE IF IsPointer(Byte(q))
  THEN IF ~Inside(q + 1) THEN [ok |-> FALSE, prior |-> TRUE]
       ELSE IF Offset(q) >= s THEN [ok |-> FALSE, prior |-> FALSE]
       ELSE LET r == f[<<Offset(q), Offset(q)>>]
            IN IF r.ok THEN [r EXCEPT !.next = q + 2] ELSE r
  ELSE LET behind == q + 1 + Byte(q)
           r == f[<<behind, s>>]
       IN IF r.ok THEN [r EXCEPT !.labels = SubSeq(msg, q + 1, behind) \o @] ELSE r

LEMMA MessageByte ==
  ASSUME Message, NEW p \in Nat, Inside(p)
  PROVE  Byte(p) \in 0..(Radix - 1) /\ Byte(p) \in Nat /\ Radix \in Nat /\ Len(msg) \in Nat
<1>1. p + 1 \in 1..Len(msg) /\ Radix \in Nat
  BY PacketAssumption DEF Message, Inside
<1> QED BY <1>1 DEF Message, Byte

LEMMA OffsetType ==
  ASSUME Message, NEW p \in Nat, Inside(p), Inside(p + 1)
  PROVE  Offset(p) \in Nat
<1>1. Byte(p) \in Nat /\ Byte(p + 1) \in Nat /\ Radix \in Nat \ {0} /\ Radix % 4 = 0
  BY MessageByte, PacketAssumption
<1>2. Radix \div 4 \in Nat \ {0}
  BY <1>1
<1>3. PICK h \in Nat : h = Byte(p) % (Radix \div 4)
  BY <1>1, <1>2, WholeAndRest
<1>4. h * Radix \in Nat
  BY <1>1, <1>3
<1> QED BY <1>1, <1>3, <1>4 DEF Offset

LEMMA RankType ==
  ASSUME Message, NEW q \in Positions, NEW s \in Starts
  PROVE  Rank(q, s) \in Nat
<1>1. Len(msg) \in Nat /\ Radix \in Nat
  BY PacketAssumption DEF Message
<1>2. s * (Len(msg) + Radix + 1) \in Nat
  BY <1>1 DEF Starts
<1> QED BY <1>1, <1>2 DEF Rank, Positions

LEMMA LesserStart ==
  ASSUME Message, NEW q \in Positions, NEW s \in Starts, NEW r \in Starts, NEW t \in Positions, r < s
  PROVE  Rank(t, r) < Rank(q, s)
<1>1. PICK k \in Nat \ {0} : k = Len(msg) + Radix + 1 /\ Len(msg) \in Nat /\ Radix \in Nat
  BY PacketAssumption DEF Message
<1>2. s \in Nat /\ r \in Nat
  BY <1>1 DEF Starts
<1>3. s * k >= r * k + k
  BY <1>1, <1>2, LessByOne
<1>4. PICK a \in Nat, b \in Nat : a = s * k /\ b = r * k /\ a >= b + k
  BY <1>1, <1>2, <1>3
<1>5. PICK x \in 0..(k - 1), y \in 0..(k - 1) : x = Len(msg) + Radix - q /\ y = Len(msg) + Radix - t
  <2>1. Len(msg) + Radix - q \in 0..(k - 1) /\ Len(msg) + Radix - t \in 0..(k - 1)
    BY <1>1 DEF Positions
  <2> QED BY <2>1
<1>6. a + x > b + y
  BY <1>4, <1>5
<1> QED BY <1>1, <1>4, <1>5, <1>6 DEF Rank

LEMMA CallsLower ==
  ASSUME Message, NEW q \in Positions, NEW s \in Starts, Inside(q), Byte(q) # 0
  PROVE  /\ IsPointer(Byte(q)) /\ Inside(q + 1) /\ ~(Offset(q) >= s) =>
              /\ Offset(q) \in Positions /\ Offset(q) \in Starts
              /\ Rank(Offset(q), Offset(q)) < Rank(q, s)
         /\ q + 1 + Byte(q) \in Positions /\ Rank(q + 1 + Byte(q), s) < Rank(q, s)
<1>1. q \in Nat /\ Len(msg) \in Nat /\ Radix \in Nat /\ s \in Nat /\ q < Len(msg) /\ Byte(q) \in 0..(Radix - 1)
  BY PacketAssumption, MessageByte DEF Positions, Starts, Message, Inside
<1>2. ASSUME IsPointer(Byte(q)), Inside(q + 1), ~(Offset(q) >= s)
      PROVE  /\ Offset(q) \in Positions /\ Offset(q) \in Starts
             /\ Rank(Offset(q), Offset(q)) < Rank(q, s)
  <2>1. Offset(q) \in Nat /\ Offset(q) < s
    BY <1>1, <1>2, OffsetType
  <2>2. Offset(q) \in Positions /\ Offset(q) \in Starts
    BY <1>1, <2>1 DEF Positions, Starts
  <2> QED BY <2>1, <2>2, LesserStart
<1>3. q + 1 + Byte(q) \in Positions
  BY <1>1 DEF Positions
<1>4. Rank(q + 1 + Byte(q), s) < Rank(q, s)
  <2>1. PICK a \in Nat : a = s * (Len(msg) + Radix + 1)
    BY <1>1
  <2> QED BY <1>1, <2>1 DEF Rank
<1> QED BY <1>2, <1>3, <1>4

(* Only what f says of lower ranks matters.                                 *)
LEMMA NameByLower ==
  ASSUME Message, NEW q \in Positions, NEW s \in Starts, NEW f, NEW g,
         \A t \in Positions, r \in Starts : Rank(t, r) < Rank(q, s) => f[<<t, r>>] = g[<<t, r>>]
  PROVE  NameBy(f, q, s) = NameBy(g, q, s)
<1>1. CASE ~Inside(q) \/ Byte(q) = 0
  BY <1>1 DEF NameBy
<1>2. CASE Inside(q) /\ Byte(q) # 0 /\ IsPointer(Byte(q))
  <2>1. Inside(q + 1) /\ ~(Offset(q) >= s) => f[<<Offset(q), Offset(q)>>] = g[<<Offset(q), Offset(q)>>]
    BY <1>2, CallsLower
  <2> QED BY <1>2, <2>1 DEF NameBy
<1>3. CASE Inside(q) /\ Byte(q) # 0 /\ ~IsPointer(Byte(q))
  <2>1. f[<<q + 1 + Byte(q), s>>] = g[<<q + 1 + Byte(q), s>>]
    BY <1>3, CallsLower
  <2> QED BY <1>3, <2>1 DEF NameBy
<1> QED BY <1>1, <1>2, <1>3

Solves(f, k) ==
  \A q \in Positions, s \in Starts : Rank(q, s) < k => f[<<q, s>>] = NameBy(f, q, s)

LEMMA SolutionExists ==
  ASSUME Message, NEW k \in Nat
  PROVE  \E f : Solves(f, k)
<1> DEFINE S == {i \in Nat : \E f : Solves(f, i)}
<1>1. 0 \in S
  <2>1. \A q \in Positions, s \in Starts : ~(Rank(q, s) < 0)
    BY RankType
  <2>2. Solves(<< >>, 0)
    BY <2>1 DEF Solves
  <2> QED BY <2>2
<1>2. ASSUME NEW i \in S PROVE i + 1 \in S
  <2>1. PICK f : Solves(f, i)
    OBVIOUS
  <2> DEFINE g == [x \in Positions \X Starts |-> IF Rank(x[1], x[2]) < i THEN f[x] ELSE NameBy(f, x[1], x[2])]
  <2>2. \A q \in Positions, s \in Starts : g[<<q, s>>] = IF Rank(q, s) < i THEN f[<<q, s>>] ELSE NameBy(f, q, s)
    OBVIOUS
  <2> HIDE DEF g
  <2>3. ASSUME NEW q \in Positions, NEW s \in Starts, Rank(q, s) < i + 1
        PROVE  g[<<q, s>>] = NameBy(g, q, s)
    <3>1. Rank(q, s) \in Nat /\ i \in Nat
      BY RankType
    <3>2. \A t \in Positions, r \in Starts : Rank(t, r) < Rank(q, s) => Rank(t, r) < i
      BY <2>3, <3>1, RankType
    <3>3. NameBy(f, q, s) = NameBy(g, q, s)
      BY <2>2, <3>2, NameByLower
    <3>4. g[<<q, s>>] = NameBy(f, q, s)
      BY <2>1, <2>2 DEF Solves
    <3> QED BY <3>3, <3>4
  <2>4. Solves(g, i + 1)
    BY <2>3 DEF Solves
  <2> QED BY <2>4
<1>3. S \in SUBSET Nat
  OBVIOUS
<1> HIDE DEF S
<1>4. k \in S
  BY <1>1, <1>2, <1>3, Inductive
<1> QED BY <1>4 DEF S

(* NameAt is what its definition says.                                      *)
LEMMA NameAtIs ==
  ASSUME Message
  PROVE  \E f : /\ Solves(f, Rank(0, Len(msg)) + 1)
                /\ \A q \in Positions, s \in Starts : NameAt(q, s) = f[<<q, s>>] /\ f[<<q, s>>] = NameBy(f, q, s)
<1> DEFINE Is(f) == f = [x \in (0..(Len(msg) + Radix)) \X (0..Len(msg)) |-> NameBy(f, x[1], x[2])]
           at == CHOOSE f : Is(f)
           k == Rank(0, Len(msg)) + 1
<1>1. Len(msg) \in Nat /\ Radix \in Nat
  BY PacketAssumption DEF Message
<1>2. ASSUME NEW q \in Positions, NEW s \in Starts PROVE Rank(q, s) < k
  <2>1. 0 \in Positions /\ Len(msg) \in Starts
    BY <1>1 DEF Positions, Starts
  <2>2. s < Len(msg) => Rank(q, s) < Rank(0, Len(msg))
    BY <2>1, LesserStart
  <2>3. s = Len(msg) => Rank(q, s) <= Rank(0, Len(msg))
    <3>1. PICK a \in Nat : a = Len(msg) * (Len(msg) + Radix + 1)
      BY <1>1
    <3> QED BY <1>1, <3>1 DEF Rank, Positions
  <2>4. Rank(q, s) \in Nat /\ Rank(0, Len(msg)) \in Nat
    BY <2>1, RankType
  <2> QED BY <1>1, <2>2, <2>3, <2>4 DEF Starts
<1>3. PICK g : Solves(g, k)
  <2>1. k \in Nat
    <3>1. 0 \in Positions /\ Len(msg) \in Starts
      BY <1>1 DEF Positions, Starts
    <3> QED BY <3>1, RankType
  <2> HIDE DEF k
  <2> QED BY <2>1, SolutionExists
<1> HIDE DEF k
<1> DEFINE h == [x \in Positions \X Starts |-> g[x]]
<1>4. Is(h)
  <2>1. \A q \in Positions, s \in Starts : h[<<q, s>>] = g[<<q, s>>]
    OBVIOUS
  <2> HIDE DEF h
  <2>2. \A q \in Positions, s \in Starts : g[<<q, s>>] = NameBy(h, q, s)
    BY <1>2, <1>3, <2>1, NameByLower DEF Solves
  <2>x. \A x \in Positions \X Starts : g[x] = NameBy(h, x[1], x[2])
    <3> SUFFICES ASSUME NEW x \in Positions \X Starts PROVE g[x] = NameBy(h, x[1], x[2])
      OBVIOUS
    <3>1. PICK q \in Positions, s \in Starts : x = <<q, s>>
      OBVIOUS
    <3> QED BY <2>2, <3>1
  <2>3. [x \in Positions \X Starts |-> g[x]] = [x \in Positions \X Starts |-> NameBy(h, x[1], x[2])]
    BY <2>x
  <2> QED BY <2>3 DEF h, Positions, Starts
<1> HIDE DEF h
<1>5. Is(at)
  BY <1>4
<1>6. \A q, s : NameAt(q, s) = at[<<q, s>>]
  BY DEF NameAt, NameBy
<1> HIDE DEF at
<1>7. \A q \in Positions, s \in Starts : at[<<q, s>>] = NameBy(at, q, s)
  BY <1>5 DEF Positions, Starts
<1> QED BY <1>6, <1>7 DEF Solves, k

IsName == [ok : {TRUE}, prior : {TRUE}, labels : Seq(0..(Radix - 1)), next : Nat]
NoName == [ok : {FALSE}, prior : BOOLEAN]
(* What is well formed from a position on has a first byte there.           *)
Typed(r, q) == r \in IsName \cup NoName /\ (r.ok => Inside(q))

LEMMA LabelType ==
  ASSUME Message, NEW q \in Nat, NEW n \in Nat, q + 1 + n <= Len(msg)
  PROVE  SubSeq(msg, q + 1, q + 1 + n) \in Seq(0..(Radix - 1))
<1>1. Len(msg) \in Nat
  BY DEF Message
<1>2. PICK b \in Nat : b = q + 1 + n
  OBVIOUS
<1>3. ASSUME NEW i \in (q + 1)..b PROVE msg[i] \in 0..(Radix - 1)
  <2>1. i \in 1..Len(msg)
    BY <1>1, <1>2
  <2> QED BY <2>1, ElementOfSeq DEF Message
<1> QED BY <1>1, <1>2, <1>3, SubSeqProperties DEF Message

LEMMA NameByType ==
  ASSUME Message, NEW q \in Positions, NEW s \in Starts, NEW f,
         \A t \in Positions, r \in Starts : Rank(t, r) < Rank(q, s) => Typed(f[<<t, r>>], t)
  PROVE  Typed(NameBy(f, q, s), q)
<1>0. q \in Nat /\ Radix \in Nat \ {0}
  BY PacketAssumption DEF Positions, Message
<1>1. CASE ~Inside(q) \/ (Inside(q) /\ Byte(q) = 0)
  <2>1. <<0>> \in Seq(0..(Radix - 1)) /\ q + 1 \in Nat
    BY <1>0
  <2> QED BY <1>1, <2>1 DEF NameBy, IsName, NoName, Typed
<1>2. CASE Inside(q) /\ Byte(q) # 0 /\ IsPointer(Byte(q))
  <2>1. CASE ~Inside(q + 1) \/ Offset(q) >= s
    BY <1>2, <2>1 DEF NameBy, NoName, Typed
  <2>2. CASE Inside(q + 1) /\ ~(Offset(q) >= s)
    <3>1. PICK r \in IsName \cup NoName : r = f[<<Offset(q), Offset(q)>>]
      BY <1>2, <2>2, CallsLower DEF Typed
    <3>2. NameBy(f, q, s) = IF r.ok THEN [r EXCEPT !.next = q + 2] ELSE r
      BY <1>2, <2>2, <3>1 DEF NameBy
    <3>3. q + 2 \in Nat
      BY <1>0
    <3> QED BY <1>2, <3>2, <3>3 DEF IsName, NoName, Typed
  <2> QED BY <2>1, <2>2
<1>3. CASE Inside(q) /\ Byte(q) # 0 /\ ~IsPointer(Byte(q))
  <2>1. PICK r \in IsName \cup NoName : r = f[<<q + 1 + Byte(q), s>>] /\ (r.ok => Inside(q + 1 + Byte(q)))
    BY <1>3, CallsLower DEF Typed
  <2>2. NameBy(f, q, s) = IF r.ok THEN [r EXCEPT !.labels = SubSeq(msg, q + 1, q + 1 + Byte(q)) \o @] ELSE r
    BY <1>3, <2>1 DEF NameBy
  <2>3. CASE ~r.ok
    BY <2>1, <2>2, <2>3 DEF IsName, NoName, Typed
  <2>4. CASE r.ok
    <3>1. SubSeq(msg, q + 1, q + 1 + Byte(q)) \in Seq(0..(Radix - 1))
      <4>1. Byte(q) \in Nat /\ Len(msg) \in Nat
        BY <1>0, <1>3, MessageByte
      <4>2. q + 1 + Byte(q) <= Len(msg)
        BY <1>0, <2>1, <2>4, <4>1 DEF Inside
      <4> QED BY <1>0, <4>1, <4>2, LabelType
    <3>2. PICK w \in Seq(0..(Radix - 1)) : w = SubSeq(msg, q + 1, q + 1 + Byte(q))
      BY <3>1
    <3>3. r \in IsName
      BY <2>1, <2>4 DEF NoName
    <3>4. w \o r.labels \in Seq(0..(Radix - 1))
      BY <3>2, <3>3, ConcatProperties DEF IsName
    <3>5. NameBy(f, q, s) = [r EXCEPT !.labels = w \o r.labels]
      BY <2>2, <2>4, <3>2
    <3>6. NameBy(f, q, s) \in IsName
      BY <3>3, <3>4, <3>5 DEF IsName
    <3> QED BY <1>3, <3>6 DEF Typed
  <2> QED BY <2>3, <2>4
<1> QED BY <1>1, <1>2, <1>3

(* What NameAt says of a name is typed.                                     *)
LEMMA NameAtType ==
  ASSUME Message, NEW f,
         \A q \in Positions, s \in Starts : f[<<q, s>>] = NameBy(f, q, s)
  PROVE  \A q \in Positions, s \in Starts : Typed(f[<<q, s>>], q)
<1> DEFINE S == {k \in Nat : \A q \in Positions, s \in Starts : Rank(q, s) < k => Typed(f[<<q, s>>], q)}
<1>1. 0 \in S
  <2>1. \A q \in Positions, s \in Starts : ~(Rank(q, s) < 0)
    BY RankType
  <2> QED BY <2>1
<1>2. ASSUME NEW k \in S PROVE k + 1 \in S
  <2> SUFFICES ASSUME NEW q \in Positions, NEW s \in Starts, Rank(q, s) < k + 1
               PROVE  Typed(f[<<q, s>>], q)
    OBVIOUS
  <2>1. Rank(q, s) \in Nat /\ k \in Nat
    BY RankType
  <2>2. \A t \in Positions, r \in Starts : Rank(t, r) < Rank(q, s) => Rank(t, r) < k
    BY <2>1, RankType
  <2>3. \A t \in Positions, r \in Starts : Rank(t, r) < Rank(q, s) => Typed(f[<<t, r>>], t)
    BY <2>2
  <2> QED BY <2>3, NameByType
<1>3. S \in SUBSET Nat
  OBVIOUS
<1> HIDE DEF S
<1>4. \A k \in Nat : k \in S
  BY <1>1, <1>2, <1>3, Inductive
<1> SUFFICES ASSUME NEW q \in Positions, NEW s \in Starts PROVE Typed(f[<<q, s>>], q)
  OBVIOUS
<1>5. Rank(q, s) \in Nat /\ Rank(q, s) + 1 \in Nat /\ Rank(q, s) < Rank(q, s) + 1
  BY RankType
<1> QED BY <1>4, <1>5 DEF S

(* A name that is well formed here is so where its first label or pointer    *)
(* leads, and its labels and its end follow from those there.               *)
LEMMA NameGoesOn ==
  ASSUME Message, NEW q \in Positions, NEW s \in Starts, NameAt(q, s).ok
  PROVE  /\ Inside(q) /\ NameAt(q, s) \in IsName
         /\ Byte(q) = 0 => NameAt(q, s).labels = <<0>> /\ NameAt(q, s).next = q + 1
         /\ Byte(q) # 0 /\ IsPointer(Byte(q)) =>
              LET t == Offset(q)
              IN /\ Inside(q + 1) /\ t \in Positions /\ t \in Starts
                 /\ NameAt(t, t).ok /\ NameAt(t, t) \in IsName
                 /\ NameAt(q, s).labels = NameAt(t, t).labels /\ NameAt(q, s).next = q + 2
         /\ Byte(q) # 0 /\ ~IsPointer(Byte(q)) =>
              LET behind == q + 1 + Byte(q)
              IN /\ behind \in Positions /\ Inside(behind)
                 /\ NameAt(behind, s).ok /\ NameAt(behind, s) \in IsName
                 /\ NameAt(q, s).labels = SubSeq(msg, q + 1, behind) \o NameAt(behind, s).labels
                 /\ NameAt(q, s).next = NameAt(behind, s).next
<1>1. PICK f : \A t \in Positions, r \in Starts : NameAt(t, r) = f[<<t, r>>] /\ f[<<t, r>>] = NameBy(f, t, r)
  BY NameAtIs
<1>2. \A t \in Positions, r \in Starts : Typed(NameAt(t, r), t)
  BY <1>1, NameAtType
<1>3. \A t \in Positions, r \in Starts : NameAt(t, r).ok => Inside(t) /\ NameAt(t, r) \in IsName
  BY <1>2 DEF Typed, NoName
<1>4. Inside(q) /\ NameAt(q, s) \in IsName /\ NameAt(q, s) = NameBy(f, q, s)
  BY <1>1, <1>3
<1>5. CASE Byte(q) = 0
  <2>1. NameAt(q, s) = [ok |-> TRUE, prior |-> TRUE, labels |-> <<0>>, next |-> q + 1]
    BY <1>4, <1>5 DEF NameBy
  <2> QED BY <1>4, <1>5, <2>1
<1>6. CASE Byte(q) # 0 /\ IsPointer(Byte(q))
  <2>1. Inside(q + 1) /\ ~(Offset(q) >= s)
    BY <1>4, <1>6 DEF NameBy
  <2>2. Offset(q) \in Positions /\ Offset(q) \in Starts
    BY <1>4, <1>6, <2>1, CallsLower
  <2>3. PICK r : r = NameAt(Offset(q), Offset(q)) /\ Typed(r, Offset(q))
    BY <1>2, <2>2
  <2>4. NameAt(q, s) = IF r.ok THEN [r EXCEPT !.next = q + 2] ELSE r
    BY <1>1, <1>4, <1>6, <2>1, <2>2, <2>3 DEF NameBy
  <2>5. r.ok /\ r \in IsName
    BY <2>3, <2>4 DEF Typed, NoName
  <2>6. NameAt(q, s).labels = r.labels /\ NameAt(q, s).next = q + 2
    BY <2>4, <2>5 DEF IsName
  <2> QED BY <1>4, <1>6, <2>1, <2>2, <2>3, <2>5, <2>6
<1>7. CASE Byte(q) # 0 /\ ~IsPointer(Byte(q))
  <2>1. PICK behind \in Positions : behind = q + 1 + Byte(q)
    BY <1>4, <1>7, CallsLower
  <2>2. PICK r : r = NameAt(behind, s) /\ Typed(r, behind)
    BY <1>2, <2>1
  <2>3. PICK w : w = SubSeq(msg, q + 1, behind)
    OBVIOUS
  <2>4. NameAt(q, s) = IF r.ok THEN [r EXCEPT !.labels = w \o @] ELSE r
    BY <1>1, <1>4, <1>7, <2>1, <2>2, <2>3 DEF NameBy
  <2>5. r.ok /\ r \in IsName /\ Inside(behind)
    BY <2>2, <2>4 DEF Typed, NoName
  <2>6. NameAt(q, s).labels = w \o r.labels /\ NameAt(q, s).next = r.next
    BY <2>4, <2>5 DEF IsName
  <2> QED BY <1>4, <1>7, <2>1, <2>2, <2>3, <2>5, <2>6
<1> QED BY <1>5, <1>6, <1>7

LEMMA NameAtStays ==
  ASSUME UNCHANGED msg
  PROVE  \A q, s : NameAt(q, s)' = NameAt(q, s)
  BY DEF NameAt, Inside, Byte, Offset, IsPointer

-----------------------------------------------------------------------------
(* Every offset in the message has one digit, because the message is short   *)
(* or the bits that would be the second digit are not set.                  *)
OneDigit(data) ==
  \/ Len(data) <= Radix
  \/ \A i \in 1..Len(data) : IsPointer(data[i]) => data[i] % (Radix \div 4) = 0
OneDigitOffsets == \A p \in Packets : OneDigit(p.data)

(* The loops are at a position of the name from which the rest of it is as   *)
(* the reference has it: what is to be copied is what remains, and the       *)
(* stream is, or will be, behind the name.                                  *)
StreamInv ==
  /\ OneDigit(msg)
  /\ cur <= Len(msg) /\ begin <= Len(msg)
  /\ pc \in {"load", "recv"} => begin = 0 /\ cur = 0
MeasuresName ==
  WellFormed(begin) /\ loop = "measure" =>
    \E s \in Starts : /\ pos \in Positions /\ NameAt(pos, s).ok
                      /\ NameAt(begin, begin).next = IF first THEN NameAt(pos, s).next ELSE cur
CopiesName ==
  WellFormed(begin) /\ loop = "copy" =>
    \E s \in Starts : /\ pos \in Positions /\ NameAt(pos, s).ok
                      /\ NameAt(begin, begin).labels = out \o NameAt(pos, s).labels
                      /\ NameAt(begin, begin).next = cur
DecompressInv == StreamInv /\ MeasuresName /\ CopiesName /\ DecompressesName

LEMMA OneDigitTarget ==
  ASSUME Message, OneDigit(msg), NEW p \in Nat, Inside(p), Inside(p + 1), IsPointer(Byte(p)),
         Offset(p) <= Len(msg), Offset(p) # Len(msg)
  PROVE  Target(p) = Offset(p)
<1>1. Byte(p) \in Nat /\ Byte(p + 1) \in Nat /\ Radix \in Nat \ {0} /\ Radix \div 4 \in Nat \ {0}
      /\ Len(msg) \in Nat
  <2>1. Radix \div 4 \in Nat \ {0}
    BY PacketAssumption
  <2> QED BY <2>1, MessageByte, PacketAssumption
<1>2. PICK h \in Nat : h = Byte(p) % (Radix \div 4)
  BY <1>1, WholeAndRest
<1>3. Offset(p) = h * Radix + Byte(p + 1)
  BY <1>2 DEF Offset
<1>4. h = 0
  <2>1. CASE Len(msg) <= Radix
    <3>1. h > 0 => h * Radix >= 0 * Radix + Radix
      BY <1>1, <1>2, LessByOne
    <3>2. PICK x \in Nat : x = h * Radix /\ (h > 0 => x >= Radix)
      <4>1. 0 * Radix + Radix = Radix /\ h * Radix \in Nat
        BY <1>1, <1>2
      <4> QED BY <3>1, <4>1
    <3>3. PICK b \in Nat : b = Byte(p + 1) /\ Offset(p) = x + b
      BY <1>1, <1>3, <3>2
    <3>4. x + b < Radix
      <4>1. x + b <= Len(msg) /\ x + b # Len(msg)
        BY <3>3
      <4>2. PICK m \in Nat : m = Len(msg) /\ m <= Radix
        BY <1>1, <2>1
      <4>3. x + b <= m /\ x + b # m
        BY <4>1, <4>2
      <4>4. x + b < m
        BY <4>3
      <4> QED BY <1>1, <4>2, <4>4
    <3>5. h > 0 => x >= Radix
      BY <3>2
    <3>6. Radix \in Nat
      BY <1>1
    <3> QED BY <3>4, <3>5, <3>6
  <2>2. CASE \A i \in 1..Len(msg) : IsPointer(msg[i]) => msg[i] % (Radix \div 4) = 0
    <3>1. p + 1 \in 1..Len(msg)
      BY <1>1 DEF Inside
    <3> QED BY <1>2, <2>2, <3>1 DEF Byte
  <2> QED BY <2>1, <2>2 DEF OneDigit
<1> QED BY <1>1, <1>3, <1>4 DEF Target

(* While nothing is being followed there is only the stream to keep.        *)
LEMMA IdleDecompress ==
  ASSUME StreamInv', loop' = "idle"
  PROVE  DecompressInv'
  BY DEF DecompressInv, MeasuresName, CopiesName, DecompressesName

LEMMA BeginDecompress == NameInv /\ DecompressInv /\ ParseName => DecompressInv'
<1> SUFFICES ASSUME NameInv, DecompressInv, ParseName PROVE DecompressInv'
  OBVIOUS
<1>1. StreamInv'
  BY DEF DecompressInv, StreamInv, ParseName, dnscompress_parse
<1>2. cur \in Positions /\ cur \in Starts
  BY PacketAssumption DEF NameInv, NameTypeOK, DecompressInv, StreamInv, Positions, Starts
<1>3. /\ loop' = "measure" /\ begin' = cur /\ pos' = cur /\ first' = TRUE
      /\ Positions' = Positions /\ Starts' = Starts
  BY DEF ParseName, dnscompress_parse, Positions, Starts
<1>4. \A q, s : NameAt(q, s)' = NameAt(q, s)
  BY NameAtStays DEF ParseName, dnscompress_parse
<1>5. MeasuresName'
  BY <1>2, <1>3 DEF MeasuresName, WellFormed
<1> QED BY <1>1, <1>3, <1>5 DEF DecompressInv, CopiesName, DecompressesName

(* Every turn of a loop leaves the message and the name's beginning alone.  *)
LEMMA NameStays ==
  ASSUME UNCHANGED <<msg, begin>>
  PROVE  /\ \A q, s : NameAt(q, s)' = NameAt(q, s)
         /\ WellFormed(begin)' = WellFormed(begin)
         /\ Positions' = Positions /\ Starts' = Starts
<1>1. \A q, s : NameAt(q, s)' = NameAt(q, s)
  BY NameAtStays
<1>2. NameAt(begin, begin)' = NameAt(begin, begin)
  BY NameAtStays
<1> QED BY <1>1, <1>2 DEF WellFormed, Positions, Starts

LEMMA FailsDecompress ==
  NameInv /\ DecompressInv /\ pc' = pc /\ (MeasureFails \/ CopyFails) => DecompressInv'
<1> SUFFICES ASSUME NameInv, DecompressInv, pc' = pc, MeasureFails \/ CopyFails PROVE DecompressInv'
  OBVIOUS
<1>1. UNCHANGED <<msg, begin, cur>> /\ loop' = "failed" /\ loop \in {"measure", "copy"}
  BY DEF MeasureFails, CopyFails
<1>2. StreamInv'
  BY <1>1 DEF DecompressInv, StreamInv
<1>3. ~WellFormed(begin)
  <2> SUFFICES ASSUME WellFormed(begin) PROVE FALSE
    OBVIOUS
  <2>1. Message /\ PacketAssumption
    BY PacketAssumption DEF NameInv, NameTypeOK, Message
  <2>2. PICK s \in Starts : pos \in Positions /\ NameAt(pos, s).ok
    BY <1>1 DEF DecompressInv, MeasuresName, CopiesName
  <2>3. Inside(pos) /\ (Byte(pos) # 0 /\ IsPointer(Byte(pos)) => Inside(pos + 1))
    BY <2>1, <2>2, NameGoesOn
  <2>4. IsPointer(Byte(pos)) => Byte(pos) # 0
    BY <2>3, PacketAssumption, ByteType DEF NameInv, NameTypeOK, IsPointer
  <2> QED BY <2>3, <2>4 DEF MeasureFails, CopyFails
<1>4. ~WellFormed(begin)'
  BY <1>1, <1>3, NameStays
<1> QED BY <1>1, <1>2, <1>4 DEF DecompressInv, MeasuresName, CopiesName, DecompressesName

LEMMA MeasureLabelDecompress == NameInv /\ DecompressInv /\ pc' = pc /\ MeasureLabel => DecompressInv'
<1> SUFFICES ASSUME NameInv, DecompressInv, pc' = pc, MeasureLabel PROVE DecompressInv'
  OBVIOUS
<1>1. /\ UNCHANGED <<msg, begin, cur, first>> /\ loop = "measure" /\ loop' = "measure"
      /\ pos' = pos + 1 + Byte(pos) /\ Byte(pos) # 0 /\ ~IsPointer(Byte(pos))
  BY DEF MeasureLabel
<1>2. StreamInv'
  BY <1>1 DEF DecompressInv, StreamInv
<1>3. ASSUME WellFormed(begin)
      PROVE  \E s \in Starts : /\ pos' \in Positions /\ NameAt(pos', s).ok
                               /\ NameAt(begin, begin).next = IF first THEN NameAt(pos', s).next ELSE cur
  <2>1. Message
    BY DEF NameInv, NameTypeOK, Message
  <2>2. PICK s \in Starts : /\ pos \in Positions /\ NameAt(pos, s).ok
                            /\ NameAt(begin, begin).next = IF first THEN NameAt(pos, s).next ELSE cur
    BY <1>1, <1>3 DEF DecompressInv, MeasuresName
  <2>3. pos' \in Positions /\ NameAt(pos', s).ok /\ NameAt(pos, s).next = NameAt(pos', s).next
    BY <1>1, <2>1, <2>2, NameGoesOn
  <2> QED BY <2>2, <2>3
<1>4. MeasuresName'
  BY <1>1, <1>3, NameStays DEF MeasuresName
<1> QED BY <1>1, <1>2, <1>4 DEF DecompressInv, CopiesName, DecompressesName

LEMMA MeasurePointerDecompress == NameInv /\ DecompressInv /\ pc' = pc /\ MeasurePointer => DecompressInv'
<1> SUFFICES ASSUME NameInv, DecompressInv, pc' = pc, MeasurePointer PROVE DecompressInv'
  OBVIOUS
<1>1. /\ UNCHANGED <<msg, begin>> /\ loop = "measure" /\ loop' = "measure"
      /\ pos' = Target(pos) /\ Inside(pos) /\ IsPointer(Byte(pos)) /\ Inside(pos + 1)
      /\ first' = FALSE /\ cur' = IF first THEN pos + 2 ELSE cur
  BY DEF MeasurePointer, Leave
<1>2. Message /\ pos \in Nat /\ cur \in Nat /\ Len(msg) \in Nat
  BY DEF NameInv, NameTypeOK, Message
<1>3. StreamInv'
  <2>1. cur' <= Len(msg)
    BY <1>1, <1>2 DEF Inside, DecompressInv, StreamInv
  <2>2. pc \notin {"load", "recv"}
    BY <1>1 DEF NameInv, TurnInv
  <2> QED BY <1>1, <2>1, <2>2 DEF DecompressInv, StreamInv
<1>4. ASSUME WellFormed(begin)
      PROVE  \E s \in Starts : pos' \in Positions /\ NameAt(pos', s).ok /\ NameAt(begin, begin).next = cur'
  <2>1. PICK s \in Starts : /\ pos \in Positions /\ NameAt(pos, s).ok
                            /\ NameAt(begin, begin).next = IF first THEN NameAt(pos, s).next ELSE cur
    BY <1>1, <1>4 DEF DecompressInv, MeasuresName
  <2>2. Byte(pos) # 0
    BY <1>1, PacketAssumption, ByteType DEF NameInv, NameTypeOK, IsPointer
  <2>3. PICK t \in Starts : t = Offset(pos) /\ t \in Positions /\ NameAt(t, t).ok /\ NameAt(pos, s).next = pos + 2
                            /\ Inside(t)
    <3>1. /\ Offset(pos) \in Positions /\ Offset(pos) \in Starts
          /\ NameAt(Offset(pos), Offset(pos)).ok /\ NameAt(pos, s).next = pos + 2
      BY <1>1, <1>2, <2>1, <2>2, NameGoesOn
    <3>2. Inside(Offset(pos))
      BY <1>2, <3>1, NameGoesOn
    <3> QED BY <3>1, <3>2
  <2>4. pos' = t
    <3>1. Offset(pos) <= Len(msg) /\ Offset(pos) # Len(msg)
      BY <1>2, <2>3 DEF Inside, Starts
    <3> QED BY <1>1, <1>2, <2>3, <3>1, OneDigitTarget DEF DecompressInv, StreamInv
  <2> QED BY <1>1, <2>1, <2>3, <2>4
<1>5. MeasuresName'
  BY <1>1, <1>4, NameStays DEF MeasuresName
<1> QED BY <1>1, <1>3, <1>5 DEF DecompressInv, CopiesName, DecompressesName

LEMMA MeasureEndDecompress == NameInv /\ DecompressInv /\ pc' = pc /\ MeasureEnd => DecompressInv'
<1> SUFFICES ASSUME NameInv, DecompressInv, pc' = pc, MeasureEnd PROVE DecompressInv'
  OBVIOUS
<1>1. /\ UNCHANGED <<msg, begin, out>> /\ loop = "measure" /\ loop' = "copy"
      /\ pos' = begin /\ Inside(pos) /\ Byte(pos) = 0
      /\ cur' = IF first THEN pos + 1 ELSE cur
  BY DEF MeasureEnd, Leave
<1>2. Message /\ pos \in Nat /\ cur \in Nat /\ Len(msg) \in Nat /\ begin \in Nat /\ out = << >>
  BY <1>1 DEF NameInv, NameTypeOK, Message, MeasureInv
<1>3. StreamInv'
  <2>1. cur' <= Len(msg)
    BY <1>1, <1>2 DEF Inside, DecompressInv, StreamInv
  <2>2. pc \notin {"load", "recv"}
    BY <1>1 DEF NameInv, TurnInv
  <2> QED BY <1>1, <2>1, <2>2 DEF DecompressInv, StreamInv
<1>4. begin \in Positions /\ begin \in Starts
  BY <1>2, PacketAssumption DEF DecompressInv, StreamInv, Positions, Starts
<1>5. ASSUME WellFormed(begin)
      PROVE  /\ NameAt(begin, begin).ok
             /\ NameAt(begin, begin).labels = << >> \o NameAt(begin, begin).labels
             /\ NameAt(begin, begin).next = cur'
  <2>1. PICK s \in Starts : /\ pos \in Positions /\ NameAt(pos, s).ok
                            /\ NameAt(begin, begin).next = IF first THEN NameAt(pos, s).next ELSE cur
    BY <1>1, <1>5 DEF DecompressInv, MeasuresName
  <2>2. NameAt(pos, s).next = pos + 1
    BY <1>1, <1>2, <2>1, NameGoesOn
  <2>3. NameAt(begin, begin).ok /\ NameAt(begin, begin) \in IsName
    BY <1>2, <1>4, <1>5, NameGoesOn DEF WellFormed
  <2>4. PICK l \in Seq(0..(Radix - 1)) : l = NameAt(begin, begin).labels
    BY <2>3 DEF IsName
  <2>5. << >> \o l = l
    BY <2>4
  <2> QED BY <1>1, <2>1, <2>2, <2>3, <2>4, <2>5
<1>6. CopiesName'
  BY <1>1, <1>2, <1>4, <1>5, NameStays DEF CopiesName
<1> QED BY <1>1, <1>3, <1>6 DEF DecompressInv, MeasuresName, DecompressesName

LEMMA CopyPointerDecompress ==
  NameInv /\ NameInv' /\ DecompressInv /\ pc' = pc /\ CopyPointer => DecompressInv'
<1> SUFFICES ASSUME NameInv, NameInv', DecompressInv, pc' = pc, CopyPointer PROVE DecompressInv'
  OBVIOUS
<1>1. /\ UNCHANGED <<msg, begin, cur, out>> /\ loop = "copy" /\ loop' = "copy"
      /\ pos' = Target(pos) /\ Inside(pos) /\ IsPointer(Byte(pos)) /\ Inside(pos + 1)
  BY DEF CopyPointer, NameInv, NameTypeOK
<1>2. Message /\ pos \in Nat /\ Len(msg) \in Nat
  BY DEF NameInv, NameTypeOK, Message
<1>3. StreamInv'
  BY <1>1 DEF DecompressInv, StreamInv
<1>4. ASSUME WellFormed(begin)
      PROVE  \E s \in Starts : /\ pos' \in Positions /\ NameAt(pos', s).ok
                               /\ NameAt(begin, begin).labels = out \o NameAt(pos', s).labels
                               /\ NameAt(begin, begin).next = cur
  <2>1. PICK s \in Starts : /\ pos \in Positions /\ NameAt(pos, s).ok
                            /\ NameAt(begin, begin).labels = out \o NameAt(pos, s).labels
                            /\ NameAt(begin, begin).next = cur
    BY <1>1, <1>4 DEF DecompressInv, CopiesName
  <2>2. Byte(pos) # 0
    BY <1>1, PacketAssumption, ByteType DEF NameInv, NameTypeOK, IsPointer
  <2>3. PICK t \in Starts : t = Offset(pos) /\ t \in Positions /\ NameAt(t, t).ok /\ Inside(t)
                            /\ NameAt(pos, s).labels = NameAt(t, t).labels
    <3>1. /\ Offset(pos) \in Positions /\ Offset(pos) \in Starts
          /\ NameAt(Offset(pos), Offset(pos)).ok
          /\ NameAt(pos, s).labels = NameAt(Offset(pos), Offset(pos)).labels
      BY <1>1, <1>2, <2>1, <2>2, NameGoesOn
    <3>2. Inside(Offset(pos))
      BY <1>2, <3>1, NameGoesOn
    <3> QED BY <3>1, <3>2
  <2>4. pos' = t
    <3>1. Offset(pos) <= Len(msg) /\ Offset(pos) # Len(msg)
      BY <1>2, <2>3 DEF Inside, Starts
    <3> QED BY <1>1, <1>2, <2>3, <3>1, OneDigitTarget DEF DecompressInv, StreamInv
  <2> QED BY <2>1, <2>3, <2>4
<1>5. CopiesName'
  BY <1>1, <1>4, NameStays DEF CopiesName
<1> QED BY <1>1, <1>3, <1>5 DEF DecompressInv, MeasuresName, DecompressesName

LEMMA CopyLabelDecompress ==
  NameInv /\ NameInv' /\ DecompressInv /\ pc' = pc /\ CopyLabel => DecompressInv'
<1> SUFFICES ASSUME NameInv, NameInv', DecompressInv, pc' = pc, CopyLabel PROVE DecompressInv'
  OBVIOUS
<1> DEFINE label == SubSeq(msg, pos + 1, pos + 1 + Byte(pos))
<1>1. /\ UNCHANGED <<msg, begin, cur>> /\ loop = "copy" /\ Inside(pos) /\ ~IsPointer(Byte(pos))
      /\ pos' = pos + 1 + Byte(pos) /\ out' = out \o label
      /\ loop' = IF Byte(pos) = 0 THEN "done" ELSE "copy"
  BY DEF CopyLabel, NameInv, NameTypeOK
<1>2. /\ Message /\ pos \in Nat /\ Byte(pos) \in Nat /\ Len(msg) \in Nat /\ out \in Seq(0..(Radix - 1))
  BY <1>1, ByteType DEF NameInv, NameTypeOK, Message
<1>3. StreamInv'
  BY <1>1 DEF DecompressInv, StreamInv
<1> HIDE DEF label
<1>4. CASE Byte(pos) = 0
  <2>1. ASSUME WellFormed(begin)
        PROVE  out' = NameAt(begin, begin).labels /\ cur' = NameAt(begin, begin).next
    <3>1. PICK s \in Starts : /\ pos \in Positions /\ NameAt(pos, s).ok
                              /\ NameAt(begin, begin).labels = out \o NameAt(pos, s).labels
                              /\ NameAt(begin, begin).next = cur
      BY <1>1, <2>1 DEF DecompressInv, CopiesName
    <3>2. NameAt(pos, s).labels = <<0>>
      BY <1>2, <1>4, <3>1, NameGoesOn
    <3>3. label = <<0>>
      <4>1. pos + 1 \in 1..Len(msg) /\ msg[pos + 1] = 0
        BY <1>1, <1>2, <1>4 DEF Inside, Byte
      <4>2. label = SubSeq(msg, pos + 1, pos + 1)
        BY <1>2, <1>4 DEF label
      <4>3. PICK p \in Nat \ {0} : p = pos + 1
        BY <1>2
      <4>4. /\ label \in Seq({0}) /\ Len(label) = 1 /\ label[1] = 0
        <5>1. label = SubSeq(msg, p, p) /\ \A i \in p..p : msg[i] \in {0}
          BY <4>1, <4>2, <4>3
        <5>2. SubSeq(msg, p, p) \in Seq({0}) /\ Len(SubSeq(msg, p, p)) = 1
          BY <5>1, SubSeqProperties
        <5> QED BY <5>1, <5>2
      <4>5. <<0>> \in Seq({0}) /\ Len(<<0>>) = 1 /\ <<0>>[1] = 0
        OBVIOUS
      <4> QED BY <4>4, <4>5, SeqEqual
    <3> QED BY <1>1, <3>1, <3>2, <3>3
  <2>2. DecompressesName'
    BY <1>1, <1>4, <2>1, NameStays DEF DecompressesName
  <2> QED BY <1>1, <1>3, <1>4, <2>2 DEF DecompressInv, MeasuresName, CopiesName
<1>5. CASE Byte(pos) # 0
  <2>1. ASSUME WellFormed(begin)
        PROVE  \E s \in Starts : /\ pos' \in Positions /\ NameAt(pos', s).ok
                                 /\ NameAt(begin, begin).labels = out' \o NameAt(pos', s).labels
                                 /\ NameAt(begin, begin).next = cur
    <3>1. PICK s \in Starts : /\ pos \in Positions /\ NameAt(pos, s).ok
                              /\ NameAt(begin, begin).labels = out \o NameAt(pos, s).labels
                              /\ NameAt(begin, begin).next = cur
      BY <1>1, <2>1 DEF DecompressInv, CopiesName
    <3>2. /\ pos' \in Positions /\ Inside(pos') /\ NameAt(pos', s).ok /\ NameAt(pos', s) \in IsName
          /\ NameAt(pos, s).labels = label \o NameAt(pos', s).labels
      BY <1>1, <1>2, <1>5, <3>1, NameGoesOn DEF label
    <3>3. label \in Seq(0..(Radix - 1))
      <4>1. pos + 1 + Byte(pos) <= Len(msg)
        BY <1>1, <1>2, <3>2 DEF Inside
      <4> QED BY <1>2, <4>1, LabelType DEF label
    <3>4. PICK rest \in Seq(0..(Radix - 1)) : rest = NameAt(pos', s).labels
      BY <3>2 DEF IsName
    <3>5. (out \o label) \o rest = out \o (label \o rest)
      <4>1. PICK B : B = 0..(Radix - 1)
        OBVIOUS
      <4>2. PICK x \in Seq(B), y \in Seq(B), z \in Seq(B) : x = out /\ y = label /\ z = rest
        BY <1>2, <3>3, <3>4, <4>1
      <4>3. (x \o y) \o z = x \o (y \o z)
        BY ConcatAssociative
      <4> QED BY <4>2, <4>3
    <3> QED BY <1>1, <3>1, <3>2, <3>4, <3>5
  <2>2. CopiesName'
    BY <1>1, <2>1, NameStays DEF CopiesName
  <2> QED BY <1>1, <1>3, <1>5, <2>2 DEF DecompressInv, MeasuresName, DecompressesName
<1> QED BY <1>4, <1>5

LEMMA FollowNameDecompress ==
  NameInv /\ NameInv' /\ DecompressInv /\ pc' = pc /\ FollowName => DecompressInv'
  BY FailsDecompress, MeasureLabelDecompress, MeasurePointerDecompress, MeasureEndDecompress,
     CopyPointerDecompress, CopyLabelDecompress DEF FollowName

-----------------------------------------------------------------------------
LEMMA InitDecompress == Init => DecompressInv
<1> SUFFICES ASSUME Init PROVE DecompressInv
  OBVIOUS
<1>1. msg = << >> /\ cur = 0 /\ begin = 0 /\ loop = "idle"
  BY DEF Init, NameInit
<1>2. StreamInv
  BY <1>1, PacketAssumption DEF StreamInv, OneDigit
<1> QED BY <1>1, <1>2 DEF DecompressInv, MeasuresName, CopiesName, DecompressesName

LEMMA ReceiveDecompress ==
  ASSUME OneDigitOffsets
  PROVE  NameInv /\ DecompressInv /\ Receive => DecompressInv'
<1> SUFFICES ASSUME NameInv, DecompressInv, Receive PROVE DecompressInv'
  OBVIOUS
<1>1. PICK p \in Packets : msg' = p.data
  BY DEF Receive
<1>2. begin' = 0 /\ cur' = 0 /\ loop' = "idle"
  BY DEF Receive, NameInv, TurnInv, DecompressInv, StreamInv, nameVars
<1>3. OneDigit(msg)' /\ Len(msg') \in Nat
  <2>1. OneDigit(msg')
    BY <1>1 DEF OneDigitOffsets
  <2>2. Len(p.data) \in Nat
    BY PacketAssumption
  <2> QED BY <1>1, <2>1, <2>2 DEF OneDigit, IsPointer
<1>4. StreamInv'
  BY <1>2, <1>3 DEF StreamInv
<1> QED BY <1>2, <1>4, IdleDecompress

LEMMA ParsedQuestionDecompress == NameInv /\ DecompressInv /\ ParsedQuestion => DecompressInv'
<1> SUFFICES ASSUME NameInv, DecompressInv, ParsedQuestion PROVE DecompressInv'
  OBVIOUS
<1>1. UNCHANGED <<msg, begin>> /\ cur' = cur + 1 /\ Inside(cur) /\ loop' = "idle" /\ pc' = "parse"
  BY DEF ParsedQuestion, QuestionOK
<1>2. cur \in Nat /\ Len(msg) \in Nat
  BY DEF NameInv, NameTypeOK
<1>3. cur' <= Len(msg)
  BY <1>1, <1>2 DEF Inside
<1>4. StreamInv'
  BY <1>1, <1>3 DEF DecompressInv, StreamInv
<1> QED BY <1>1, <1>4, IdleDecompress

LEMMA TurnEndsDecompress == ASSUME NEW left PROVE TurnEnds(left) => DecompressInv'
<1> SUFFICES ASSUME TurnEnds(left) PROVE DecompressInv'
  OBVIOUS
<1>1. msg' = << >> /\ cur' = 0 /\ begin' = 0 /\ loop' = "idle"
  BY DEF TurnEnds
<1>2. StreamInv'
  BY <1>1, PacketAssumption DEF StreamInv, OneDigit
<1> QED BY <1>1, <1>2, IdleDecompress

LEMMA OthersDecompress ==
  NameInv /\ DecompressInv /\ (LoadZone \/ ParsedMessage \/ Respond \/ UNCHANGED vars) => DecompressInv'
<1> SUFFICES ASSUME NameInv, DecompressInv, LoadZone \/ ParsedMessage \/ Respond \/ UNCHANGED vars
             PROVE  DecompressInv'
  OBVIOUS
<1>1. UNCHANGED <<loop, begin, pos, cur, first, out, msg>> /\ (pc' \in {"load", "recv"} => pc \in {"load", "recv"})
  BY DEF LoadZone, ParsedMessage, Respond, RespondTo, Probing, Success, NoAnswer, Responded,
         vars, serverVars, nameVars
<1>2. StreamInv'
  BY <1>1 DEF DecompressInv, StreamInv
<1>3. MeasuresName'
  BY <1>1, NameStays DEF DecompressInv, MeasuresName
<1>4. CopiesName'
  BY <1>1, NameStays DEF DecompressInv, CopiesName
<1>5. DecompressesName'
  BY <1>1, NameStays DEF DecompressInv, DecompressesName
<1> QED BY <1>2, <1>3, <1>4, <1>5 DEF DecompressInv

LEMMA NextDecompress ==
  ASSUME OneDigitOffsets
  PROVE  NameInv /\ NameInv' /\ DecompressInv /\ [Next]_vars => DecompressInv'
<1> SUFFICES ASSUME NameInv, NameInv', DecompressInv, [Next]_vars PROVE DecompressInv'
  OBVIOUS
<1>1. CASE LoadZone \/ ParsedMessage \/ Respond \/ UNCHANGED vars
  BY <1>1, OthersDecompress
<1>2. CASE Receive
  BY <1>2, ReceiveDecompress
<1>3. CASE ParseName
  BY <1>3, BeginDecompress
<1>4. CASE ParsingName
  BY <1>4, FollowNameDecompress DEF ParsingName
<1>5. CASE ParsedQuestion
  BY <1>5, ParsedQuestionDecompress
<1>6. CASE Ignore \/ Send \/ OutOfMemory
  BY <1>6, TurnEndsDecompress DEF Ignore, Send, OutOfMemory
<1> QED BY <1>1, <1>2, <1>3, <1>4, <1>5, <1>6 DEF Next, Parse

(* Of a message whose offsets have one digit, which every message of at most *)
(* Radix bytes is, each name that is one by the RFC is decompressed to the   *)
(* labels the RFC gives it, however its pointers are nested, and parsing     *)
(* goes on right behind it.                                                 *)
THEOREM NamesDecompressed == ASSUME OneDigitOffsets PROVE Spec => []DecompressesName
<1>1. Spec => []NameInv
  BY InitName, ServerKeeps, PTL DEF Spec
<1>2. DecompressInv => DecompressesName
  BY DEF DecompressInv
<1> QED BY <1>1, <1>2, InitDecompress, NextDecompress, PTL DEF Spec
=============================================================================
