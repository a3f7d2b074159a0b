---------------------------- MODULE NameService ----------------------------
(***************************************************************************)
(* What the zone of the name server promises: once it is loaded, a question *)
(* is answered with the first definition of the zone file that fits it, and *)
(* goes unanswered only if none does.                                       *)
(***************************************************************************)
EXTENDS Naturals, Sequences

CONSTANTS Name, RRType

VARIABLES zone,         \* the definitions of the zone file, in order
          phase,        \* "loading", "ready", "asked", "hit", "miss"
          asked,        \* the question
          answer        \* the definition it is answered with, 0 if none

vars == <<zone, phase, asked, answer>>

Definition == [name : Name, type : RRType, whole : BOOLEAN]
Question == [name : Name, type : RRType]

(* A CNAME fits any question for its name; an address that is not whole     *)
(* fits none.                                                               *)
Fits(def, q) ==
  /\ def.name = q.name
  /\ def.type \in {"CNAME", q.type}
  /\ def.type = "A" => def.whole
Fitting(q) == {d \in DOMAIN zone : Fits(zone[d], q)}

Unasked == [name |-> zone[1].name, type |-> zone[1].type]

Init ==
  /\ zone \in Seq(Definition) \ {<< >>}
  /\ phase = "loading" /\ answer = 0 /\ asked = Unasked

Load == phase = "loading" /\ phase' = "ready" /\ UNCHANGED <<zone, asked, answer>>

Ask ==
  /\ phase = "ready"
  /\ asked' \in Question
  /\ phase' = "asked"
  /\ UNCHANGED <<zone, answer>>

Hit ==
  /\ phase = "asked"
  /\ answer' \in Fitting(asked)
  /\ \A d \in Fitting(asked) : answer' <= d
  /\ phase' = "hit"
  /\ UNCHANGED <<zone, asked>>

Miss ==
  /\ phase = "asked"
  /\ Fitting(asked) = {}
  /\ phase' = "miss"
  /\ UNCHANGED <<zone, asked, answer>>

(* The answer is used, or the question given up.                           *)
Done ==
  /\ phase \in {"asked", "hit", "miss"}
  /\ phase' = "ready" /\ answer' = 0 /\ asked' = Unasked
  /\ UNCHANGED zone

Next == Load \/ Ask \/ Hit \/ Miss \/ Done
Spec == Init /\ [][Next]_vars
=============================================================================
