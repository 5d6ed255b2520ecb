--------------------------- MODULE ContractRecords ---------------------------
(***************************************************************************)
(* The records of GlanceAPIContract: two of them are equal when their      *)
(* fields are, which is how a step of a controller is recognised as one of *)
(* the updates that the contract describes.                                *)
(***************************************************************************)
EXTENDS Naturals, TLAPS

ObjectType == [exists : BOOLEAN, deleting : BOOLEAN, new : BOOLEAN, gen : Nat,
               observed : Nat, ready : BOOLEAN]

\* Nothing that the contract tells apart.
LEMMA RecordSame ==
    ASSUME NEW a \in ObjectType, NEW b \in ObjectType,
           b.exists = a.exists, b.deleting = a.deleting, b.new = a.new,
           b.gen = a.gen, b.observed = a.observed, b.ready = a.ready
    PROVE  b = a
<1>1. b = [a EXCEPT !.gen = b.gen]
  BY DEF ObjectType
<1>2. a = [a EXCEPT !.gen = a.gen]
  BY DEF ObjectType
<1> QED
  BY <1>1, <1>2

\* A change of the spec, a new generation.
LEMMA RecordEdited ==
    ASSUME NEW a \in ObjectType, NEW b \in ObjectType,
           b.exists = a.exists, b.deleting = a.deleting, b.new = a.new,
           b.gen = a.gen + 1, b.observed = a.observed, b.ready = a.ready
    PROVE  b = [a EXCEPT !.gen = @ + 1]
<1> DEFINE g == a.gen + 1
<1>1. g \in Nat /\ b.gen = g
  BY DEF ObjectType
<1> HIDE DEF g
<1>2. b = [a EXCEPT !.gen = g]
  BY <1>1 DEF ObjectType
<1> QED
  BY <1>2 DEF g

\* A mark of deletion, which is a new generation too.
LEMMA RecordMarked ==
    ASSUME NEW a \in ObjectType, NEW b \in ObjectType,
           b.exists = a.exists, b.deleting = TRUE, b.new = a.new,
           b.gen = a.gen + 1, b.observed = a.observed, b.ready = a.ready
    PROVE  b = [a EXCEPT !.deleting = TRUE, !.gen = @ + 1]
<1> DEFINE g == a.gen + 1
<1>1. g \in Nat /\ b.gen = g
  BY DEF ObjectType
<1> HIDE DEF g
<1>2. b = [a EXCEPT !.deleting = TRUE, !.gen = g]
  BY <1>1 DEF ObjectType
<1> QED
  BY <1>2 DEF g

\* A report.
LEMMA RecordReported ==
    ASSUME NEW a \in ObjectType, NEW b \in ObjectType,
           b.exists = a.exists, b.deleting = a.deleting, b.new = FALSE, b.gen = a.gen
    PROVE  b = [a EXCEPT !.new = FALSE, !.observed = b.observed, !.ready = b.ready]
  BY DEF ObjectType

\* A new object.
LEMMA RecordCreated ==
    ASSUME NEW a \in ObjectType, NEW b \in ObjectType,
           b.exists = TRUE, b.deleting = a.deleting, b.new = a.new, b.gen = 1,
           b.observed = a.observed, b.ready = a.ready
    PROVE  b = [a EXCEPT !.exists = TRUE, !.gen = 1]
  BY DEF ObjectType

=============================================================================
