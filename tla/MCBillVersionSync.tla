------------------------ MODULE MCBillVersionSync --------------------------
(* Instance of BillVersionSync for TLC: a text that shrinks.        *)
EXTENDS BillVersionSync

DateDef == <<1, 2>>
ChunksDef == <<2, 1>>
====
