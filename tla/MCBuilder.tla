------------------------------ MODULE MCBuilder ------------------------------
(***************************************************************************)
(* Model-checking instance of Builder: int scaled to 8 bits, int64_t to   *)
(* 16, COIN to 100.  The arguments sit at the edges of those widths: a     *)
(* vout of 2^8 (0 after the cast), a sequence of 2^8 - 1 (the maximum,     *)
(* -1 after the cast), data amounts whose product with COIN passes 2^15,   *)
(* and amounts past strtoll's range.                                       *)
(***************************************************************************)
EXTENDS Builder

MCValidAddresses == {"A1", "A2"}

In(vout, seq) == [txid |-> "t", vout |-> vout, seq |-> seq]

MCInputLists ==
  {<<>>, <<In(Num(1), Absent)>>, <<In(Num(1), Num(3)), In(Num(0), Absent)>>,
   <<In(Num(-1), Absent)>>, <<In(Absent, Absent)>>,
   <<In(Num(1), Num(2^8 - 1))>>, <<In(Num(2^8), Absent)>>}

Data(a)    == [key |-> "data", amount |-> a]
Pay(to, a) == [key |-> to, amount |-> a]

MCSendTos ==
  {<<>>, <<Data(Absent)>>, <<Data(Num(5))>>, <<Data(Num(-3))>>, <<Data(Junk)>>,
   <<Data(Num(400))>>, <<Data(Num(2^15 + 5))>>, <<Pay("A1", 10), Data(Num(5))>>,
   <<Pay("A1", 10), Pay("A1", 20)>>, <<Pay("bad", 1)>>, <<Pay("A2", 2000)>>,
   <<Pay("A2", -1)>>}

=============================================================================
