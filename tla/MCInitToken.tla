----------------------------- MODULE MCInitToken -----------------------------
(***************************************************************************)
(* Model-checking instance of InitToken.  The wallet holds a 3000 and a    *)
(* 2003 SMLY coin: funding from 3000 leaves change 1998, so a scan that    *)
(* picks the wrong output still finds enough value; funding from 2003      *)
(* leaves change of exactly 1001, so two outputs match the scan.  Two     *)
(* calls let a second mint spend the first one's change, or a lottery     *)
(* payment spend the token output the first mint gave the wallet.          *)
(***************************************************************************)
EXTENDS InitToken

MCGenesisCoins ==
  {Output(<<"genesis", 0>>, 0, 3000, "mine", FALSE), Output(<<"genesis", 0>>, 1, 2003, "mine", FALSE)}

MCDests == {"mine", "foreign", "invalid"}

(* lottery: an amount AmountFromValue refuses, and one a single minted     *)
(* token output (1000) can pay with its fee.                               *)
MCLotteryAmounts == {0, 500}

(* listunspent: absent or empty, the wallet's own address, someone else's, *)
(* a repeated and an undecodable one.                                      *)
MCAddressArgs == {<<>>, <<"mine">>, <<"foreign">>, <<"mine", "mine">>, <<"invalid">>}

=============================================================================
