--------------------------- MODULE MCEventDecoder ---------------------------
(***************************************************************************)
(* Small word universe for EventDecoder.  Words 0..4 fit in 160 bits,     *)
(* 5 stands for any larger word.  Address 3 is the reserved contract, 2  *)
(* another contract, 1 an externally owned account.                       *)
(***************************************************************************)
EXTENDS EventDecoder

MCEmittersGlobal == {3}
MCEmittersAll == {3, 2}
MCCallers == {3, 1}
MCAmounts == {1, 5}
MCIronfishAddrs == {<<5>>}
\* ERC-20 Transfer/Approval (one word), ERC-1155 TransferSingle (two words),
\* an anonymous log with no data, a three-word event led by a large word.
MCOtherData == {<<>>, <<5>>, <<1, 5>>, <<5, 1, 1>>}
=============================================================================
