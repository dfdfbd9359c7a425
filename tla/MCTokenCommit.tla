--------------------------- MODULE MCTokenCommit ---------------------------
(***************************************************************************)
(* Model-checking instances of TokenCommit.  Bytes 97 ('a'), 98 ('b'), 120 *)
(* ('x') and NUL; the window is scaled from 64 bytes to 2, anchors of      *)
(* length 2 play inittoken's 64-character txid hex, anchors of length 1 a  *)
(* shorter caller string of createtoken.                                   *)
(***************************************************************************)
EXTENDS TokenCommit

MCWindow == 2

(* Token ids: every single byte, and two-byte strings over the byte        *)
(* values at the signed-char edges.                                        *)
HexFiles     == {<<0>>, <<97>>}
HexAnchors   == {<<120>>, <<120, 121>>}
HexTails     == {<<0>>}
HexOverreads == {<<0>>}
HexSigSeqs   == [1..1 -> 0..255] \cup [1..2 -> {0, 15, 127, 128, 240, 255}]

(* Commitments: files that differ after their first NUL or past the       *)
(* window, a missing file, two anchors sharing their first byte.          *)
WinFiles     == {<<97, 98>>, <<97, 98, 97>>, <<97, 0, 98>>, <<97>>}
WinAnchors   == {<<120, 120>>, <<120, 121>>}
WinTails     == {<<0>>, <<98, 0>>}
WinOverreads == {<<0>>}
WinSigSeqs   == {<<48>>}

=============================================================================
