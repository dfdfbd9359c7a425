---------------------------- MODULE TokenCommit ----------------------------
(***************************************************************************)
(* The token commitment of createtoken (rpcrawtransaction.cpp 1036-1092)   *)
(* and CreateToken (1095-1139, used by inittoken): read a file into a      *)
(* char buffer, make a std::string of it, append the anchor string, hash   *)
(* exactly WINDOW (64 in the code) bytes from the start of that string,    *)
(* sign the digest with a fresh key and return the signature as hex        *)
(* (GetHexStringFromBytes, 957-1034).                                      *)
(*                                                                         *)
(* Bytes are integers 0..255, a hex string is a sequence of one-character  *)
(* strings.  The hash is collision free, so a digest is the window itself; *)
(* the signature is whatever bytes the fresh key produces (SigSeqs).       *)
(* Undefined behaviour is a nondeterministic choice: the bytes after the   *)
(* char buffer (Tails, each ending in a NUL) and the bytes after the       *)
(* preimage string when it is shorter than WINDOW (Overreads); a missing   *)
(* file gives tellg() = -1 and a buffer of garbage.  Whether char is       *)
(* signed is implementation-defined and chosen at start.                   *)
(***************************************************************************)
EXTENDS Integers, Sequences, SequencesExt, FiniteSets

CONSTANTS
  Files,      \* file contents (byte sequences), or Missing
  Missing,    \* the file cannot be opened
  Anchors,    \* anchor strings: the previous txid's hex, or a caller string
  Tails,      \* possible memory after the buffer, each ending in a NUL
  Overreads,  \* possible bytes read past the end of the preimage string
  SigSeqs,    \* possible signature byte strings of a fresh key
  WINDOW,     \* bytes hashed (64 in the code)
  MaxCalls    \* bound on the number of calls

ASSUME WINDOW \in Nat \ {0} /\ MaxCalls \in Nat

VARIABLES
  charSigned, \* whether char is signed in this build
  tokens,     \* history: one record per createtoken call
  calls       \* calls made so far

vars == <<charSigned, tokens, calls>>

HexDigits == <<"0", "1", "2", "3", "4", "5", "6", "7",
               "8", "9", "a", "b", "c", "d", "e", "f">>

----------------------------------------------------------------------------
(* GetHexStringFromBytes                                                   *)

(* The value of the char holding byte b.                                   *)
CharValue(b) == IF charSigned /\ b >= 128 THEN b - 256 ELSE b

(* The if/else chain appends a digit only for a nibble in 0..15.           *)
HexChar(n) == IF n \in 0..15 THEN <<HexDigits[n + 1]>> ELSE <<>>

HighNibbleUnmasked(ch) == ch \div 16

(* (character >> 4) & 0x0F: an arithmetic shift, then the mask.            *)
HighNibble(ch) == (ch \div 16) % 16

(* character & 0x0F                                                        *)
LowNibble(ch) == ch % 16

GetHexStringFromBytes(c) ==
  FoldLeft(LAMBDA s, b : s \o HexChar(HighNibble(CharValue(b)))
                           \o HexChar(LowNibble(CharValue(b))),
           <<>>, c)

(* Reference: the usual lower-case hex encoding, two digits a byte.        *)
RefHex(c) ==
  FoldLeft(LAMBDA s, b : s \o <<HexDigits[b \div 16 + 1], HexDigits[(b % 16) + 1]>>,
           <<>>, c)

----------------------------------------------------------------------------
(* The commitment preimage.                                                *)

(* string filestring(buffer): the bytes up to the first NUL; the buffer   *)
(* is not NUL-terminated, so the read runs on into the memory after it.    *)
CString(s) ==
  LET nul == {i \in DOMAIN s : s[i] = 0}
  IN  IF nul = {} THEN s ELSE SubSeq(s, 1, Min(nul) - 1)

ReadFile(f, tail) == CString(IF f = Missing THEN tail ELSE f \o tail)

(* hashWriter.write(&filestring[0], 64): exactly WINDOW bytes, past the    *)
(* string's end when it is shorter.                                        *)
Window(p, over) == SubSeq(p \o over, 1, WINDOW)

(* CreateToken(pathToFile, previousTxId) and the body of createtoken.      *)
CreateToken(f, anchor, tail, over, sig) ==
  [file   |-> f,
   anchor |-> anchor,
   window |-> Window(ReadFile(f, tail) \o anchor, over),
   sig    |-> sig,
   id     |-> GetHexStringFromBytes(sig)]

----------------------------------------------------------------------------

Init ==
  /\ charSigned \in BOOLEAN
  /\ tokens = {}
  /\ calls = 0

(* createtoken(filepath, previoustxid)                                     *)
createtoken(f, anchor, tail, over, sig) ==
  /\ calls < MaxCalls
  /\ tokens' = tokens \cup {CreateToken(f, anchor, tail, over, sig)}
  /\ calls' = calls + 1
  /\ UNCHANGED charSigned

(* The bound on calls is reached: the model stops there.                   *)
Stopped ==
  /\ calls = MaxCalls
  /\ UNCHANGED vars

Next ==
  \E f \in Files, anchor \in Anchors, tail \in Tails, over \in Overreads,
     sig \in SigSeqs :
    createtoken(f, anchor, tail, over, sig)
  \/ Stopped

Spec == Init /\ [][Next]_vars

----------------------------------------------------------------------------

(* The "Token ID" returned (and written into inittoken's OP_RETURN) is the *)
(* hex of the signature bytes, two digits per byte, for every byte value   *)
(* and for a signed or unsigned char (GetHexStringFromBytes, 960-1031).    *)
TokenIdIsHexOfSignature ==
  \A t \in tokens : t.id = RefHex(t.sig)

(* spec 4.6: the commitment identifies the file and the anchor txid: two   *)
(* tokens whose signed digests are equal were made for the same file      *)
(* contents and the same anchor (1108-1117).                               *)
CommitmentBinding ==
  \A t1, t2 \in tokens :
     t1.window = t2.window => t1.file = t2.file /\ t1.anchor = t2.anchor

=============================================================================
