------------------------------ MODULE MCOtaBoard ------------------------------
(* Banks of two double words and a record page.  Three images: one shorter    *)
(* than its double word, and two that fill the bank and can hang, the second  *)
(* built without the right to write option bytes.  A word a transfer may      *)
(* carry can also be the record of an image.                                  *)
EXTENDS OtaBoard, TLC

\* Words are numbers: 0 erased, 1 torn, 2 to 4 code, 10 and more records.  4 is 2
\* with other bytes behind the end of the short image.
MCErased == 0
MCTorn == 1
MCFirst(n, word) == IF word = 4 THEN 2 ELSE word
MCCrcOf(words) ==
  CASE words = <<2>> -> 1 [] words = <<3, 2>> -> 2 [] words = <<3, 3>> -> 3 [] OTHER -> 4
MCRecordOf(identity) == 10 + identity
MCImages == {[size |-> 5, words |-> <<2>>, hangs |-> FALSE, armed |-> TRUE],
             [size |-> 16, words |-> <<3, 2>>, hangs |-> TRUE, armed |-> TRUE],
             [size |-> 16, words |-> <<3, 3>>, hangs |-> TRUE, armed |-> FALSE]}
MCArmedImages == {i \in MCImages : i.armed}

\* What a state leads to, and the properties of it, depend on nothing else: the
\* answer and the calls of the step before are left out.
MCView == <<transfer, last, board>>

MCWords == {0, 1, 2, 3, 4, 11, 12, 13, 14}
MCSizes == {0, 5, 16}
MCOffsets == {0, 8}
MCCounts == {8, 16}
MCCrcs == 0 .. 4
\* The words of the images, and two in one frame that are wrong, a record's among
\* them.
MCPayloads == {<<2>>, <<3>>, <<4, 11>>}

\* An image without and with its own record, or with that of another, and beside
\* it nothing, or another image.
MCBank(first, second, record) ==
  [c \in Cells |-> IF c = 0 THEN first ELSE IF c = 1 THEN second ELSE record]
MCBlank == MCBank(0, 0, 0)
MCConfirmedAlone == {<<MCBank(2, 0, 11), MCBlank>>, <<MCBank(3, 2, 12), MCBlank>>,
                     <<MCBank(3, 3, 13), MCBlank>>}
MCArmedDeliveries ==
  {<<MCBank(4, 0, 11), MCBlank>>, <<MCBank(3, 2, 0), MCBlank>>,
   <<MCBank(3, 2, 11), MCBank(2, 0, 11)>>, <<MCBank(2, 0, 0), MCBank(3, 2, 11)>>,
   <<MCBank(3, 2, 12), MCBank(3, 2, 12)>>}
=============================================================================
