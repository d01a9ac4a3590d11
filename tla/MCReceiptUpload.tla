-------------------------- MODULE MCReceiptUpload --------------------------
(* TLC instances of ReceiptUpload: one or two photos of one receipt.         *)
EXTENDS ReceiptUpload

CONSTANTS r1, t1, t2

MCReceipt == {r1}
MCReceiptOf == [u \in Upload |-> r1]
MCTab == {t1}
MCTwoTabs == {t1, t2}
=============================================================================
