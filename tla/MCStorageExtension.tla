------------------------- MODULE MCStorageExtension -------------------------
(* Two files, of two wallets, one of which has been sold.                  *)
EXTENDS StorageExtension
CONSTANTS f1, f2, w1, w2
MCWalletOf == [f \in FileId |-> IF f = f2 THEN w2 ELSE w1]
=============================================================================
