------------------------------ MODULE MCCipher ------------------------------
(* An instance of Cipher for TLC: three nodes and one iv.                  *)
EXTENDS Cipher

MCNode == { <<164, 196, 148, 16, 255, 1>>, <<164, 196, 148, 16, 2, 254>>,
            <<12, 0, 0, 0, 128, 9>> }
MCPassphrase == <<65, 114, 97, 98, 97>>
MCIvs == { <<17, 33, 66, 132, 8, 16, 33, 67, 134, 12, 24, 48, 96, 192, 128, 0>> }
=============================================================================
