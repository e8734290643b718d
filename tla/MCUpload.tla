------------------------------ MODULE MCUpload ------------------------------
(* Small instances of Upload for TLC. *)
EXTENDS Upload

Bin(n, c)  == [name |-> n, count |-> c, format |-> "Bin", address |-> 32768, loadable |-> TRUE]
At(g, a)   == [g EXCEPT !.address = a]
MCNoise    == Bin("noise", 2)
MCMisread  == {MCNoise}
MCImages   == {Bin("a", 3), Bin("b", 1)}
MCOneImage == {Bin("a", 2)}
MCBroken   == {[Bin("c", 1) EXCEPT !.loadable = FALSE]}
MCElf      == {[Bin("elf", 1) EXCEPT !.format = "Elf"]}
MCMixed    == {Bin("a", 2), At(Bin("b", 1), 32770)} \cup MCElf \cup MCBroken
\* another file, another address, a binary for an ELF file, a wrong length
MCMoved    == {MCNoise, At(Bin("a", 2), 4096), Bin("elf", 1), Bin("a", 3)}
=============================================================================
