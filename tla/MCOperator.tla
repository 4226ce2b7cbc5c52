----------------------------- MODULE MCOperator -----------------------------
(* The memory and the drivers of the operator runs: two banks for two        *)
(* different sizes, a third for the first size, samples, and the results.    *)
EXTENDS Integers

MCCells == {"in", "out", "bank", "spare"}

Banks == {1, 2, 3}

\* 0 blank, 1 .. 3 banks, 4 samples, 5 .. 7 results with bank 1 .. 3.
MCContents == 0 .. 7

MCCrc(contents) == 100 + contents

MCModes(contents) == IF contents \in {1, 3} THEN 2 ELSE IF contents = 2 THEN 4 ELSE 0

MCResult(samples, bank) == IF bank \in Banks THEN 4 + bank ELSE 4

File(log2n, input, output, bypass, weights, bank) ==
    [log2n |-> log2n, input |-> input, output |-> output, bypass |-> bypass,
     weights |-> weights, crc |-> IF bank = 0 THEN 0 ELSE MCCrc(bank)]

MCNoFile == File(0, "none", "none", TRUE, "none", 0)

\* One names a bank for another size; others have a buffer or the bank outside
\* memory, or their result written over the bank.
Programs == {
    File(1, "in", "out", FALSE, "bank", 1), File(2, "in", "out", FALSE, "bank", 1),
    File(2, "in", "out", FALSE, "bank", 2), File(1, "in", "out", FALSE, "spare", 3),
    File(1, "in", "bank", FALSE, "bank", 1), File(1, "in", "none", FALSE, "bank", 1),
    File(1, "none", "out", FALSE, "bank", 1), File(1, "in", "out", FALSE, "nowhere", 1) }

MCFiles == {MCNoFile} \cup Programs \cup {[file EXCEPT !.bypass = TRUE] : file \in Programs}

\* The input stays blank: a result tells banks apart, not samples.
MCLoads == {<<"bank", 1>>, <<"bank", 2>>, <<"spare", 3>>, <<"bank", 3>>}
=============================================================================
