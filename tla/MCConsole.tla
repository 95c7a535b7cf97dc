----------------------------- MODULE MCConsole -----------------------------
EXTENDS Console, Bitwise

\* Words of 4 bits, 16 bytes of one bit, four different words.
MCMemory == [x \in 0..15 |-> IF x \in {1, 4, 6, 11, 14, 15} THEN 1 ELSE 0]

\* Every command, and one that is not in the table.
MCInputs == {e.token : e \in bcmd_table} \cup {<<"??">>}
MCNumbers == {0, 4, 5, 8}
MCXor(a, b) == a ^^ b
=============================================================================
