--------------------------------- MODULE MCVM ---------------------------------
(***************************************************************************)
(* The programs of vm_test.go, with what they should compute, and every    *)
(* program of four bytes out of a set of opcodes, registers and addresses. *)
(* Bytes have their 256 values.                                            *)
(***************************************************************************)
EXTENDS VM, Sequences

\* The code as vm_test.go's assembler lays it out.
Code ==
    [LoadStore |-> <<1, 1, 1,  2, 1, 0,  Halt>>,
     Add       |-> <<1, 1, 1,  1, 2, 2,  3, 1, 2,  2, 1, 0,  Halt>>,
     Subtract  |-> <<1, 1, 1,  1, 2, 2,  4, 1, 2,  2, 1, 0,  Halt>>,
     Jump      |-> <<1, 1, 1,  7, 16,  2, 1, 0,  Halt>>,
     Beqz      |-> <<1, 1, 1,  1, 2, 2,  8, 2, 3,  2, 1, 0,  Halt>>,
     Addi      |-> <<1, 1, 1,  5, 1, 3,  5, 1, 5,  2, 1, 0,  Halt>>,
     Sum       |-> <<1, 1, 1,  8, 1, 8,  3, 2, 1,  6, 1, 1,  7, 11,
                     2, 2, 0,  Halt>>]

Result(x, y) ==
    [LoadStore |-> x, Add |-> (x + y) % W, Subtract |-> (x + W - y) % W,
     Jump |-> 0, Beqz |-> IF y = 0 THEN 0 ELSE x, Addi |-> (x + 8) % W,
     Sum |-> ((x * (x + 1)) \div 2) % W]

\* The memory that holds x and y in the data segment and the code after it.
Image(code, x, y) ==
    [a \in Byte |-> IF a = 1 THEN x ELSE IF a = 2 THEN y
                      ELSE IF a - 7 \in DOMAIN code THEN code[a - 7]
                      ELSE 0]

\* Every test on the inputs at its boundaries, the loop on many more.
Tests == {<<p, x, y>> : p \in DOMAIN Code \ {"Sum"}, x \in {0, 1, 2, 128, 247, 248, W - 1},
                        y \in {0, 1, 2, 128, W - 1}}
            \cup {<<"Sum", x, 0>> : x \in 0..40}

TestImage(t) == Image(Code[t[1]], t[2], t[3])

\* Opcodes legal and illegal, registers, and addresses of the output cell, the
\* data, the program and the end of the memory.
Bytes == {0, 1, 2, 3, 5, 7, 8, 9, W - 3, W - 1}

AnyImages == {Image(c, 9, 0) : c \in [1..4 -> Bytes]}

MCImages == {TestImage(t) : t \in Tests} \cup AnyImages

\* Each program of vm_test.go halts, its loop included, and leaves the result of
\* the arithmetic on bytes in the output cell, for inputs that overflow too.
ComputesResult ==
    LET tests == {t \in Tests : /\ t[2] = image[1] /\ t[3] = image[2]
                                /\ TestImage(t) = image}
    IN  tests # {} ~> /\ status = "halt"
                      /\ \A t \in tests : memory[0] = Result(t[2], t[3])[t[1]]
=============================================================================
